---------------------------- MODULE LogProofs ----------------------------
(***************************************************************************)
(* Proofs about Log, for every number of processes and blocks and every    *)
(* size of the log.                                                        *)
(***************************************************************************)
EXTENDS LogInv, FiniteSetTheorems, TLAPS

USE DEF diskVars, cacheVars, opVars, logVars, mustSleep, record

\* Every entry of the in-memory header is a block with a slot in the log.
LEMMA LhSlot ==
  ASSUME TypeOK, HeaderInv
  PROVE  /\ Len(lh) \in Nat
         /\ \A i \in 1 .. Len(lh) : lh[i] \in Block /\ i \in LogSlot /\ logdata[i] \in Data
<1>0. lh \in Seq(Block)
  BY Zenon DEF TypeOK
<1>1. Len(lh) \in Nat /\ \A i \in 1 .. Len(lh) : lh[i] \in Block
  BY <1>0
<1>2. \A i \in 1 .. Len(lh) : i \in LogSlot
  BY <1>1, SizeAssumption DEF HeaderInv, HeaderShape, LogSlot
<1>3. \A i \in LogSlot : logdata[i] \in Data
  BY Zenon DEF TypeOK
<1> QED
  BY Zenon, <1>1, <1>2, <1>3

\* So is the entry a copying loop is at.
LEMMA TailSlot ==
  ASSUME TypeOK, HeaderInv, phase \in {"write_log", "install", "rinstall"}
  PROVE  /\ Len(lh) \in Nat /\ tail \in 1 .. Len(lh)
         /\ lh[tail] \in Block /\ tail \in LogSlot /\ logdata[tail] \in Data
<1>1. tail \in Nat \ {0}
  BY Zenon DEF TypeOK
<1>2. tail <= Len(lh)
  BY DEF HeaderInv
<1> QED
  BY <1>1, <1>2, LhSlot

\* One turn of a copying loop either goes on to the next entry or leaves.
LEMMA NextTurnCases ==
  ASSUME Len(lh) \in Nat, tail \in 1 .. Len(lh), NEW loop, NEW after, NextTurn(loop, after)
  PROVE  \/ tail < Len(lh) /\ phase' = loop /\ tail' = tail + 1
         \/ tail = Len(lh) /\ phase' = after /\ tail' = 1
BY DEF NextTurn

\* The number of open calls is a natural number, zero when there is none.
LEMMA ActiveCard ==
  /\ IsFiniteSet(Active)
  /\ Cardinality(Active) \in Nat
  /\ Cardinality(Active) = 0 <=> Active = {}
<1>1. Active \in SUBSET Proc
  BY DEF Active
<1> QED
  BY <1>1, FS_Subset, ProcAssumption, FS_EmptySet, FS_CardinalityType

\* At boot, before recovery, the invariant holds.
LEMMA InitInv == Init => Inv
<1> SUFFICES ASSUME Init PROVE Inv
  OBVIOUS
<1> USE DEF Init, RecoverPhase, CommitPhase
<1>1. TypeOK
  <2>1. << >> \in Seq(Block)
    OBVIOUS
  <2>2. logdata \in [LogSlot -> Data]
    BY DataAssumption
  <2>3. pc \in [Proc -> {"idle", "asleep", "woken", "op", "commit"}]
    OBVIOUS
  <2>4. committing \in BOOLEAN
    BY Zenon
  <2> QED
    BY <2>1, <2>2, <2>3, <2>4 DEF TypeOK
<1>2. HeaderInv
  BY SizeAssumption DEF HeaderInv, HeaderShape
<1>3. RecoverInv
  BY DEF RecoverInv
<1>4. CommitInv
  <2>1. Active = {}
    BY DEF Active
  <2> QED
    BY <2>1, FS_EmptySet DEF CommitInv
<1>5. LockInv /\ CacheIsCopy
  BY DEF LockInv, CacheIsCopy
<1>6. PinInv
  BY DEF PinInv, PinnedSlots
<1>7. CopyInv
  BY DEF CopyInv, WrittenSlots, InstalledSlots
<1> QED
  BY <1>1, <1>2, <1>3, <1>4, <1>5, <1>6, <1>7 DEF Inv

\* bread() locks a buffer and may fill it from its home block.
LEMMA BreadInv ==
  ASSUME Inv, NEW p \in Proc, NEW b \in Block, bread(p, b)
  PROVE  Inv'
<1> USE DEF Inv, TypeOK, bread, Running, RecoverPhase, CommitPhase
<1>1. TypeOK'
  BY Zenon, ProcAssumption, DataAssumption DEF Contents
<1>2. HeaderInv'
  BY ProcAssumption, DataAssumption DEF HeaderInv, HeaderShape
<1>3. RecoverInv'
  BY Zenon, ProcAssumption, DataAssumption DEF RecoverInv
<1>4. CommitInv'
  BY ProcAssumption, DataAssumption DEF CommitInv, Active
<1>5. LockInv'
  BY ProcAssumption, DataAssumption DEF LockInv, CommitInv, Active, Contents
<1>6. CacheIsCopy'
  BY ProcAssumption, DataAssumption DEF CacheIsCopy, Logged, Contents
<1>7. PinInv'
  BY Zenon, ProcAssumption, DataAssumption DEF PinInv, PinnedSlots, Contents
<1>8. CopyInv'
  <2>1. \A i \in 1 .. Len(lh) : lh[i] \in Block
    BY Zenon, LhSlot
  <2>2. \A i \in WrittenSlots : lh[i] \in Block /\ buf[lh[i]] # NoBuf
    <3>1. WrittenSlots \subseteq PinnedSlots /\ PinnedSlots \subseteq 1 .. Len(lh)
      BY LhSlot DEF WrittenSlots, PinnedSlots, HeaderInv
    <3>2. \A i \in WrittenSlots : lh[i] \in Block /\ pins[lh[i]] = 1
      BY Zenon, <2>1, <3>1 DEF PinInv
    <3> QED
      BY <3>2 DEF PinInv
  <2>3. \A i \in InstalledSlots : lh[i] \in Block
    BY <2>1, LhSlot DEF InstalledSlots, HeaderInv
  <2>4. (\A i \in WrittenSlots : logdata[i] = buf[lh[i]])'
    BY <2>2 DEF CopyInv, WrittenSlots, Contents
  <2>5. (\A i \in InstalledSlots :
           disk[lh[i]] = logdata[i] /\ buf[lh[i]] \in {NoBuf, logdata[i]})'
    BY <2>3 DEF CopyInv, InstalledSlots, Contents
  <2> QED
    BY Zenon, <2>4, <2>5 DEF CopyInv
<1> QED
  BY Zenon, <1>1, <1>2, <1>3, <1>4, <1>5, <1>6, <1>7, <1>8

\* A change of bp->data concerns only the buffer's holder.
LEMMA ModifyInv ==
  ASSUME Inv, NEW p \in Proc, NEW b \in Block, NEW d \in Data, modify(p, b, d)
  PROVE  Inv'
<1> USE DEF Inv, TypeOK, modify, Running, RecoverPhase, CommitPhase
<1>1. TypeOK'
  BY Zenon, ProcAssumption, DataAssumption DEF Contents
<1>2. HeaderInv'
  BY ProcAssumption, DataAssumption DEF HeaderInv, HeaderShape
<1>3. RecoverInv'
  BY Zenon, ProcAssumption, DataAssumption DEF RecoverInv
<1>4. CommitInv'
  BY ProcAssumption, DataAssumption DEF CommitInv, Active
<1>5. LockInv'
  BY Zenon, ProcAssumption, DataAssumption DEF LockInv, CommitInv, Active, Contents
<1>6. CacheIsCopy'
  <2>1. UNCHANGED <<lh, disk>> /\ dirty' = dirty \cup {b} /\ \A c \in Block : c # b => buf'[c] = buf[c]
    BY Zenon DEF diskVars, logVars
  <2> QED
    BY Zenon, <2>1 DEF CacheIsCopy
<1>7. PinInv'
  BY ProcAssumption, DataAssumption DEF PinInv, PinnedSlots, Contents
<1>8. CopyInv'
  <2>1. phase = "none"
    BY Zenon DEF CommitInv, Active
  <2> QED
    BY Zenon, <2>1 DEF CopyInv, WrittenSlots, InstalledSlots
<1> QED
  BY Zenon, <1>1, <1>2, <1>3, <1>4, <1>5, <1>6, <1>7, <1>8

\* brelse() gives up a buffer that holds nothing unlogged.
LEMMA BrelseInv ==
  ASSUME Inv, NEW p \in Proc, NEW b \in Block, brelse(p, b)
  PROVE  Inv'
<1> USE DEF Inv, TypeOK, brelse, Running, RecoverPhase, CommitPhase
<1>1. TypeOK'
  BY Zenon, ProcAssumption, DataAssumption DEF Contents
<1>2. HeaderInv'
  BY ProcAssumption, DataAssumption DEF HeaderInv, HeaderShape
<1>3. RecoverInv'
  BY Zenon, ProcAssumption, DataAssumption DEF RecoverInv
<1>4. CommitInv'
  BY ProcAssumption, DataAssumption DEF CommitInv, Active
<1>5. LockInv'
  BY ProcAssumption, DataAssumption DEF LockInv, CommitInv, Active, Contents
<1>6. CacheIsCopy'
  BY ZenonT(30), ProcAssumption, DataAssumption DEF CacheIsCopy, Logged, Contents
<1>7. PinInv'
  BY Zenon, ProcAssumption, DataAssumption DEF PinInv, PinnedSlots, Contents
<1>8. CopyInv'
  BY ProcAssumption, DataAssumption
     DEF CopyInv, WrittenSlots, InstalledSlots, PinnedSlots, Contents, PinInv, HeaderInv
<1> QED
  BY Zenon, <1>1, <1>2, <1>3, <1>4, <1>5, <1>6, <1>7, <1>8

\* log_write() pins a block that is new in the header and absorbs one that is
\* already there.
LEMMA LogWriteInv ==
  ASSUME Inv, NEW p \in Proc, NEW b \in Block, log_write(p, b)
  PROVE  Inv'
<1> USE DEF Inv, Running, RecoverPhase, CommitPhase
<1>1. phase = "none" /\ ~committing /\ p \in Active
  BY Zenon DEF CommitInv, Active, TypeOK, log_write
<1>2. outstanding \in Nat /\ outstanding >= 1 /\ lh \in Seq(Block) /\ Len(lh) \in Nat
  <2>1. Cardinality(Active) # 0
    BY <1>1, ActiveCard, Zenon
  <2>2. outstanding = Cardinality(Active) /\ outstanding \in Nat /\ lh \in Seq(Block)
    BY Zenon DEF CommitInv, TypeOK
  <2> QED
    BY <2>1, <2>2
<1>3. CASE panic' # "none"
  <2>1. /\ panic' = "too big a transaction"
        /\ UNCHANGED <<disk, logdata, header, buf, lock, pins, dirty, lh, outstanding,
                       committing, pc, touched, phase, tail>>
    <3>1. panic' = log_writePanic
      BY Zenon DEF log_write
    <3>2. log_writePanic = "too big a transaction"
      <4>1. ~(outstanding < 1)
        BY <1>2
      <4>2. log_writePanic # "none"
        BY <1>3, <3>1
      <4> QED
        BY <4>1, <4>2 DEF log_writePanic
    <3>3. UNCHANGED <<lh, pins, dirty, touched>>
      BY Zenon, <1>3 DEF log_write
    <3> QED
      BY Zenon, <3>1, <3>2, <3>3 DEF log_write
  <2>2. TypeOK'
    BY Zenon, <2>1 DEF TypeOK
  <2>3. CommitInv' /\ RecoverInv'
    BY Zenon, <1>1, <2>1 DEF CommitInv, Active, RecoverInv
  <2>4. HeaderInv' /\ LockInv' /\ CacheIsCopy'
    <3>1. HeaderInv'
      BY Zenon, <2>1 DEF HeaderInv
    <3>2. LockInv'
      BY Zenon, <2>1 DEF LockInv
    <3>3. CacheIsCopy'
      BY Zenon, <2>1 DEF CacheIsCopy, Logged
    <3> QED
      BY <3>1, <3>2, <3>3
  <2>5. PinInv'
    BY Zenon, <2>1 DEF PinInv, PinnedSlots
  <2>6. CopyInv'
    BY Zenon, <2>1 DEF CopyInv, WrittenSlots, InstalledSlots
  <2> QED
    BY <2>2, <2>3, <2>4, <2>5, <2>6
<1>4. CASE panic' = "none"
  <2>1. /\ b \in dirty /\ lock[b] = p
        /\ Len(lh) < NLOG - 1
        /\ dirty' = dirty \ {b}
        /\ touched' = [touched EXCEPT ![p] = @ \cup {b}]
        /\ UNCHANGED <<disk, logdata, header, buf, lock, outstanding, committing, pc,
                       phase, tail>>
    BY <1>2, <1>4, SizeAssumption DEF log_write, log_writePanic
  <2>2. IF b \in Logged(lh) THEN UNCHANGED <<lh, pins>>
        ELSE lh' = Append(lh, b) /\ pins' = [pins EXCEPT ![b] = @ + 1]
    BY Zenon, <1>4 DEF log_write
  <2>a. ASSUME b \notin Logged(lh)
        PROVE  /\ Len(lh') = Len(lh) + 1 /\ Len(lh) \in Nat
               /\ \A i \in 1 .. Len(lh) : lh'[i] = lh[i] /\ lh[i] # b
               /\ lh'[Len(lh) + 1] = b
    BY <1>2, <2>2, <2>a DEF Logged
  <2>3. TypeOK'
    <3>1. lh' \in Seq(Block)
      BY <1>2, <2>2
    <3>2. pins' \in [Block -> Nat]
      <4>1. pins \in [Block -> Nat]
        BY Zenon DEF TypeOK
      <4> QED
        BY <2>2, <4>1
    <3>3. touched' \in [Proc -> SUBSET Block]
      BY ZenonT(30), <2>1 DEF TypeOK
    <3>4. dirty' \subseteq Block
      BY Zenon, <2>1 DEF TypeOK
    <3> QED
      BY Zenon, <1>4, <2>1, <3>1, <3>2, <3>3, <3>4 DEF TypeOK
  <2>4. HeaderInv'
    <3>1. HeaderShape(lh')
      <4>1. CASE b \in Logged(lh)
        BY Zenon, <2>2, <4>1 DEF HeaderInv
      <4>2. CASE b \notin Logged(lh)
        BY <1>2, <2>1, <2>a, <4>2, SizeAssumption DEF HeaderInv, HeaderShape
      <4> QED
        BY <4>1, <4>2
    <3> QED
      BY <1>1, <2>1, <3>1 DEF HeaderInv, HeaderShape
  <2>5. RecoverInv' /\ CommitInv'
    BY Zenon, <1>1, <1>4, <2>1 DEF RecoverInv, CommitInv, Active
  <2>6. LockInv'
    BY Zenon, <2>1 DEF LockInv
  <2>7. CacheIsCopy'
    <3>1. Logged(lh') = Logged(lh) \cup {b}
      <4>1. CASE b \in Logged(lh)
        BY Zenon, <2>2, <4>1
      <4>2. CASE b \notin Logged(lh)
        BY <2>a, <4>2 DEF Logged
      <4> QED
        BY Zenon, <4>1, <4>2
    <3> QED
      BY Zenon, <2>1, <3>1 DEF CacheIsCopy
  <2>8. PinInv'
    <3>1. PinnedSlots = 1 .. Len(lh) /\ PinnedSlots' = 1 .. Len(lh')
      BY Zenon, <1>1, <2>1 DEF PinnedSlots
    <3>2. CASE b \in Logged(lh)
      BY Zenon, <2>1, <2>2, <3>1, <3>2 DEF PinInv
    <3>3. CASE b \notin Logged(lh)
      <4>1. \A c \in Block : (\E i \in PinnedSlots' : lh'[i] = c)
                             <=> (c = b \/ \E i \in PinnedSlots : lh[i] = c)
        BY <2>a, <3>1, <3>3
      <4>2. pins \in [Block -> Nat] /\ pins[b] = 0 /\ pins' = [pins EXCEPT ![b] = pins[b] + 1]
        BY Zenon, <2>2, <3>1, <3>3 DEF PinInv, Logged, TypeOK
      <4>3. buf'[b] # NoBuf
        BY Zenon, <2>1, ProcAssumption DEF LockInv
      <4> QED
        BY <2>1, <4>1, <4>2, <4>3 DEF PinInv
    <3> QED
      BY Zenon, <3>2, <3>3
  <2>9. CopyInv'
    BY Zenon, <1>1, <2>1 DEF CopyInv, WrittenSlots, InstalledSlots
  <2> QED
    BY <2>3, <2>4, <2>5, <2>6, <2>7, <2>8, <2>9
<1> QED
  BY <1>3, <1>4

\* begin_op() admits a call, or puts it to sleep.
LEMMA BeginOpInv ==
  ASSUME Inv, NEW p \in Proc, begin_op(p)
  PROVE  Inv'
<1> USE DEF Inv, Running, RecoverPhase, CommitPhase
<1>1. CASE pc' = [pc EXCEPT ![p] = "asleep"] /\ UNCHANGED <<outstanding, touched>>
  <2>1. UNCHANGED <<disk, logdata, header, buf, lock, pins, dirty, lh, committing, phase,
                   tail, panic>>
    BY Zenon DEF begin_op
  <2>2. Active' = Active
    BY Zenon, <1>1 DEF Active, begin_op, TypeOK
  <2>3. TypeOK'
    BY Zenon, <1>1, <2>1 DEF TypeOK
  <2>4. HeaderInv' /\ CacheIsCopy'
    BY Zenon, <2>1 DEF HeaderInv, CacheIsCopy
  <2>5. RecoverInv'
    BY Zenon, <2>1 DEF RecoverInv, begin_op
  <2>6. CommitInv'
    BY Zenon, <1>1, <2>1, <2>2 DEF CommitInv, TypeOK
  <2>7. LockInv'
    BY <1>1, <2>1 DEF LockInv, begin_op, TypeOK
  <2>8. PinInv'
    BY Zenon, <2>1 DEF PinInv, PinnedSlots
  <2>9. CopyInv'
    BY Zenon, <2>1 DEF CopyInv, WrittenSlots, InstalledSlots
  <2> QED
    BY Zenon, <2>3, <2>4, <2>5, <2>6, <2>7, <2>8, <2>9
<1>2. CASE /\ ~committing
           /\ pc' = [pc EXCEPT ![p] = "op"]
           /\ outstanding' = outstanding + 1
           /\ touched' = [touched EXCEPT ![p] = {}]
  <2>1. UNCHANGED <<disk, logdata, header, buf, lock, pins, dirty, lh, committing, phase,
                   tail, panic>>
    BY DEF begin_op
  <2>2. Active' = Active \cup {p} /\ p \notin Active
    BY Zenon, <1>2 DEF Active, begin_op, TypeOK
  <2>3. TypeOK'
    <3>1. outstanding' \in Nat
      <4>1. outstanding \in Nat
        BY Zenon DEF TypeOK
      <4> QED
        BY <1>2, <4>1
    <3>2. pc' \in [Proc -> {"idle", "asleep", "woken", "op", "commit"}]
      BY Zenon, <1>2 DEF TypeOK
    <3>3. touched' \in [Proc -> SUBSET Block]
      BY Zenon, <1>2 DEF TypeOK
    <3> QED
      BY ZenonT(30), <2>1, <3>1, <3>2, <3>3 DEF TypeOK
  <2>4. HeaderInv' /\ CacheIsCopy'
    BY <2>1 DEF HeaderInv, CacheIsCopy
  <2>5. RecoverInv'
    BY <2>1 DEF RecoverInv, begin_op
  <2>6. CommitInv'
    <3>1. outstanding' = Cardinality(Active')
      BY Zenon, <1>2, <2>2, ActiveCard, FS_AddElement DEF CommitInv
    <3>2. phase = "none"
      BY Zenon, <1>2 DEF CommitInv, begin_op, TypeOK
    <3> QED
      BY ZenonT(30), <1>2, <2>1, <2>2, <3>1, <3>2 DEF CommitInv, TypeOK
  <2>7. LockInv'
    BY <1>2, <2>1 DEF LockInv, begin_op, TypeOK
  <2>8. PinInv'
    BY <2>1 DEF PinInv, PinnedSlots
  <2>9. CopyInv'
    BY <2>1 DEF CopyInv, WrittenSlots, InstalledSlots
  <2> QED
    BY <2>3, <2>4, <2>5, <2>6, <2>7, <2>8, <2>9
<1> QED
  BY Zenon, <1>1, <1>2 DEF begin_op

\* end_op() wakes the sleepers or starts the commit.
LEMMA EndOpInv ==
  ASSUME Inv, NEW p \in Proc, end_op(p)
  PROVE  Inv'
<1> USE DEF Inv, Running, RecoverPhase, CommitPhase
<1>1. p \in Active /\ phase = "none" /\ ~committing /\ panic' = "none"
  BY Zenon DEF end_op, Active, CommitInv, TypeOK
<1>2. /\ outstanding' = outstanding - 1
      /\ outstanding' = Cardinality(Active \ {p})
      /\ outstanding' \in Nat
      /\ outstanding' = 0 <=> Active \ {p} = {}
  <2>1. IsFiniteSet(Active \ {p}) /\ Cardinality(Active \ {p}) = Cardinality(Active) - 1
    BY Zenon, <1>1, ActiveCard, FS_RemoveElement
  <2>2. outstanding' = outstanding - 1 /\ outstanding = Cardinality(Active)
    BY Zenon DEF end_op, CommitInv
  <2>3. Cardinality(Active \ {p}) = 0 <=> Active \ {p} = {}
    BY Zenon, <2>1, FS_EmptySet
  <2> QED
    BY Zenon, <2>1, <2>2, <2>3, FS_CardinalityType
<1>3. UNCHANGED <<disk, logdata, header, buf, lock, pins, dirty, lh, touched>>
  BY Zenon DEF end_op
<1>4. CacheIsCopy'
  BY Zenon, <1>3 DEF CacheIsCopy
<1>5. header = << >> /\ tail = 1
  BY Zenon, <1>1 DEF HeaderInv
<1>6. lh \in Seq(Block) /\ Len(lh) \in Nat
  <2>1. lh \in Seq(Block)
    BY Zenon DEF TypeOK
  <2> QED
    BY <2>1
<1>7. CASE outstanding' # 0
  <2>1. pc' = WakeAllThen(p, "idle") /\ UNCHANGED <<committing, phase, tail>>
    BY Zenon, <1>1, <1>7 DEF end_op
  <2>2. \A q \in Proc : /\ pc'[q] \in {"idle", "woken", "op", "commit"}
                        /\ pc'[q] = "op" <=> (pc[q] = "op" /\ q # p)
                        /\ pc'[q] = "commit" <=> (pc[q] = "commit" /\ q # p)
                        /\ pc[q] = "idle" => pc'[q] = "idle"
    BY Zenon, <2>1 DEF WakeAllThen, TypeOK
  <2>3. Active' = Active \ {p}
    BY Zenon, <2>2 DEF Active
  <2>4. TypeOK'
    BY Zenon, <1>1, <1>2, <1>3, <2>1 DEF TypeOK, WakeAllThen
  <2>5. HeaderInv' /\ RecoverInv'
    BY Zenon, <1>1, <1>3, <2>1 DEF HeaderInv, RecoverInv
  <2>6. CommitInv'
    BY Zenon, <1>1, <1>2, <1>3, <1>7, <2>1, <2>2, <2>3 DEF CommitInv
  <2>7. LockInv'
    BY <1>3, <2>2, ProcAssumption DEF LockInv, TypeOK, end_op
  <2>8. PinInv' /\ CopyInv'
    BY ZenonT(30), <1>3, <2>1 DEF PinInv, PinnedSlots, CopyInv, WrittenSlots, InstalledSlots
  <2> QED
    BY Zenon, <1>4, <2>4, <2>5, <2>6, <2>7, <2>8
<1>8. CASE outstanding' = 0
  <2>1. /\ pc' = [pc EXCEPT ![p] = "commit"]
        /\ committing' = TRUE
        /\ phase' = IF Len(lh) > 0 THEN "write_log" ELSE "done"
        /\ tail' = 1
    BY Zenon, <1>1, <1>8 DEF end_op
  <2>2. Active' = {}
    BY Zenon, <1>2, <1>8, <2>1 DEF Active, TypeOK
  <2>3. Len(lh) > 0 \/ lh = << >>
    BY <1>6
  <2>4. TypeOK'
    <3>1. pc' \in [Proc -> {"idle", "asleep", "woken", "op", "commit"}]
      BY Zenon, <2>1 DEF TypeOK
    <3>2. phase' \in {"write_log", "done"} /\ committing' \in BOOLEAN
      BY Zenon, <2>1
    <3>3. outstanding' \in Nat /\ tail' \in Nat \ {0}
      BY <1>2, <2>1
    <3> QED
      BY Zenon, <1>1, <1>3, <3>1, <3>2, <3>3 DEF TypeOK
  <2>5. HeaderInv'
    BY <1>3, <1>5, <1>6, <2>1, <2>3 DEF HeaderInv
  <2>6. RecoverInv'
    BY Zenon, <2>1 DEF RecoverInv
  <2>7. CommitInv'
    <3>1. phase' \in CommitPhase /\ phase' # "none"
      BY Zenon, <2>1
    <3>2. \A q \in Proc : pc'[q] = "commit" => q = p
      BY Zenon, <1>1, <2>1 DEF CommitInv, TypeOK
    <3> QED
      BY Zenon, <1>1, <1>8, <2>1, <2>2, <3>1, <3>2, FS_EmptySet DEF CommitInv
  <2>8. LockInv'
    BY Zenon, <1>3, <2>1, ProcAssumption DEF LockInv, TypeOK, end_op
  <2>9. PinInv'
    <3>1. PinnedSlots = 1 .. Len(lh) /\ PinnedSlots' = 1 .. Len(lh)
      BY <1>1, <1>3, <1>6, <2>1, <2>3 DEF PinnedSlots
    <3> QED
      BY Zenon, <1>3, <3>1 DEF PinInv
  <2>10. CopyInv'
    <3>1. WrittenSlots' = {} /\ InstalledSlots' = {} /\ phase' # "rinstall"
      BY <2>1 DEF WrittenSlots, InstalledSlots
    <3> QED
      BY Zenon, <3>1 DEF CopyInv
  <2> QED
    BY Zenon, <1>4, <2>4, <2>5, <2>6, <2>7, <2>8, <2>9, <2>10
<1> QED
  BY Zenon, <1>7, <1>8

\* write_log() copies one buffer, which is still pinned, to its log block.
LEMMA WriteLogInv ==
  ASSUME Inv, NEW p \in Proc, write_log(p)
  PROVE  Inv'
<1> USE DEF Inv, Running, RecoverPhase, CommitPhase
<1> DEFINE c == lh[tail]
<1>1. /\ phase = "write_log" /\ pc[p] = "commit" /\ lock[c] = NoProc
      /\ UNCHANGED <<disk, header, lock, pins, dirty, outstanding, pc, touched, lh,
                     committing, panic>>
  BY Zenon DEF write_log
<1>2. tail \in 1 .. Len(lh) /\ Len(lh) \in Nat /\ c \in Block /\ tail \in LogSlot
  BY Zenon, <1>1, TailSlot
<1>3. buf[c] # NoBuf /\ buf[c] \in Data
  <2>1. pins[c] = 1
    BY Zenon, <1>1, <1>2 DEF PinInv, PinnedSlots
  <2>2. buf[c] # NoBuf
    BY <1>2, <2>1 DEF PinInv
  <2> QED
    BY Zenon, <1>2, <2>2 DEF TypeOK
<1>4. logdata' = [logdata EXCEPT ![tail] = buf[c]] /\ buf' = buf
  BY Zenon, <1>2, <1>3 DEF write_log, Contents, TypeOK
<1>5. \/ tail < Len(lh) /\ phase' = "write_log" /\ tail' = tail + 1
      \/ tail = Len(lh) /\ phase' = "write_head" /\ tail' = 1
  <2>1. NextTurn("write_log", "write_head")
    BY Zenon DEF write_log
  <2> QED
    BY Zenon, <1>2, <2>1, NextTurnCases
<1>6. TypeOK'
  <2>1. logdata' \in [LogSlot -> Data]
    BY Zenon, <1>2, <1>3, <1>4 DEF TypeOK
  <2>2. tail' \in Nat \ {0} /\ phase' \in CommitPhase
    BY <1>2, <1>5
  <2> QED
    BY Zenon, <1>1, <1>4, <2>1, <2>2 DEF TypeOK
<1>7. HeaderInv'
  BY <1>1, <1>2, <1>5 DEF HeaderInv
<1>8. RecoverInv' /\ CommitInv'
  BY Zenon, <1>1, <1>5 DEF RecoverInv, CommitInv, Active
<1>9. LockInv' /\ CacheIsCopy'
  BY Zenon, <1>1, <1>4 DEF LockInv, CacheIsCopy
<1>10. PinInv'
  <2>1. PinnedSlots' = PinnedSlots
    BY Zenon, <1>1, <1>5 DEF PinnedSlots
  <2> QED
    BY Zenon, <1>1, <1>4, <2>1 DEF PinInv
<1>11. CopyInv'
  <2>1. WrittenSlots' = 1 .. tail /\ InstalledSlots' = {} /\ phase' # "rinstall"
    BY <1>1, <1>2, <1>5 DEF WrittenSlots, InstalledSlots
  <2>2. \A i \in 1 .. (tail - 1) : logdata'[i] = buf[lh[i]]
    <3>1. \A i \in 1 .. (tail - 1) : i \in LogSlot /\ i # tail
      BY <1>2, LhSlot
    <3>2. \A i \in 1 .. (tail - 1) : logdata[i] = buf[lh[i]]
      BY Zenon, <1>1 DEF CopyInv, WrittenSlots
    <3> QED
      BY Zenon, <1>4, <3>1, <3>2 DEF TypeOK
  <2>3. logdata'[tail] = buf[lh[tail]]
    BY Zenon, <1>2, <1>4 DEF TypeOK
  <2>4. \A i \in 1 .. tail : i \in 1 .. (tail - 1) \/ i = tail
    BY <1>2
  <2>5. \A i \in 1 .. tail : logdata'[i] = buf[lh[i]]
    BY Zenon, <2>2, <2>3, <2>4
  <2>6. buf' = buf /\ lh' = lh
    BY Zenon, <1>1, <1>4
  <2> QED
    BY Zenon, <2>1, <2>5, <2>6 DEF CopyInv
<1> QED
  BY Zenon, <1>6, <1>7, <1>8, <1>9, <1>10, <1>11

\* write_head() makes the header on disk equal to the one in memory.
LEMMA WriteHeadInv ==
  ASSUME Inv, NEW p \in Proc, write_head(p)
  PROVE  Inv'
<1> USE DEF Inv, Running, RecoverPhase, CommitPhase
<1>1. /\ phase = "write_head" /\ phase' = "install" /\ header' = lh
      /\ UNCHANGED <<disk, logdata, buf, lock, pins, dirty, outstanding, pc, touched, lh,
                     committing, tail, panic>>
  BY Zenon DEF write_head
<1>2. tail = 1 /\ lh \in Seq(Block)
  BY Zenon, <1>1 DEF HeaderInv, TypeOK
<1>3. Len(lh) \in Nat /\ Len(lh) >= 1
  BY <1>1, <1>2 DEF HeaderInv
<1>4. TypeOK'
  BY Zenon, <1>1, <1>2 DEF TypeOK
<1>5. HeaderInv'
  BY Zenon, <1>1, <1>2, <1>3 DEF HeaderInv
<1>6. RecoverInv' /\ CommitInv'
  BY Zenon, <1>1 DEF RecoverInv, CommitInv, Active
<1>7. LockInv' /\ CacheIsCopy'
  BY Zenon, <1>1 DEF LockInv, CacheIsCopy
<1>8. PinInv'
  BY Zenon, <1>1, <1>2 DEF PinInv, PinnedSlots
<1>9. CopyInv'
  BY <1>1, <1>2, <1>3 DEF CopyInv, WrittenSlots, InstalledSlots
<1> QED
  BY <1>4, <1>5, <1>6, <1>7, <1>8, <1>9

\* install_trans() copies one log block home and unpins its buffer.
LEMMA InstallTransInv ==
  ASSUME Inv, NEW p \in Proc, install_trans(p)
  PROVE  Inv'
<1> USE DEF Inv, Running, RecoverPhase, CommitPhase
<1> DEFINE c == lh[tail]
<1>1. /\ phase = "install" /\ lock[c] = NoProc
      /\ buf' = [buf EXCEPT ![c] = logdata[tail]]
      /\ disk' = [disk EXCEPT ![c] = logdata[tail]]
      /\ pins' = [pins EXCEPT ![c] = pins[c] - 1]
      /\ UNCHANGED <<logdata, header, lock, dirty, outstanding, pc, touched, lh,
                     committing, panic>>
  BY Zenon DEF install_trans
<1>2. tail \in 1 .. Len(lh) /\ Len(lh) \in Nat /\ c \in Block /\ logdata[tail] \in Data
  BY Zenon, <1>1, TailSlot
<1>3. \A i \in 1 .. Len(lh) : lh[i] \in Block /\ (i # tail => lh[i] # c)
  BY Zenon, <1>2, LhSlot DEF HeaderInv, HeaderShape
<1>4. \/ tail < Len(lh) /\ phase' = "install" /\ tail' = tail + 1
      \/ tail = Len(lh) /\ phase' = "erase" /\ tail' = 1
  <2>1. NextTurn("install", "erase")
    BY Zenon DEF install_trans
  <2> QED
    BY Zenon, <1>2, <2>1, NextTurnCases
<1>5. pins[c] = 1
  <2>1. tail \in PinnedSlots
    BY <1>1, <1>2 DEF PinnedSlots
  <2>2. \A b \in Block : pins[b] = IF \E i \in PinnedSlots : lh[i] = b THEN 1 ELSE 0
    BY Zenon DEF PinInv
  <2> QED
    BY Zenon, <1>2, <2>1, <2>2
<1>6. TypeOK'
  <2>1. buf' \in [Block -> Data \cup {NoBuf}] /\ disk' \in [Block -> Data]
    BY Zenon, <1>1, <1>2 DEF TypeOK
  <2>2. pins' \in [Block -> Nat]
    <3>1. pins \in [Block -> Nat]
      BY Zenon DEF TypeOK
    <3> QED
      BY <1>1, <1>2, <1>5, <3>1
  <2>3. tail' \in Nat \ {0} /\ phase' \in CommitPhase
    BY <1>2, <1>4
  <2> QED
    BY Zenon, <1>1, <2>1, <2>2, <2>3 DEF TypeOK
<1>7. HeaderInv'
  BY <1>1, <1>2, <1>4 DEF HeaderInv
<1>8. RecoverInv' /\ CommitInv'
  BY Zenon, <1>1, <1>4 DEF RecoverInv, CommitInv, Active
<1>9. LockInv'
  BY ZenonT(30), <1>1, <1>2, DataAssumption DEF LockInv, TypeOK
<1>10. CacheIsCopy'
  <2>1. c \in Logged(lh)
    BY Zenon, <1>2 DEF Logged
  <2> QED
    BY Zenon, <1>1, <2>1 DEF CacheIsCopy, TypeOK
<1>11. PinInv'
  <2>1. PinnedSlots = tail .. Len(lh) /\ PinnedSlots' = (tail + 1) .. Len(lh)
    <3>1. PinnedSlots = tail .. Len(lh)
      BY Zenon, <1>1 DEF PinnedSlots
    <3>2. PinnedSlots' = (tail + 1) .. Len(lh)
      BY <1>1, <1>2, <1>4 DEF PinnedSlots
    <3> QED
      BY Zenon, <3>1, <3>2
  <2>2. \A b \in Block : (\E i \in PinnedSlots' : lh[i] = b)
                         <=> (b # c /\ \E i \in PinnedSlots : lh[i] = b)
    BY <1>2, <1>3, <2>1
  <2>3. pins'[c] = 0 /\ \A b \in Block : b # c => pins'[b] = pins[b] /\ buf'[b] = buf[b]
    <3>1. pins \in [Block -> Nat] /\ DOMAIN buf = Block
      BY Zenon DEF TypeOK
    <3> QED
      BY <1>1, <1>2, <1>5, <3>1
  <2>4. ASSUME NEW b \in Block
        PROVE  /\ pins'[b] = IF \E i \in PinnedSlots' : lh[i] = b THEN 1 ELSE 0
               /\ pins'[b] # 0 => buf'[b] # NoBuf
    <3>1. /\ pins[b] = IF \E i \in PinnedSlots : lh[i] = b THEN 1 ELSE 0
          /\ pins[b] # 0 => buf[b] # NoBuf
      BY Zenon DEF PinInv
    <3>2. CASE b = c
      BY Zenon, <2>2, <2>3, <3>2
    <3>3. CASE b # c
      BY Zenon, <2>2, <2>3, <3>1, <3>3
    <3> QED
      BY Zenon, <3>2, <3>3
  <2>5. lh' = lh
    BY Zenon, <1>1
  <2> QED
    BY Zenon, <2>4, <2>5 DEF PinInv
<1>12. CopyInv'
  <2>1. /\ WrittenSlots = tail .. Len(lh) /\ WrittenSlots' = (tail + 1) .. Len(lh)
        /\ InstalledSlots = 1 .. (tail - 1) /\ InstalledSlots' = 1 .. tail
        /\ phase' # "rinstall"
    <3>1. /\ WrittenSlots = tail .. Len(lh) /\ InstalledSlots = 1 .. (tail - 1)
          /\ phase' # "rinstall"
      BY Zenon, <1>1, <1>4 DEF WrittenSlots, InstalledSlots
    <3>2. WrittenSlots' = (tail + 1) .. Len(lh)
      BY <1>1, <1>2, <1>4 DEF WrittenSlots
    <3>3. InstalledSlots' = 1 .. tail
      BY <1>1, <1>2, <1>4 DEF InstalledSlots
    <3> QED
      BY Zenon, <3>1, <3>2, <3>3
  <2>6. \A i \in 1 .. Len(lh) : i # tail => buf'[lh[i]] = buf[lh[i]] /\ disk'[lh[i]] = disk[lh[i]]
    <3>1. DOMAIN buf = Block /\ DOMAIN disk = Block
      BY Zenon DEF TypeOK
    <3>2. \A b \in Block : b # c => buf'[b] = buf[b] /\ disk'[b] = disk[b]
      BY Zenon, <1>1, <3>1
    <3> QED
      BY Zenon, <1>3, <3>2
  <2>2. \A i \in (tail + 1) .. Len(lh) : logdata[i] = buf'[lh[i]]
    BY <1>2, <2>1, <2>6 DEF CopyInv
  <2>3. \A i \in 1 .. (tail - 1) :
          disk'[lh[i]] = logdata[i] /\ buf'[lh[i]] \in {NoBuf, logdata[i]}
    BY <1>2, <2>1, <2>6 DEF CopyInv
  <2>4. disk'[c] = logdata[tail] /\ buf'[c] = logdata[tail]
    BY Zenon, <1>1, <1>2 DEF TypeOK
  <2>5. \A i \in 1 .. tail :
          disk'[lh[i]] = logdata[i] /\ buf'[lh[i]] \in {NoBuf, logdata[i]}
    <3>1. \A i \in 1 .. tail : i \in 1 .. (tail - 1) \/ i = tail
      BY <1>2
    <3> QED
      BY Zenon, <2>3, <2>4, <3>1
  <2> QED
    BY ZenonT(30), <1>1, <2>1, <2>2, <2>5 DEF CopyInv
<1> QED
  BY Zenon, <1>6, <1>7, <1>8, <1>9, <1>10, <1>11, <1>12

\* The second write_head() empties both headers, with everything installed.
LEMMA EraseInv ==
  ASSUME Inv, NEW p \in Proc, erase(p)
  PROVE  Inv'
<1> USE DEF Inv, Running, RecoverPhase, CommitPhase
<1>1. /\ phase = "erase" /\ phase' = "done" /\ lh' = << >> /\ header' = << >>
      /\ UNCHANGED <<disk, logdata, buf, lock, pins, dirty, outstanding, pc, touched,
                     committing, tail, panic>>
  BY Zenon DEF erase
<1>2. TypeOK'
  <2>1. << >> \in Seq(Block)
    OBVIOUS
  <2> QED
    BY Zenon, <1>1, <2>1 DEF TypeOK
<1>3. HeaderInv'
  <2>1. HeaderShape(<< >>)
    BY SizeAssumption DEF HeaderShape
  <2> QED
    BY Zenon, <1>1, <2>1 DEF HeaderInv
<1>4. RecoverInv' /\ CommitInv'
  BY Zenon, <1>1 DEF RecoverInv, CommitInv, Active
<1>5. LockInv'
  BY Zenon, <1>1 DEF LockInv
<1>6. CacheIsCopy'
  <2>1. \A i \in 1 .. Len(lh) : buf[lh[i]] \in {NoBuf, disk[lh[i]]}
    BY Zenon, <1>1 DEF CopyInv, InstalledSlots
  <2>2. \A b \in Logged(lh) : buf[b] \in {NoBuf, disk[b]}
    BY Zenon, <2>1 DEF Logged
  <2> QED
    BY Zenon, <1>1, <2>2 DEF CacheIsCopy
<1>7. PinInv'
  BY Zenon, <1>1 DEF PinInv, PinnedSlots
<1>8. CopyInv'
  BY Zenon, <1>1 DEF CopyInv, WrittenSlots, InstalledSlots
<1> QED
  BY <1>2, <1>3, <1>4, <1>5, <1>6, <1>7, <1>8

\* The end of the commit leaves an empty log and no call open.
LEMMA FinishInv ==
  ASSUME Inv, NEW p \in Proc, finish(p)
  PROVE  Inv'
<1> USE DEF Inv, Running, RecoverPhase, CommitPhase
<1>1. /\ phase = "done" /\ phase' = "none" /\ ~committing' /\ pc[p] = "commit"
      /\ pc' = WakeAllThen(p, "idle") /\ lh = << >>
      /\ UNCHANGED <<disk, logdata, header, buf, lock, pins, dirty, outstanding, touched,
                     lh, tail, panic>>
  BY Zenon DEF finish, HeaderInv
<1>2. \A q \in Proc : /\ pc'[q] \in {"idle", "woken", "op", "commit"}
                      /\ pc'[q] = "op" <=> pc[q] = "op"
                      /\ pc'[q] # "commit"
                      /\ pc[q] = "idle" => pc'[q] = "idle"
  BY Zenon, <1>1 DEF WakeAllThen, TypeOK, CommitInv
<1>3. TypeOK'
  <2>1. pc' \in [Proc -> {"idle", "asleep", "woken", "op", "commit"}]
    BY Zenon, <1>1 DEF WakeAllThen, TypeOK
  <2>2. committing' \in BOOLEAN
    BY Zenon DEF finish
  <2> QED
    BY Zenon, <1>1, <2>1, <2>2 DEF TypeOK
<1>4. HeaderInv' /\ RecoverInv'
  BY Zenon, <1>1 DEF HeaderInv, RecoverInv
<1>5. CommitInv'
  <2>1. Active' = Active
    BY Zenon, <1>2 DEF Active
  <2> QED
    BY Zenon, <1>1, <1>2, <2>1 DEF CommitInv
<1>6. LockInv' /\ CacheIsCopy'
  <2>1. LockInv'
    BY ZenonT(30), <1>1, <1>2, ProcAssumption DEF LockInv, TypeOK
  <2>2. CacheIsCopy'
    BY Zenon, <1>1 DEF CacheIsCopy
  <2> QED
    BY <2>1, <2>2
<1>7. PinInv' /\ CopyInv'
  <2>1. PinnedSlots = {} /\ PinnedSlots' = {}
    BY <1>1 DEF PinnedSlots
  <2> QED
    BY Zenon, <1>1, <2>1 DEF PinInv, CopyInv, WrittenSlots, InstalledSlots
<1> QED
  BY Zenon, <1>3, <1>4, <1>5, <1>6, <1>7

\* bget() recycles only a buffer that is neither locked nor pinned.
LEMMA RecycleInv ==
  ASSUME Inv, NEW b \in Block, recycle(b)
  PROVE  Inv'
<1>1. /\ lock[b] = NoProc /\ pins[b] = 0 /\ buf' = [buf EXCEPT ![b] = NoBuf]
      /\ UNCHANGED <<disk, logdata, header, lock, pins, dirty, outstanding, pc, touched,
                     lh, committing, phase, tail, panic>>
  BY Zenon DEF recycle, diskVars, opVars, logVars
<1>2. buf \in [Block -> Data \cup {NoBuf}]
  BY Zenon DEF Inv, TypeOK
<1>3. buf'[b] = NoBuf /\ \A a \in Block : a # b => buf'[a] = buf[a]
  BY Zenon, <1>1, <1>2
<1>4. TypeOK'
  <2>1. buf' \in [Block -> Data \cup {NoBuf}]
    BY Zenon, <1>1, <1>2
  <2> QED
    BY Zenon, <1>1, <2>1 DEF Inv, TypeOK
<1>5. HeaderInv'
  BY Zenon, <1>1 DEF Inv, HeaderInv
<1>6. RecoverInv'
  BY Zenon, <1>1, <1>3 DEF Inv, RecoverInv
<1>7. CommitInv'
  BY Zenon, <1>1 DEF Inv, CommitInv, Active
<1>8. LockInv'
  BY Zenon, <1>1, <1>3 DEF Inv, LockInv
<1>9. CacheIsCopy'
  BY Zenon, <1>1, <1>3 DEF Inv, CacheIsCopy
<1>10. PinnedSlots' = PinnedSlots /\ PinInv'
  <2>1. PinnedSlots' = PinnedSlots
    BY Zenon, <1>1 DEF PinnedSlots
  <2> QED
    BY <1>1, <1>3, <2>1 DEF Inv, PinInv
<1>11. CopyInv'
  <2>1. Len(lh) \in Nat /\ \A i \in 1 .. Len(lh) : lh[i] \in Block
    BY Zenon, LhSlot DEF Inv
  <2>2. /\ tail \in Nat \ {0}
        /\ phase \in {"write_log", "write_head", "install", "rinstall"} => tail <= Len(lh)
    BY Zenon DEF Inv, TypeOK, HeaderInv
  <2>3. WrittenSlots \subseteq PinnedSlots /\ PinnedSlots \subseteq 1 .. Len(lh)
    BY <2>1, <2>2 DEF WrittenSlots, PinnedSlots
  <2>4. \A i \in WrittenSlots : lh[i] \in Block /\ lh[i] # b
    <3>1. \A i \in PinnedSlots : lh[i] # b
      BY <1>1, <2>1, <2>3 DEF Inv, PinInv
    <3> QED
      BY Zenon, <2>1, <2>3, <3>1
  <2>5. InstalledSlots \subseteq 1 .. Len(lh)
    BY <2>1, <2>2 DEF InstalledSlots
  <2>6. WrittenSlots' = WrittenSlots /\ InstalledSlots' = InstalledSlots
    BY Zenon, <1>1 DEF WrittenSlots, InstalledSlots
  <2>7. \A i \in WrittenSlots : logdata[i] = buf'[lh[i]]
    BY <1>3, <2>4 DEF Inv, CopyInv
  <2>8. \A i \in InstalledSlots :
          disk[lh[i]] = logdata[i] /\ buf'[lh[i]] \in {NoBuf, logdata[i]}
    BY Zenon, <1>3, <2>1, <2>5 DEF Inv, CopyInv
  <2>9. phase = "rinstall" => \A i \in tail .. Len(lh) : buf'[lh[i]] = NoBuf
    BY <1>3, <2>1, <2>2 DEF Inv, CopyInv
  <2> QED
    BY Zenon, <1>1, <2>6, <2>7, <2>8, <2>9 DEF CopyInv
<1> QED
  BY Zenon, <1>4, <1>5, <1>6, <1>7, <1>8, <1>9, <1>10, <1>11 DEF Inv

\* A crash keeps the disk and clears the memory.
LEMMA CrashInv ==
  ASSUME Inv, Crash
  PROVE  Inv'
<1> USE DEF Inv, Crash, RecoverPhase, CommitPhase
<1>1. TypeOK'
  <2>1. << >> \in Seq(Block)
    OBVIOUS
  <2>2. pc' \in [Proc -> {"idle", "asleep", "woken", "op", "commit"}]
    BY Zenon
  <2>3. committing' \in BOOLEAN
    BY Zenon
  <2>5. outstanding' \in Nat /\ tail' \in Nat \ {0}
    OBVIOUS
  <2>4. /\ buf' \in [Block -> Data \cup {NoBuf}] /\ lock' \in [Block -> Proc \cup {NoProc}]
        /\ pins' \in [Block -> Nat] /\ touched' \in [Proc -> SUBSET Block]
    BY Zenon
  <2> QED
    BY Zenon, <2>1, <2>2, <2>3, <2>4, <2>5 DEF TypeOK
<1>2. HeaderInv'
  <2>1. HeaderShape(<< >>)
    BY SizeAssumption DEF HeaderShape
  <2> QED
    BY Zenon, <2>1 DEF HeaderInv
<1>3. RecoverInv' /\ LockInv' /\ CacheIsCopy'
  BY Zenon DEF RecoverInv, LockInv, CacheIsCopy
<1>4. CommitInv'
  <2>1. Active' = {}
    BY Zenon DEF Active
  <2> QED
    BY Zenon, <2>1, FS_EmptySet DEF CommitInv
<1>5. PinInv'
  BY Zenon DEF PinInv, PinnedSlots
<1>6. CopyInv'
  BY Zenon DEF CopyInv, WrittenSlots, InstalledSlots
<1> QED
  BY Zenon, <1>1, <1>2, <1>3, <1>4, <1>5, <1>6

\* read_head() loads the header that survived.
LEMMA ReadHeadInv ==
  ASSUME Inv, read_head
  PROVE  Inv'
<1> USE DEF Inv, RecoverPhase, CommitPhase
<1>1. /\ phase = "read_head" /\ lh' = header
      /\ phase' = IF Len(header) > 0 THEN "rinstall" ELSE "rerase"
      /\ UNCHANGED <<disk, logdata, header, buf, lock, pins, dirty, outstanding, pc,
                     touched, committing, tail, panic>>
  BY Zenon DEF read_head
<1>2. phase' \in {"rinstall", "rerase"} /\ tail = 1 /\ header \in Seq(Block)
  BY Zenon, <1>1 DEF HeaderInv, TypeOK
<1>3. Len(header) \in Nat
  BY <1>2
<1>4. \A b \in Block : buf[b] = NoBuf
  BY Zenon, <1>1 DEF RecoverInv
<1>5. TypeOK'
  BY Zenon, <1>1, <1>2 DEF TypeOK
<1>6. HeaderInv'
  BY <1>1, <1>2, <1>3 DEF HeaderInv
<1>7. RecoverInv' /\ LockInv'
  BY Zenon, <1>1, <1>2 DEF RecoverInv, LockInv
<1>8. CommitInv'
  BY Zenon, <1>1, <1>2 DEF CommitInv, Active
<1>9. CacheIsCopy'
  BY Zenon, <1>1, <1>4 DEF CacheIsCopy
<1>10. PinInv'
  BY Zenon, <1>1, <1>2 DEF PinInv, PinnedSlots
<1>11. CopyInv'
  <2>1. \A i \in 1 .. Len(header) : header[i] \in Block
    BY <1>2
  <2>2. WrittenSlots' = {} /\ InstalledSlots' = {}
    BY <1>1, <1>2, <1>3 DEF WrittenSlots, InstalledSlots
  <2> QED
    BY Zenon, <1>1, <1>2, <1>4, <2>1, <2>2 DEF CopyInv
<1> QED
  BY Zenon, <1>5, <1>6, <1>7, <1>8, <1>9, <1>10, <1>11

\* Recovery copies one log block home, without any pin.
LEMMA RecoverInstallInv ==
  ASSUME Inv, recover_install
  PROVE  Inv'
<1> USE DEF Inv, RecoverPhase, CommitPhase
<1> DEFINE c == lh[tail]
<1>1. /\ phase = "rinstall"
      /\ buf' = [buf EXCEPT ![c] = logdata[tail]]
      /\ disk' = [disk EXCEPT ![c] = logdata[tail]]
      /\ UNCHANGED <<logdata, header, lock, pins, dirty, outstanding, pc, touched, lh,
                     committing, panic>>
  BY Zenon DEF recover_install
<1>2. tail \in 1 .. Len(lh) /\ Len(lh) \in Nat /\ c \in Block /\ logdata[tail] \in Data
  BY Zenon, <1>1, TailSlot
<1>3. \A i \in 1 .. Len(lh) : lh[i] \in Block /\ (i # tail => lh[i] # c)
  BY Zenon, <1>2, LhSlot DEF HeaderInv, HeaderShape
<1>4. \/ tail < Len(lh) /\ phase' = "rinstall" /\ tail' = tail + 1
      \/ tail = Len(lh) /\ phase' = "rerase" /\ tail' = 1
  <2>1. NextTurn("rinstall", "rerase")
    BY Zenon DEF recover_install
  <2> QED
    BY Zenon, <1>2, <2>1, NextTurnCases
<1>5. TypeOK'
  <2>1. buf' \in [Block -> Data \cup {NoBuf}] /\ disk' \in [Block -> Data]
    BY Zenon, <1>1, <1>2 DEF TypeOK
  <2>2. tail' \in Nat \ {0} /\ phase' \in RecoverPhase
    BY <1>2, <1>4
  <2> QED
    BY Zenon, <1>1, <2>1, <2>2 DEF TypeOK
<1>6. HeaderInv'
  BY <1>1, <1>2, <1>4 DEF HeaderInv
<1>7. RecoverInv' /\ CommitInv'
  BY Zenon, <1>1, <1>4 DEF RecoverInv, CommitInv, Active
<1>8. LockInv'
  BY Zenon, <1>1 DEF LockInv, RecoverInv
<1>9. CacheIsCopy'
  <2>1. c \in Logged(lh)
    BY Zenon, <1>2 DEF Logged
  <2> QED
    BY Zenon, <1>1, <2>1 DEF CacheIsCopy, TypeOK
<1>10. PinInv'
  <2>1. PinnedSlots = {} /\ PinnedSlots' = {}
    BY Zenon, <1>1, <1>4 DEF PinnedSlots
  <2> QED
    BY Zenon, <1>1, <2>1 DEF PinInv
<1>11. CopyInv'
  <2>1. /\ WrittenSlots' = {}
        /\ InstalledSlots = 1 .. (tail - 1) /\ InstalledSlots' = 1 .. tail
    BY <1>1, <1>2, <1>4 DEF WrittenSlots, InstalledSlots
  <2>2. \A i \in 1 .. Len(lh) : i # tail => buf'[lh[i]] = buf[lh[i]] /\ disk'[lh[i]] = disk[lh[i]]
    BY Zenon, <1>1, <1>3 DEF TypeOK
  <2>3. \A i \in 1 .. (tail - 1) :
          disk'[lh[i]] = logdata[i] /\ buf'[lh[i]] \in {NoBuf, logdata[i]}
    <3>1. \A i \in 1 .. (tail - 1) : i \in 1 .. Len(lh) /\ i # tail
      BY <1>2
    <3>2. \A i \in InstalledSlots :
            disk[lh[i]] = logdata[i] /\ buf[lh[i]] \in {NoBuf, logdata[i]}
      BY Zenon DEF CopyInv
    <3> QED
      BY Zenon, <2>1, <2>2, <3>1, <3>2
  <2>4. disk'[c] = logdata[tail] /\ buf'[c] = logdata[tail]
    BY Zenon, <1>1, <1>2 DEF TypeOK
  <2>5. \A i \in 1 .. tail :
          disk'[lh[i]] = logdata[i] /\ buf'[lh[i]] \in {NoBuf, logdata[i]}
    <3>1. \A i \in 1 .. tail : i \in 1 .. (tail - 1) \/ i = tail
      BY <1>2
    <3> QED
      BY Zenon, <2>3, <2>4, <3>1
  <2>6. phase' = "rinstall" => \A i \in tail' .. Len(lh) : buf'[lh[i]] = NoBuf
    BY <1>1, <1>2, <1>4, <2>2 DEF CopyInv
  <2> QED
    BY <1>1, <2>1, <2>5, <2>6 DEF CopyInv
<1> QED
  BY Zenon, <1>5, <1>6, <1>7, <1>8, <1>9, <1>10, <1>11

\* Recovery ends by emptying the header.
LEMMA RecoverEraseInv ==
  ASSUME Inv, recover_erase
  PROVE  Inv'
<1> USE DEF Inv, RecoverPhase, CommitPhase
<1>1. /\ phase = "rerase" /\ phase' = "none" /\ lh' = << >> /\ header' = << >>
      /\ UNCHANGED <<disk, logdata, buf, lock, pins, dirty, outstanding, pc, touched,
                     committing, tail, panic>>
  BY Zenon DEF recover_erase
<1>2. TypeOK'
  <2>1. << >> \in Seq(Block)
    OBVIOUS
  <2> QED
    BY Zenon, <1>1, <2>1 DEF TypeOK
<1>3. HeaderInv'
  <2>1. HeaderShape(<< >>)
    BY SizeAssumption DEF HeaderShape
  <2> QED
    BY Zenon, <1>1, <2>1 DEF HeaderInv
<1>4. RecoverInv' /\ LockInv'
  BY Zenon, <1>1 DEF RecoverInv, LockInv
<1>5. CommitInv'
  BY Zenon, <1>1 DEF CommitInv, Active
<1>6. CacheIsCopy'
  <2>1. \A i \in 1 .. Len(lh) : buf[lh[i]] \in {NoBuf, disk[lh[i]]}
    BY Zenon, <1>1 DEF CopyInv, InstalledSlots
  <2>2. \A b \in Logged(lh) : buf[b] \in {NoBuf, disk[b]}
    BY Zenon, <2>1 DEF Logged
  <2> QED
    BY Zenon, <1>1, <2>2 DEF CacheIsCopy
<1>7. PinInv'
  <2>1. PinnedSlots = {} /\ PinnedSlots' = {}
    BY <1>1 DEF PinnedSlots
  <2> QED
    BY Zenon, <1>1, <2>1 DEF PinInv
<1>8. CopyInv'
  BY Zenon, <1>1 DEF CopyInv, WrittenSlots, InstalledSlots
<1> QED
  BY <1>2, <1>3, <1>4, <1>5, <1>6, <1>7, <1>8

\* Every step of the log, the cache and the crash preserves the invariant.
LEMMA StepInv == Inv /\ [Next]_vars => Inv'
<1> SUFFICES ASSUME Inv, [Next]_vars PROVE Inv'
  OBVIOUS
<1>1. CASE UNCHANGED vars
  <2>1. TypeOK'
    BY Zenon, <1>1 DEF Inv, TypeOK, vars
  <2>2. HeaderInv' /\ RecoverInv' /\ CacheIsCopy' /\ LockInv'
    BY Zenon, <1>1 DEF Inv, HeaderInv, RecoverInv, CacheIsCopy, LockInv, vars
  <2>3. CommitInv'
    BY Zenon, <1>1 DEF Inv, CommitInv, Active, vars
  <2>4. PinInv' /\ CopyInv'
    BY Zenon, <1>1 DEF Inv, PinInv, PinnedSlots, CopyInv, WrittenSlots, InstalledSlots, vars
  <2> QED
    BY Zenon, <2>1, <2>2, <2>3, <2>4 DEF Inv
<1>2. CASE Next
  BY <1>2, BreadInv, ModifyInv, BrelseInv, LogWriteInv, BeginOpInv, EndOpInv, WriteLogInv,
     WriteHeadInv, InstallTransInv, EraseInv, FinishInv, RecycleInv, CrashInv, ReadHeadInv,
     RecoverInstallInv, RecoverEraseInv DEF Next, commit, recover_from_log
<1> QED
  BY <1>1, <1>2

\* The inductive invariant holds in every reachable state, whatever the number
\* of processes and blocks and wherever crashes fall.
THEOREM Invariance == Spec => []Inv
<1>1. Init => Inv
  BY InitInv
<1>2. Inv /\ [Next]_vars => Inv'
  BY StepInv
<1> QED
  BY <1>1, <1>2, PTL DEF Spec

\* Type correctness of the log's state, in memory and on disk.
THEOREM TypeCorrect == Spec => []TypeOK
<1>1. Inv => TypeOK
  BY DEF Inv
<1> QED
  BY <1>1, Invariance, PTL

\* A logged block keeps its buffer until it is installed.
THEOREM LoggedBlocksCached == Spec => []LoggedStaysCached
<1>1. ASSUME Inv PROVE LoggedStaysCached
  <2> SUFFICES ASSUME phase \in {"none", "write_log", "write_head"}, NEW b \in Logged(lh)
               PROVE  buf[b] # NoBuf /\ pins[b] = 1
    BY Zenon DEF LoggedStaysCached
  <2>1. PICK i \in 1 .. Len(lh) : lh[i] = b
    BY Zenon DEF Logged
  <2>2. b \in Block
    BY Zenon, <1>1, <2>1, LhSlot DEF Inv
  <2>3. pins[b] = 1
    BY Zenon, <1>1, <2>1, <2>2 DEF Inv, PinInv, PinnedSlots
  <2> QED
    BY <1>1, <2>2, <2>3 DEF Inv, PinInv
<1> QED
  BY <1>1, Invariance, PTL

\* Outside the log, a buffer nobody is modifying is a copy of its home block.
THEOREM CacheCoherent == Spec => []CacheIsCopy
<1>1. Inv => CacheIsCopy
  BY DEF Inv
<1> QED
  BY <1>1, Invariance, PTL

\* With no call open and no commit running, every update is at home on disk.
THEOREM QuietDurable == Spec => []QuietIsDurable
<1>1. ASSUME Inv PROVE QuietIsDurable
  <2> SUFFICES ASSUME phase = "none", outstanding = 0
               PROVE  /\ lh = << >> /\ header = << >>
                      /\ \A b \in Block : pins[b] = 0 /\ Contents(b) = disk[b]
    BY Zenon DEF QuietIsDurable
  <2>1. Active = {}
    BY Zenon, <1>1, ActiveCard DEF Inv, CommitInv
  <2>2. lh = << >> /\ header = << >>
    BY Zenon, <1>1, <2>1 DEF Inv, CommitInv, HeaderInv
  <2>3. \A b \in Block : pins[b] = 0
    BY <1>1, <2>2 DEF Inv, PinInv, PinnedSlots
  <2>4. dirty = {}
    BY Zenon, <1>1, <2>1, ProcAssumption DEF Inv, LockInv, Active, TypeOK
  <2>5. \A b \in Block : buf[b] \in {NoBuf, disk[b]}
    BY <1>1, <2>2, <2>4 DEF Inv, CacheIsCopy, Logged
  <2> QED
    BY Zenon, <2>2, <2>3, <2>5 DEF Contents
<1> QED
  BY <1>1, Invariance, PTL

\* No call can be asleep in begin_op() with nobody left to wake it up.
THEOREM SleepersHaveWakers == Spec => []SleeperHasWaker
<1>1. Init => SleeperHasWaker
  BY Zenon DEF Init, SleeperHasWaker
<1>2. ASSUME Inv, SleeperHasWaker, [Next]_vars
      PROVE  SleeperHasWaker'
  <2> USE <1>2 DEF SleeperHasWaker
  <2>1. outstanding \in Nat /\ lh \in Seq(Block)
    BY Zenon DEF Inv, TypeOK
  <2>2. ASSUME NEW p \in Proc, begin_op(p) PROVE SleeperHasWaker'
    <3>1. CASE ~committing /\ outstanding = 0
      <4>1. lh = << >>
        <5>1. phase = "none"
          BY Zenon, <2>2, <3>1 DEF Inv, CommitInv, TypeOK, begin_op, Running, RecoverPhase, CommitPhase
        <5> QED
          BY Zenon, <3>1, <5>1, ActiveCard DEF Inv, CommitInv
      <4>2. ~(Len(lh) + (outstanding + 1) * MAXOPBLOCKS > LOGSIZE)
        BY <3>1, <4>1, SizeAssumption
      <4>3. outstanding' = outstanding + 1
        BY Zenon, <2>2, <3>1, <4>2 DEF begin_op
      <4> QED
        BY <2>1, <4>3
    <3>2. CASE committing \/ outstanding > 0
      <4>1. committing' = committing /\ outstanding' \in {outstanding, outstanding + 1}
        BY Zenon, <2>2 DEF begin_op, logVars
      <4> QED
        BY <2>1, <3>2, <4>1
    <3> QED
      BY <2>1, <3>1, <3>2
  <2>3. ASSUME NEW p \in Proc, end_op(p) PROVE SleeperHasWaker'
    <3>1. \/ committing' = TRUE
          \/ pc' = WakeAllThen(p, "idle")
      BY Zenon, <2>3 DEF end_op, Inv, CommitInv, Active
    <3> QED
      BY Zenon, <3>1 DEF WakeAllThen
  <2>4. ASSUME NEW p \in Proc, finish(p) PROVE SleeperHasWaker'
    BY Zenon, <2>4 DEF finish, WakeAllThen
  <2>5. ASSUME NEW p \in Proc, commit(p), ~finish(p) PROVE SleeperHasWaker'
    <3>1. UNCHANGED <<pc, outstanding, committing>>
      BY Zenon, <2>5 DEF commit, write_log, write_head, install_trans, erase
    <3> QED
      BY Zenon, <3>1
  <2>6. ASSUME NEW p \in Proc, NEW b \in Block, bread(p, b) \/ log_write(p, b) \/ brelse(p, b)
        PROVE  SleeperHasWaker'
    BY Zenon, <2>6 DEF bread, log_write, brelse
  <2>7. ASSUME NEW p \in Proc, NEW b \in Block, NEW d \in Data, modify(p, b, d)
        PROVE  SleeperHasWaker'
    BY Zenon, <2>7 DEF modify
  <2>8. ASSUME NEW b \in Block, recycle(b) PROVE SleeperHasWaker'
    BY Zenon, <2>8 DEF recycle
  <2>9. CASE recover_from_log
    BY Zenon, <2>9 DEF recover_from_log, read_head, recover_install, recover_erase
  <2>10. CASE Crash
    BY Zenon, <2>10 DEF Crash
  <2>11. CASE UNCHANGED vars
    BY Zenon, <2>11 DEF vars
  <2> QED
    BY Zenon, <2>2, <2>3, <2>4, <2>5, <2>6, <2>7, <2>8, <2>9, <2>10, <2>11 DEF Next
<1> QED
  BY <1>1, <1>2, Invariance, PTL DEF Spec

=========================================================================
