---------------------------- MODULE BioProofs ---------------------------
(***************************************************************************)
(* The buffer cache keeps its invariant, and implements the block store,   *)
(* for any number of processes, buffers and blocks.                        *)
(*                                                                         *)
(* CacheInv and the refinement are not inductive: BioInv adds where a      *)
(* process is with the buffer in its hands (PlaceInv), and when a buffer   *)
(* may differ from its block on the disk (CopyInv): only while it is dirty *)
(* and locked, or pinned by the log.  Hence bget() loses nothing when it   *)
(* recycles a buffer whose reference count is 0.                           *)
(***************************************************************************)
EXTENDS Bio, FiniteSetTheorems, TLAPS

TypeOK ==
    /\ blockno \in [Buf -> Block \cup {None}]
    /\ valid \in [Buf -> BOOLEAN]
    /\ refcnt \in [Buf -> Nat]
    /\ data \in [Buf -> Data]
    /\ lock \in [Buf -> Proc \cup {None}]
    /\ disk \in [Block -> Data]
    /\ pc \in [Proc -> {"run", "acquire", "read", "put"}]
    /\ cur \in [Proc -> Buf \cup {None}]
    /\ dirty \subseteq Buf
    /\ logged \subseteq Block \ LogBlock
    /\ panic \in BOOLEAN

\* A process has a buffer in its hands between bget() and the end of bread(),
\* and between the two halves of brelse(); a buffer that is locked or waited
\* for caches a block, and is valid once bread() has returned it.
PlaceInv ==
    /\ \A p \in Proc :
          /\ pc[p] = "run" <=> cur[p] = None
          /\ pc[p] = "read" => lock[cur[p]] = p
          /\ pc[p] \in {"acquire", "put"} => lock[cur[p]] # p
          /\ cur[p] # None => blockno[cur[p]] # None
    /\ \A b \in Buf : lock[b] # None =>
          blockno[b] # None /\ (valid[b] \/ cur[lock[b]] = b)

\* A buffer is a copy of its block unless it is dirty or pinned.
CopyInv ==
    \A b \in Buf : valid[b] =>
        /\ blockno[b] # None
        /\ b \notin dirty /\ blockno[b] \notin logged => data[b] = disk[blockno[b]]

BioInv == TypeOK /\ CacheInv /\ PlaceInv /\ CopyInv
------------------------------------------------------------------------
(* Facts about the list and the counts. *)

\* Any set of processes can be counted.
LEMMA Finite ==
  ASSUME NEW S \in SUBSET Proc
  PROVE  IsFiniteSet(S) /\ Cardinality(S) \in Nat /\ (Cardinality(S) = 0 => S = {})
BY Zenon, BioAssumption, FS_Subset, FS_CardinalityType, FS_EmptySet

\* brelse() moves a buffer to the head of the list, and loses none.
LEMMA ToHead ==
  ASSUME NEW N \in Nat, list \in Bijection(1 .. N, Buf), NEW b \in Buf
  PROVE  toHead(b) \in Bijection(1 .. N, Buf)
<1>1. /\ list \in [1 .. N -> Buf] /\ DOMAIN list = 1 .. N
      /\ \A i, j \in 1 .. N : list[i] = list[j] => i = j
      /\ \A c \in Buf : \E i \in 1 .. N : list[i] = c
  BY DEF Bijection, Injection, IsInjective, Surjection
<1> DEFINE i == CHOOSE i \in DOMAIN list : list[i] = b
           f == [k \in 1 .. N |-> IF k = 1 THEN b ELSE IF k <= i THEN list[k - 1] ELSE list[k]]
<1>2. i \in 1 .. N /\ list[i] = b
  BY <1>1
<1>3. toHead(b) = f
  BY <1>1 DEF toHead
<1> HIDE DEF i
<1>4. f \in [1 .. N -> Buf]
  <2>1. ASSUME NEW k \in 1 .. N, k # 1 PROVE k - 1 \in 1 .. N
    BY <2>1
  <2> QED
    BY <1>1, <2>1
<1>5. ASSUME NEW j \in 1 .. N, NEW k \in 1 .. N, f[j] = f[k] PROVE j = k
  <2> DEFINE from(m) == IF m = 1 THEN i ELSE IF m <= i THEN m - 1 ELSE m
  <2>1. from(j) \in 1 .. N /\ from(k) \in 1 .. N
    BY <1>2
  <2>2. f[j] = list[from(j)] /\ f[k] = list[from(k)]
    BY <1>2
  <2>3. from(j) = from(k)
    <3> HIDE DEF from, f
    <3> QED
      BY Zenon, <1>1, <1>5, <2>1, <2>2
  <2> QED
    BY <1>2, <2>3
<1>6. ASSUME NEW c \in Buf PROVE \E k \in 1 .. N : f[k] = c
  <2>1. PICK j \in 1 .. N : list[j] = c
    BY <1>1
  <2>2. CASE j = i
    <3>1. 1 \in 1 .. N /\ f[1] = c
      BY <1>2, <2>1, <2>2
    <3> QED
      BY <3>1
  <2>3. CASE j < i
    <3>1. j + 1 \in 1 .. N /\ f[j + 1] = c
      BY <1>2, <2>1, <2>3
    <3> QED
      BY <3>1
  <2>4. CASE j > i
    <3>1. f[j] = c
      BY <1>2, <2>1, <2>4
    <3> QED
      BY <3>1
  <2> QED
    BY <1>2, <2>2, <2>3, <2>4
<1> HIDE DEF f
<1>7. f \in Injection(1 .. N, Buf)
  BY Zenon, <1>4, <1>5 DEF Injection, IsInjective
<1>8. f \in Surjection(1 .. N, Buf)
  BY Zenon, <1>4, <1>6 DEF Surjection
<1> QED
  BY Zenon, <1>3, <1>7, <1>8 DEF Bijection

\* A buffer that nobody refers to is not locked, waited for, dirty or pinned.
LEMMA Unused ==
  ASSUME BioInv, NEW b \in Buf, refcnt[b] = 0
  PROVE  /\ lock[b] = None /\ b \notin dirty /\ blockno[b] \notin logged /\ Users(b) = {}
         /\ \A p \in Proc : cur[p] # b
         /\ valid[b] => data[b] = disk[blockno[b]]
<1>1. Users(b) \in SUBSET Proc /\ refcnt[b] = Cardinality(Users(b)) + Pins(b)
  BY DEF Users, BioInv, CacheInv
<1>2. Users(b) = {} /\ blockno[b] \notin logged
  BY <1>1, Finite DEF Pins
<1>3. lock[b] = None /\ \A p \in Proc : cur[p] # b
  BY <1>2, BioAssumption DEF Users, BioInv, TypeOK
<1>4. b \notin dirty
  BY <1>3 DEF BioInv, CacheInv
<1> QED
  BY <1>2, <1>3, <1>4 DEF BioInv, CopyInv

\* bget() finds at most one buffer for a block.
LEMMA Unique ==
  ASSUME BioInv, NEW b \in Buf, blockno[b] # None
  PROVE  /\ \A c \in Buf : c # b => blockno[c] # blockno[b]
         /\ blockno[b] \in Block /\ cached(blockno[b]) = {b} /\ TheBuf(blockno[b]) = b
BY DEF BioInv, TypeOK, CacheInv, cached, TheBuf

\* What the holder of b may rely on once bread() has returned.
LEMMA Holds ==
  ASSUME BioInv, NEW p \in Proc, At(p, "run"), NEW b \in Buf, lock[b] = p
  PROVE  valid[b] /\ blockno[b] \in Block /\ blockno[b] # None /\ cur[p] = None
BY BioAssumption DEF BioInv, TypeOK, PlaceInv, At

\* The counts after a step on b that changes no pin: those who use b change
\* together with the reference count.
LEMMA CountStep ==
  ASSUME BioInv, NEW b \in Buf, logged' = logged,
         \A c \in Buf : c # b => refcnt'[c] = refcnt[c] /\ Users(c)' = Users(c) /\ blockno'[c] = blockno[c],
         refcnt'[b] = Cardinality(Users(b)') + Pins(b)'
  PROVE  \A c \in Buf : refcnt'[c] = Cardinality(Users(c)') + Pins(c)'
<1>1. ASSUME NEW c \in Buf, c # b PROVE refcnt'[c] = Cardinality(Users(c)') + Pins(c)'
  <2>1. Pins(c)' = Pins(c) /\ Users(c)' = Users(c) /\ refcnt'[c] = refcnt[c]
    BY <1>1 DEF Pins
  <2>2. refcnt[c] = Cardinality(Users(c)) + Pins(c)
    BY DEF BioInv, CacheInv
  <2> QED
    BY <2>1, <2>2
<1> QED
  BY <1>1
------------------------------------------------------------------------
(* The steps of the cache, one lemma each. *)

\* bget() takes a reference to a buffer that caches the block.
LEMMA BgetHit ==
  ASSUME BioInv, NEW p \in Proc, NEW n \in Block, NEW b \in Buf,
         At(p, "run"), MayGet(p, n), bget_hit(p, n, b)
  PROVE  BioInv'
<1>1. cur[p] = None /\ blockno[b] = n /\ n # None /\ b # None /\ panic = FALSE
  BY BioAssumption DEF BioInv, TypeOK, PlaceInv, At, bget_hit, cached
<1>2. lock[b] # p
  <2>1. SUFFICES ASSUME lock[b] = p PROVE FALSE
    OBVIOUS
  <2>2. b \in Held(p)
    BY <2>1 DEF Held
  <2>3. blockno[b] < n
    BY <2>2 DEF MayGet
  <2> QED
    BY <1>1, <2>3, BioAssumption
<1>3. /\ pc' = [pc EXCEPT ![p] = "acquire"] /\ cur' = [cur EXCEPT ![p] = b]
      /\ refcnt' = [refcnt EXCEPT ![b] = @ + 1]
      /\ UNCHANGED <<list, blockno, valid, data, lock, disk, dirty, logged, panic>>
  BY DEF bget_hit, Goto
<1>4. TypeOK'
  BY <1>3 DEF BioInv, TypeOK
<1>5. /\ Users(b)' = Users(b) \cup {p} /\ p \notin Users(b)
      /\ \A c \in Buf : c # b => Users(c)' = Users(c)
  BY <1>1, <1>2, <1>3, BioAssumption DEF BioInv, TypeOK, Users
<1>6. refcnt'[b] = Cardinality(Users(b)') + Pins(b)'
  <2>1. Users(b) \in SUBSET Proc
    BY DEF Users
  <2>2. Cardinality(Users(b)') = Cardinality(Users(b)) + 1 /\ Cardinality(Users(b)) \in Nat
    BY <1>5, <2>1, Finite, FS_AddElement
  <2>3. refcnt[b] = Cardinality(Users(b)) + Pins(b) /\ refcnt'[b] = refcnt[b] + 1
    BY Zenon, <1>3 DEF BioInv, CacheInv, TypeOK
  <2>4. Pins(b)' = Pins(b) /\ Pins(b) \in Nat
    BY <1>3 DEF Pins
  <2> QED
    BY <2>2, <2>3, <2>4
<1>7. \A c \in Buf : refcnt'[c] = Cardinality(Users(c)') + Pins(c)'
  <2>1. \A c \in Buf : c # b => refcnt'[c] = refcnt[c] /\ Users(c)' = Users(c) /\ blockno'[c] = blockno[c]
    BY Zenon, <1>3, <1>5 DEF BioInv, TypeOK
  <2> QED
    BY Zenon, <1>3, <1>6, <2>1, CountStep
<1>8. CacheInv'
  BY Zenon, <1>1, <1>3, <1>7 DEF BioInv, CacheInv
<1>9. PlaceInv'
  BY <1>1, <1>2, <1>3, BioAssumption DEF BioInv, TypeOK, PlaceInv
<1>10. CopyInv'
  BY Zenon, <1>3 DEF BioInv, CopyInv
<1> QED
  BY <1>4, <1>8, <1>9, <1>10 DEF BioInv

\* bget() gives a buffer without references to a block that is not cached.
LEMMA BgetRecycle ==
  ASSUME BioInv, NEW p \in Proc, NEW n \in Block, NEW b \in Buf,
         At(p, "run"), bget_recycle(p, n, b)
  PROVE  BioInv'
<1>1. /\ cur[p] = None /\ b # None /\ n # None /\ panic = FALSE /\ refcnt[b] = 0
      /\ \A c \in Buf : blockno[c] # n
  BY BioAssumption DEF BioInv, TypeOK, PlaceInv, At, bget_recycle, cached, LRU
<1>2. /\ lock[b] = None /\ b \notin dirty /\ blockno[b] \notin logged /\ Users(b) = {}
      /\ \A q \in Proc : cur[q] # b
  BY Zenon, <1>1, Unused
<1>3. /\ pc' = [pc EXCEPT ![p] = "acquire"] /\ cur' = [cur EXCEPT ![p] = b]
      /\ refcnt' = [refcnt EXCEPT ![b] = 1] /\ blockno' = [blockno EXCEPT ![b] = n]
      /\ valid' = [valid EXCEPT ![b] = FALSE]
      /\ UNCHANGED <<list, data, lock, disk, dirty, logged, panic>>
  BY DEF bget_recycle, Goto
<1>4. TypeOK'
  BY Zenon, <1>3 DEF BioInv, TypeOK
<1>5. n \notin logged
  BY Zenon, <1>1 DEF BioInv, CacheInv
<1>6. /\ refcnt'[b] = 1 /\ blockno'[b] = n /\ ~valid'[b]
      /\ \A c \in Buf : c # b => refcnt'[c] = refcnt[c] /\ blockno'[c] = blockno[c] /\ valid'[c] = valid[c]
  BY Zenon, <1>3 DEF BioInv, TypeOK
<1>7. Users(b)' = {p} /\ \A c \in Buf : c # b => Users(c)' = Users(c)
  BY <1>1, <1>2, <1>3, BioAssumption DEF BioInv, TypeOK, Users
<1>8. \A c \in Buf : refcnt'[c] = Cardinality(Users(c)') + Pins(c)'
  <2>1. refcnt'[b] = Cardinality(Users(b)') + Pins(b)'
    BY <1>3, <1>5, <1>6, <1>7, FS_Singleton DEF Pins
  <2> QED
    BY Zenon, <1>3, <1>6, <1>7, <2>1, CountStep
<1>9. CacheInv'
  <2>1. \A c, d \in Buf : blockno'[c] = blockno'[d] /\ blockno'[c] # None => c = d
    BY <1>1, <1>6 DEF BioInv, CacheInv
  <2>2. \A m \in logged : \E c \in Buf : blockno'[c] = m /\ valid'[c]
    BY <1>2, <1>6 DEF BioInv, CacheInv
  <2>3. \A c \in dirty : valid'[c] /\ lock[c] # None
    BY Zenon, <1>2, <1>6 DEF BioInv, CacheInv, TypeOK
  <2> QED
    BY Zenon, <1>1, <1>3, <1>8, <2>1, <2>2, <2>3 DEF BioInv, CacheInv
<1>10. PlaceInv'
  <2>1. ASSUME NEW q \in Proc
        PROVE  /\ pc'[q] = "run" <=> cur'[q] = None
               /\ pc'[q] = "read" => lock'[cur'[q]] = q
               /\ pc'[q] \in {"acquire", "put"} => lock'[cur'[q]] # q
               /\ cur'[q] # None => blockno'[cur'[q]] # None
    BY <1>1, <1>2, <1>3, <1>6, BioAssumption DEF BioInv, TypeOK, PlaceInv
  <2>2. ASSUME NEW c \in Buf, lock'[c] # None
        PROVE  blockno'[c] # None /\ (valid'[c] \/ cur'[lock'[c]] = c)
    <3>1. c # b /\ lock[c] \in Proc /\ lock[c] # None
      BY Zenon, <1>2, <1>3, <2>2 DEF BioInv, TypeOK
    <3>2. cur[lock[c]] = c => lock[c] # p
      BY <1>1, BioAssumption
    <3> QED
      BY <1>3, <1>6, <3>1, <3>2 DEF BioInv, TypeOK, PlaceInv
  <2> QED
    BY <2>1, <2>2 DEF PlaceInv
<1>11. CopyInv'
  BY <1>3, <1>6 DEF BioInv, CopyInv
<1> QED
  BY <1>4, <1>9, <1>10, <1>11 DEF BioInv

\* bget() panics only when pins and processes use every buffer.
LEMMA BgetPanic ==
  ASSUME BioInv, NEW n \in Block, bget_panic(n)
  PROVE  BioInv'
<1> DEFINE A == {b \in Buf : blockno[b] \in logged}
           B == {b \in Buf : Users(b) # {}}
<1>1. IsFiniteSet(A) /\ IsFiniteSet(B)
  BY BioAssumption, FS_Subset
<1>2. Buf = A \cup B
  <2>1. ASSUME NEW b \in Buf, b \notin A PROVE b \in B
    <3>1. refcnt[b] > 0 /\ refcnt[b] = Cardinality(Users(b)) + Pins(b) /\ Pins(b) = 0
      BY Zenon, <2>1 DEF bget_panic, BioInv, CacheInv, Pins
    <3>2. Users(b) # {}
      BY <3>1, FS_EmptySet
    <3> QED
      BY <3>2
  <2> QED
    BY <2>1
<1>3. Cardinality(A) <= Cardinality(logged) /\ Cardinality(logged) \in Nat
  <2> DEFINE f == [b \in A |-> blockno[b]]
  <2>1. f \in Surjection(A, logged)
    <3>1. f \in [A -> logged]
      OBVIOUS
    <3>2. \A m \in logged : \E b \in A : f[b] = m
      BY Zenon DEF BioInv, CacheInv
    <3> QED
      BY <3>1, <3>2 DEF Surjection
  <2>2. f \in Injection(A, logged)
    <3>1. f \in [A -> logged]
      OBVIOUS
    <3>2. ASSUME NEW b \in A, NEW c \in A, f[b] = f[c] PROVE b = c
      <4>1. b \in Buf /\ c \in Buf /\ blockno[b] = blockno[c] /\ blockno[b] \in logged
        BY <3>2
      <4>2. blockno[b] # None
        BY ZenonT(30), <4>1, BioAssumption DEF BioInv, TypeOK
      <4> QED
        BY Zenon, <4>1, <4>2 DEF BioInv, CacheInv
    <3> QED
      BY <3>1, <3>2 DEF Injection, IsInjective
  <2>3. IsFiniteSet(logged) /\ Cardinality(logged) = Cardinality(A)
    <3> HIDE DEF f, A
    <3> QED
      BY <1>1, <2>1, <2>2, FS_Surjection
  <2> QED
    BY <1>1, <2>3, FS_CardinalityType
<1>4. Cardinality(B) <= Cardinality(InHand) /\ Cardinality(InHand) \in Nat
  <2> DEFINE g == [x \in InHand |-> x[2]]
  <2>1. IsFiniteSet(InHand)
    <3>1. InHand \in SUBSET (Proc \X Buf)
      BY DEF InHand
    <3> QED
      BY Zenon, <3>1, BioAssumption, FS_Product, FS_Subset
  <2>2. g \in Surjection(InHand, B)
    <3>1. ASSUME NEW x \in InHand PROVE x[2] \in B
      BY DEF InHand
    <3>2. ASSUME NEW b \in B PROVE \E x \in InHand : g[x] = b
      <4>1. PICK q \in Proc : q \in Users(b)
        BY DEF Users
      <4>2. <<q, b>> \in InHand /\ g[<<q, b>>] = b
        BY <4>1 DEF InHand
      <4> QED
        BY <4>2
    <3> QED
      BY <3>1, <3>2 DEF Surjection
  <2>3. Cardinality(B) <= Cardinality(InHand)
    <3> HIDE DEF g, B
    <3> QED
      BY <2>1, <2>2, FS_Surjection
  <2> QED
    BY <2>1, <2>3, FS_CardinalityType
<1>5. Cardinality(Buf) <= Cardinality(logged) + Cardinality(InHand)
  <2>1. /\ Cardinality(Buf) = Cardinality(A) + Cardinality(B) - Cardinality(A \cap B)
        /\ Cardinality(A) \in Nat /\ Cardinality(B) \in Nat /\ Cardinality(A \cap B) \in Nat
    <3> HIDE DEF A, B
    <3> QED
      BY Zenon, <1>1, <1>2, FS_Union, FS_Intersection, FS_CardinalityType
  <2> QED
    BY <1>3, <1>4, <2>1
<1>6. UNCHANGED <<list, bufVars, disk, pc, cur, dirty, logged>> /\ panic' = TRUE
  BY DEF bget_panic
<1>7. InHand' = InHand /\ \A c \in Buf : Users(c)' = Users(c) /\ Pins(c)' = Pins(c)
  BY Zenon, <1>6 DEF InHand, Users, Pins, bufVars
<1>8. CacheInv'
  BY Zenon, <1>5, <1>6, <1>7 DEF BioInv, CacheInv, bufVars
<1> QED
  BY Zenon, <1>6, <1>8 DEF BioInv, TypeOK, PlaceInv, CopyInv, bufVars

\* The counts are right after a step that changes neither references nor pins.
LEMMA SameCounts ==
  ASSUME BioInv, UNCHANGED <<refcnt, blockno, logged>>, \A c \in Buf : Users(c)' = Users(c)
  PROVE  \A c \in Buf : refcnt'[c] = Cardinality(Users(c)') + Pins(c)'
<1>1. \A c \in Buf : Pins(c)' = Pins(c)
  BY DEF Pins
<1> QED
  BY <1>1 DEF BioInv, CacheInv

\* A process in bget() or brelse() has a buffer in its hands.
LEMMA InHands ==
  ASSUME BioInv, NEW p \in Proc, pc[p] # "run"
  PROVE  cur[p] \in Buf /\ cur[p] # None /\ blockno[cur[p]] \in Block
BY BioAssumption DEF BioInv, TypeOK, PlaceInv

\* bget() gets the sleep-lock of its buffer.
LEMMA AcquiresleepInv ==
  ASSUME BioInv, NEW p \in Proc, acquiresleep(p)
  PROVE  BioInv'
<1>1. pc[p] = "acquire" /\ panic = FALSE
  BY Zenon DEF acquiresleep, At, BioInv, TypeOK
<1>2. PICK b \in Buf : b = cur[p] /\ blockno[b] \in Block /\ b # None
  BY Zenon, <1>1, InHands
<1>3. /\ lock[b] = None /\ lock' = [lock EXCEPT ![b] = p] /\ pc' = [pc EXCEPT ![p] = "read"]
      /\ UNCHANGED <<list, blockno, valid, refcnt, data, disk, cur, dirty, logged, panic>>
  BY Zenon, <1>2 DEF acquiresleep, Goto
<1>4. TypeOK'
  BY Zenon, <1>3 DEF BioInv, TypeOK
<1>5. \A c \in Buf : Users(c)' = Users(c)
  BY <1>2, <1>3, BioAssumption DEF BioInv, TypeOK, Users
<1>6. lock'[b] = p /\ \A c \in Buf : c # b => lock'[c] = lock[c]
  BY Zenon, <1>3 DEF BioInv, TypeOK
<1>7. CacheInv'
  <2>1. \A c \in dirty : valid'[c] /\ lock'[c] # None
    BY Zenon, <1>3, <1>6, BioAssumption DEF BioInv, TypeOK, CacheInv
  <2> QED
    BY Zenon, <1>1, <1>3, <1>5, <2>1, SameCounts DEF BioInv, CacheInv
<1>8. PlaceInv'
  <2>1. ASSUME NEW q \in Proc
        PROVE  /\ pc'[q] = "run" <=> cur'[q] = None
               /\ pc'[q] = "read" => lock'[cur'[q]] = q
               /\ pc'[q] \in {"acquire", "put"} => lock'[cur'[q]] # q
               /\ cur'[q] # None => blockno'[cur'[q]] # None
    <3>1. CASE q = p
      BY <1>2, <1>3, <1>6, <3>1, BioAssumption DEF BioInv, TypeOK
    <3>2. CASE q # p
      <4>1. pc'[q] = pc[q] /\ cur'[q] = cur[q] /\ blockno' = blockno
        BY Zenon, <1>3, <3>2 DEF BioInv, TypeOK
      <4>2. cur[q] \in Buf => lock'[cur[q]] = q <=> lock[cur[q]] = q
        BY Zenon, <1>3, <1>6, <3>2, BioAssumption
      <4>3. cur[q] \in Buf \/ cur[q] = None
        BY Zenon DEF BioInv, TypeOK
      <4> QED
        BY <4>1, <4>2, <4>3 DEF BioInv, PlaceInv, TypeOK
    <3> QED
      BY Zenon, <3>1, <3>2
  <2>2. ASSUME NEW c \in Buf, lock'[c] # None
        PROVE  blockno'[c] # None /\ (valid'[c] \/ cur'[lock'[c]] = c)
    BY <1>2, <1>3, <1>6, <2>2, BioAssumption DEF BioInv, PlaceInv
  <2> QED
    BY Zenon, <2>1, <2>2 DEF PlaceInv
<1>9. CopyInv'
  BY Zenon, <1>3 DEF BioInv, CopyInv
<1> QED
  BY <1>4, <1>7, <1>8, <1>9 DEF BioInv

\* bread() returns the buffer with the bytes of its block.
LEMMA BreadInv ==
  ASSUME BioInv, NEW p \in Proc, bread(p)
  PROVE  BioInv'
<1>1. pc[p] = "read" /\ panic = FALSE
  BY Zenon DEF bread, At, BioInv, TypeOK
<1>2. PICK b \in Buf : b = cur[p] /\ blockno[b] \in Block /\ b # None /\ lock[b] = p
  BY Zenon, <1>1, InHands DEF BioInv, PlaceInv
<1>3. /\ data' = [data EXCEPT ![b] = IF valid[b] THEN @ ELSE disk[blockno[b]]]
      /\ valid' = [valid EXCEPT ![b] = TRUE]
      /\ pc' = [pc EXCEPT ![p] = "run"] /\ cur' = [cur EXCEPT ![p] = None]
      /\ UNCHANGED <<list, blockno, refcnt, lock, disk, dirty, logged, panic>>
  BY Zenon, <1>2 DEF bread, Goto
<1>4. TypeOK'
  <2>1. (IF valid[b] THEN data[b] ELSE disk[blockno[b]]) \in Data
    BY Zenon, <1>2 DEF BioInv, TypeOK
  <2> QED
    BY Zenon, <1>3, <2>1 DEF BioInv, TypeOK
<1>5. \A c \in Buf : Users(c)' = Users(c)
  BY <1>2, <1>3, BioAssumption DEF BioInv, TypeOK, Users
<1>6. valid'[b] /\ \A c \in Buf : c # b => valid'[c] = valid[c] /\ data'[c] = data[c]
  BY Zenon, <1>3 DEF BioInv, TypeOK
<1>7. CacheInv'
  <2>1. \A c \in Buf : valid[c] => valid'[c]
    BY Zenon, <1>6
  <2>2. \A c \in dirty' : valid'[c] /\ lock'[c] # None
    BY Zenon, <1>3, <2>1 DEF BioInv, TypeOK, CacheInv
  <2>3. \A m \in logged' : \E c \in Buf : blockno'[c] = m /\ valid'[c]
    BY Zenon, <1>3, <2>1 DEF BioInv, CacheInv
  <2> QED
    BY Zenon, <1>1, <1>3, <1>5, <2>2, <2>3, SameCounts DEF BioInv, CacheInv
<1>8. PlaceInv'
  <2>1. ASSUME NEW q \in Proc
        PROVE  /\ pc'[q] = "run" <=> cur'[q] = None
               /\ pc'[q] = "read" => lock'[cur'[q]] = q
               /\ pc'[q] \in {"acquire", "put"} => lock'[cur'[q]] # q
               /\ cur'[q] # None => blockno'[cur'[q]] # None
    BY <1>3 DEF BioInv, TypeOK, PlaceInv
  <2>2. ASSUME NEW c \in Buf, lock'[c] # None
        PROVE  blockno'[c] # None /\ (valid'[c] \/ cur'[lock'[c]] = c)
    <3>1. CASE c = b
      BY Zenon, <1>3, <1>6, <2>2, <3>1 DEF BioInv, PlaceInv
    <3>2. CASE c # b
      <4>1. lock[c] \in Proc /\ lock[c] # None /\ (cur[lock[c]] = c => lock[c] # p)
        BY Zenon, <1>2, <1>3, <2>2, <3>2 DEF BioInv, TypeOK
      <4> QED
        BY <1>3, <1>6, <3>2, <4>1 DEF BioInv, TypeOK, PlaceInv
    <3> QED
      BY Zenon, <3>1, <3>2
  <2> QED
    BY <2>1, <2>2 DEF PlaceInv
<1>9. CopyInv'
  <2>1. ASSUME NEW c \in Buf, valid'[c]
        PROVE  /\ blockno'[c] # None
               /\ c \notin dirty' /\ blockno'[c] \notin logged' => data'[c] = disk'[blockno'[c]]
    <3>1. CASE c = b /\ ~valid[b]
      BY Zenon, <1>2, <1>3, <3>1, BioAssumption DEF BioInv, TypeOK
    <3>2. CASE valid[c]
      <4>1. data'[c] = data[c]
        BY Zenon, <1>3, <3>2 DEF BioInv, TypeOK
      <4> QED
        BY Zenon, <1>3, <3>2, <4>1 DEF BioInv, CopyInv
    <3> QED
      BY Zenon, <1>6, <2>1, <3>1, <3>2
  <2> QED
    BY Zenon, <2>1 DEF CopyInv
<1> QED
  BY <1>4, <1>7, <1>8, <1>9 DEF BioInv

\* A process that has a buffer locked works on it: its steps leave places,
\* locks and the list alone.
LEMMA WorkStep ==
  ASSUME BioInv, TypeOK', UNCHANGED <<list, blockno, valid, lock, pc, cur, panic>>, panic = FALSE,
         \A c \in Buf : refcnt'[c] = Cardinality(Users(c)') + Pins(c)',
         \A m \in logged' : \E c \in Buf : blockno[c] = m /\ valid[c],
         \A c \in dirty' : valid[c] /\ lock[c] # None,
         \A c \in Buf : valid[c] /\ c \notin dirty' /\ blockno[c] \notin logged' => data'[c] = disk'[blockno[c]]
  PROVE  BioInv'
<1>1. CacheInv'
  BY Zenon DEF BioInv, CacheInv
<1>2. PlaceInv'
  BY Zenon DEF BioInv, PlaceInv
<1>3. CopyInv'
  BY Zenon DEF BioInv, CopyInv
<1> QED
  BY Zenon, <1>1, <1>2, <1>3 DEF BioInv

\* The holder of a buffer changes its bytes.
LEMMA ModifyInv ==
  ASSUME BioInv, NEW p \in Proc, NEW b \in Buf, NEW d \in Data, modify(p, b, d)
  PROVE  BioInv'
<1>1. At(p, "run") /\ lock[b] = p /\ panic = FALSE /\ p # None
  BY Zenon, BioAssumption DEF modify, Held, At, BioInv, TypeOK
<1>2. valid[b] /\ blockno[b] \in Block
  BY Zenon, <1>1, Holds
<1>3. /\ data' = [data EXCEPT ![b] = d] /\ dirty' = dirty \cup {b}
      /\ UNCHANGED <<list, blockno, valid, refcnt, lock, disk, pc, cur, logged, panic>>
  BY Zenon DEF modify
<1>4. TypeOK'
  BY Zenon, <1>3 DEF BioInv, TypeOK
<1>5. \A c \in Buf : Users(c)' = Users(c)
  BY Zenon, <1>3 DEF Users
<1>6. \A c \in dirty' : valid[c] /\ lock[c] # None
  BY Zenon, <1>1, <1>2, <1>3 DEF BioInv, CacheInv
<1>7. \A c \in Buf : valid[c] /\ c \notin dirty' /\ blockno[c] \notin logged' => data'[c] = disk'[blockno[c]]
  BY Zenon, <1>3 DEF BioInv, TypeOK, CopyInv
<1>8. \A c \in Buf : refcnt'[c] = Cardinality(Users(c)') + Pins(c)'
  BY Zenon, <1>3, <1>5, SameCounts
<1>9. \A m \in logged' : \E c \in Buf : blockno[c] = m /\ valid[c]
  BY Zenon, <1>3 DEF BioInv, CacheInv
<1> QED
  BY Zenon, <1>1, <1>3, <1>4, <1>6, <1>7, <1>8, <1>9, WorkStep

\* bwrite() brings the disk up to date.
LEMMA BwriteInv ==
  ASSUME BioInv, NEW p \in Proc, NEW b \in Buf, bwrite(p, b)
  PROVE  BioInv'
<1>1. At(p, "run") /\ lock[b] = p /\ panic = FALSE
  BY Zenon DEF bwrite, Held, At, BioInv, TypeOK
<1>2. valid[b] /\ blockno[b] \in Block /\ blockno[b] # None
  BY Zenon, <1>1, Holds
<1>3. /\ disk' = [disk EXCEPT ![blockno[b]] = data[b]] /\ dirty' = dirty \ {b}
      /\ UNCHANGED <<list, blockno, valid, refcnt, data, lock, pc, cur, logged, panic>>
  BY Zenon DEF bwrite, bufVars
<1>4. TypeOK'
  BY Zenon, <1>2, <1>3 DEF BioInv, TypeOK
<1>5. \A c \in Buf : Users(c)' = Users(c)
  BY Zenon, <1>3 DEF Users
<1>6. \A c \in dirty' : valid[c] /\ lock[c] # None
  BY Zenon, <1>3 DEF BioInv, CacheInv
<1>7. ASSUME NEW c \in Buf, valid[c], c \notin dirty', blockno[c] \notin logged'
      PROVE  data'[c] = disk'[blockno[c]]
  <2>1. CASE c = b
    BY Zenon, <1>2, <1>3, <2>1 DEF BioInv, TypeOK
  <2>2. CASE c # b
    <3>1. blockno[c] # blockno[b]
      BY Zenon, <1>2, <2>2, Unique
    <3> QED
      BY Zenon, <1>2, <1>3, <1>7, <2>2, <3>1 DEF BioInv, TypeOK, CopyInv
  <2> QED
    BY Zenon, <2>1, <2>2
<1>8. \A c \in Buf : refcnt'[c] = Cardinality(Users(c)') + Pins(c)'
  BY Zenon, <1>3, <1>5, SameCounts
<1>9. \A m \in logged' : \E c \in Buf : blockno[c] = m /\ valid[c]
  BY Zenon, <1>3 DEF BioInv, CacheInv
<1> QED
  BY Zenon, <1>1, <1>3, <1>4, <1>6, <1>7, <1>8, <1>9, WorkStep

\* log_write() pins the buffer of a block that was not logged yet.
LEMMA LogWriteInv ==
  ASSUME BioInv, NEW p \in Proc, NEW b \in Buf, log_write(p, b)
  PROVE  BioInv'
<1>1. At(p, "run") /\ lock[b] = p /\ panic = FALSE /\ blockno[b] \notin LogBlock
  BY Zenon DEF log_write, Held, At, BioInv, TypeOK
<1>2. valid[b] /\ blockno[b] \in Block /\ blockno[b] # None
  BY Zenon, <1>1, Holds
<1>3. /\ logged' = logged \cup {blockno[b]} /\ dirty' = dirty \ {b}
      /\ UNCHANGED <<list, blockno, valid, data, lock, disk, pc, cur, panic>>
      /\ refcnt' = IF blockno[b] \in logged THEN refcnt ELSE [refcnt EXCEPT ![b] = @ + 1]
  BY Zenon DEF log_write, bpin
<1>4. TypeOK'
  <2>1. refcnt' \in [Buf -> Nat]
    BY <1>3 DEF BioInv, TypeOK
  <2>2. logged' \subseteq Block \ LogBlock
    BY Zenon, <1>1, <1>2, <1>3 DEF BioInv, TypeOK
  <2> QED
    BY Zenon, <1>3, <2>1, <2>2 DEF BioInv, TypeOK
<1>5. \A c \in Buf : Users(c)' = Users(c)
  BY Zenon, <1>3 DEF Users
<1>6. \A c \in dirty' : valid[c] /\ lock[c] # None
  BY Zenon, <1>3 DEF BioInv, CacheInv
<1>7. \A c \in Buf : valid[c] /\ c \notin dirty' /\ blockno[c] \notin logged' => data'[c] = disk'[blockno[c]]
  BY Zenon, <1>3 DEF BioInv, CopyInv
<1>8. ASSUME NEW c \in Buf PROVE refcnt'[c] = Cardinality(Users(c)') + Pins(c)'
  <2>1. /\ refcnt[c] = Cardinality(Users(c)) + Pins(c) /\ Users(c) \in SUBSET Proc
        /\ refcnt \in [Buf -> Nat]
    BY Zenon DEF BioInv, CacheInv, TypeOK, Users
  <2>2. Cardinality(Users(c)) \in Nat
    BY Zenon, <2>1, Finite
  <2>3. CASE c = b /\ blockno[b] \notin logged
    <3>1. refcnt'[c] = refcnt[c] + 1 /\ Pins(c) = 0 /\ Pins(c)' = 1
      BY Zenon, <1>3, <2>1, <2>3 DEF Pins
    <3> QED
      BY <1>5, <2>1, <2>2, <3>1
  <2>4. CASE c # b \/ blockno[b] \in logged
    <3>1. refcnt'[c] = refcnt[c]
      BY Zenon, <1>3, <2>1, <2>4
    <3>2. blockno[c] \in logged' <=> blockno[c] \in logged
      BY Zenon, <1>2, <1>3, <2>4, Unique
    <3>3. Pins(c)' = Pins(c)
      BY Zenon, <1>3, <3>2 DEF Pins
    <3> QED
      BY Zenon, <1>5, <2>1, <3>1, <3>3
  <2> QED
    BY Zenon, <2>3, <2>4
<1>9. \A m \in logged' : \E c \in Buf : blockno[c] = m /\ valid[c]
  BY Zenon, <1>2, <1>3 DEF BioInv, CacheInv
<1> QED
  BY Zenon, <1>1, <1>3, <1>4, <1>6, <1>7, <1>8, <1>9, WorkStep

\* install_trans() unpins the buffer of an installed block.
LEMMA BunpinInv ==
  ASSUME BioInv, NEW p \in Proc, NEW b \in Buf, bunpin(p, b)
  PROVE  BioInv'
<1>1. /\ At(p, "run") /\ lock[b] = p /\ panic = FALSE
      /\ blockno[b] \in logged /\ disk[blockno[b]] = data[b]
  BY Zenon DEF bunpin, Held, At, BioInv, TypeOK
<1>2. valid[b] /\ blockno[b] \in Block /\ blockno[b] # None
  BY Zenon, <1>1, Holds
<1>3. /\ logged' = logged \ {blockno[b]} /\ refcnt' = [refcnt EXCEPT ![b] = @ - 1]
      /\ UNCHANGED <<list, blockno, valid, data, lock, disk, pc, cur, dirty, panic>>
  BY Zenon DEF bunpin
<1>4. \A c \in Buf : Users(c)' = Users(c)
  BY Zenon, <1>3 DEF Users
<1>5. refcnt[b] - 1 \in Nat /\ refcnt[b] - 1 = Cardinality(Users(b))
  <2>1. /\ refcnt[b] = Cardinality(Users(b)) + Pins(b) /\ Users(b) \in SUBSET Proc /\ Pins(b) = 1
    BY Zenon, <1>1 DEF BioInv, CacheInv, TypeOK, Users, Pins
  <2>2. Cardinality(Users(b)) \in Nat
    BY Zenon, <2>1, Finite
  <2> QED
    BY <2>1, <2>2
<1>6. TypeOK'
  BY Zenon, <1>3, <1>5 DEF BioInv, TypeOK
<1>7. \A c \in dirty' : valid[c] /\ lock[c] # None
  BY Zenon, <1>3 DEF BioInv, CacheInv
<1>8. ASSUME NEW c \in Buf, valid[c], c \notin dirty', blockno[c] \notin logged'
      PROVE  data'[c] = disk'[blockno[c]]
  <2>1. CASE c = b
    BY Zenon, <1>1, <1>3, <2>1
  <2>2. CASE c # b
    BY Zenon, <1>2, <1>3, <1>8, <2>2, Unique DEF BioInv, CopyInv
  <2> QED
    BY <2>1, <2>2
<1>9. ASSUME NEW c \in Buf PROVE refcnt'[c] = Cardinality(Users(c)') + Pins(c)'
  <2>1. refcnt[c] = Cardinality(Users(c)) + Pins(c) /\ refcnt \in [Buf -> Nat]
    BY Zenon DEF BioInv, CacheInv, TypeOK
  <2>2. CASE c = b
    <3>1. refcnt'[c] = refcnt[b] - 1 /\ Pins(c)' = 0
      BY Zenon, <1>3, <2>1, <2>2 DEF Pins
    <3> QED
      BY <1>4, <1>5, <2>2, <3>1
  <2>3. CASE c # b
    <3>1. refcnt'[c] = refcnt[c]
      BY Zenon, <1>3, <2>1, <2>3
    <3>2. Pins(c)' = Pins(c)
      BY Zenon, <1>2, <1>3, <2>3, Unique DEF Pins
    <3> QED
      BY Zenon, <1>4, <2>1, <3>1, <3>2
  <2> QED
    BY Zenon, <2>2, <2>3
<1>10. \A m \in logged' : \E c \in Buf : blockno[c] = m /\ valid[c]
  BY Zenon, <1>3 DEF BioInv, CacheInv
<1> QED
  BY Zenon, <1>1, <1>3, <1>6, <1>7, <1>8, <1>9, <1>10, WorkStep

\* brelse() lets go of the sleep-lock, but not yet of the reference.
LEMMA ReleasesleepInv ==
  ASSUME BioInv, NEW p \in Proc, NEW b \in Buf, releasesleep(p, b)
  PROVE  BioInv'
<1>1. At(p, "run") /\ lock[b] = p /\ panic = FALSE /\ b \notin dirty /\ p # None /\ b # None
  BY BioAssumption DEF releasesleep, Held, At, BioInv, TypeOK
<1>2. valid[b] /\ blockno[b] \in Block /\ blockno[b] # None /\ cur[p] = None
  BY Zenon, <1>1, Holds
<1>3. /\ lock' = [lock EXCEPT ![b] = None] /\ cur' = [cur EXCEPT ![p] = b]
      /\ pc' = [pc EXCEPT ![p] = "put"]
      /\ UNCHANGED <<list, blockno, valid, refcnt, data, disk, dirty, logged, panic>>
  BY Zenon DEF releasesleep, Goto
<1>4. TypeOK'
  BY Zenon, <1>3 DEF BioInv, TypeOK
<1>5. \A c \in Buf : Users(c)' = Users(c)
  BY <1>1, <1>2, <1>3, BioAssumption DEF BioInv, TypeOK, Users
<1>6. lock'[b] = None /\ \A c \in Buf : c # b => lock'[c] = lock[c]
  BY Zenon, <1>3 DEF BioInv, TypeOK
<1>7. CacheInv'
  <2>1. \A c \in dirty : valid'[c] /\ lock'[c] # None
    BY <1>1, <1>3, <1>6 DEF BioInv, TypeOK, CacheInv
  <2> QED
    BY Zenon, <1>1, <1>3, <1>5, <2>1, SameCounts DEF BioInv, CacheInv
<1>8. PlaceInv'
  <2>1. ASSUME NEW q \in Proc
        PROVE  /\ pc'[q] = "run" <=> cur'[q] = None
               /\ pc'[q] = "read" => lock'[cur'[q]] = q
               /\ pc'[q] \in {"acquire", "put"} => lock'[cur'[q]] # q
               /\ cur'[q] # None => blockno'[cur'[q]] # None
    <3>1. CASE q = p
      BY Zenon, <1>1, <1>2, <1>3, <1>6, <3>1 DEF BioInv, TypeOK
    <3>2. CASE q # p
      <4>1. pc'[q] = pc[q] /\ cur'[q] = cur[q] /\ blockno' = blockno
        BY Zenon, <1>3, <3>2 DEF BioInv, TypeOK
      <4>2. cur[q] \in Buf => lock'[cur[q]] = q <=> lock[cur[q]] = q
        BY Zenon, <1>1, <1>6, <3>2, BioAssumption
      <4>3. cur[q] \in Buf \/ cur[q] = None
        BY Zenon DEF BioInv, TypeOK
      <4> QED
        BY <4>1, <4>2, <4>3 DEF BioInv, PlaceInv, TypeOK
    <3> QED
      BY Zenon, <3>1, <3>2
  <2>2. ASSUME NEW c \in Buf, lock'[c] # None
        PROVE  blockno'[c] # None /\ (valid'[c] \/ cur'[lock'[c]] = c)
    <3>1. c # b /\ lock[c] \in Proc /\ lock[c] # None /\ lock'[c] = lock[c]
      BY Zenon, <1>6, <2>2 DEF BioInv, TypeOK
    <3>2. cur[lock[c]] = c => lock[c] # p
      BY Zenon, <1>2, BioAssumption
    <3> QED
      BY <1>3, <3>1, <3>2 DEF BioInv, TypeOK, PlaceInv
  <2> QED
    BY Zenon, <2>1, <2>2 DEF PlaceInv
<1>9. CopyInv'
  BY Zenon, <1>3 DEF BioInv, CopyInv
<1> QED
  BY Zenon, <1>4, <1>7, <1>8, <1>9 DEF BioInv

\* brelse() drops the reference; the last one puts the buffer at the head.
LEMMA BrelseInv ==
  ASSUME BioInv, NEW p \in Proc, brelse(p)
  PROVE  BioInv'
<1>1. pc[p] = "put" /\ panic = FALSE
  BY Zenon DEF brelse, At, BioInv, TypeOK
<1>2. PICK b \in Buf : b = cur[p] /\ b # None /\ lock[b] # p
  BY Zenon, <1>1, InHands DEF BioInv, PlaceInv
<1>3. /\ refcnt' = [refcnt EXCEPT ![b] = @ - 1]
      /\ list' = IF refcnt'[b] = 0 THEN toHead(b) ELSE list
      /\ pc' = [pc EXCEPT ![p] = "run"] /\ cur' = [cur EXCEPT ![p] = None]
      /\ UNCHANGED <<blockno, valid, data, lock, disk, dirty, logged, panic>>
  BY Zenon, <1>2 DEF brelse, Goto
<1>4. /\ Users(b)' = Users(b) \ {p} /\ p \in Users(b)
      /\ \A c \in Buf : c # b => Users(c)' = Users(c)
  BY Zenon, <1>2, <1>3, BioAssumption DEF BioInv, TypeOK, Users
<1>5. /\ refcnt[b] = Cardinality(Users(b)) + Pins(b) /\ Cardinality(Users(b)) \in Nat
      /\ Cardinality(Users(b)') = Cardinality(Users(b)) - 1 /\ Cardinality(Users(b)') \in Nat
      /\ Pins(b)' = Pins(b) /\ Pins(b) \in Nat
  <2>1. Users(b) \in SUBSET Proc
    BY Zenon DEF Users
  <2>2. Users(b) \ {p} \in SUBSET Proc
    BY <2>1
  <2>3. /\ Cardinality(Users(b)) \in Nat /\ IsFiniteSet(Users(b))
        /\ Cardinality(Users(b)') = Cardinality(Users(b)) - 1
    BY <1>4, <2>1, Finite, FS_RemoveElement
  <2>4. Cardinality(Users(b)') \in Nat
    BY Zenon, <1>4, <2>2, Finite
  <2>5. refcnt[b] = Cardinality(Users(b)) + Pins(b) /\ Pins(b)' = Pins(b) /\ Pins(b) \in Nat
    BY Zenon, <1>3 DEF BioInv, CacheInv, Pins
  <2> QED
    BY Zenon, <2>3, <2>4, <2>5
<1>6. refcnt[b] - 1 \in Nat /\ refcnt[b] - 1 = Cardinality(Users(b)') + Pins(b)'
  BY <1>5
<1>7. TypeOK'
  BY Zenon, <1>3, <1>6 DEF BioInv, TypeOK
<1>8. CacheInv'
  <2>1. list' \in Bijection(1 .. Cardinality(Buf), Buf)
    <3>1. Cardinality(Buf) \in Nat /\ list \in Bijection(1 .. Cardinality(Buf), Buf)
      BY Zenon, BioAssumption, FS_CardinalityType DEF BioInv, CacheInv
    <3> QED
      BY Zenon, <1>3, <3>1, ToHead
  <2>2. /\ refcnt'[b] = refcnt[b] - 1
        /\ \A c \in Buf : c # b => refcnt'[c] = refcnt[c] /\ Users(c)' = Users(c) /\ blockno'[c] = blockno[c]
    BY Zenon, <1>3, <1>4 DEF BioInv, TypeOK
  <2>3. \A c \in Buf : refcnt'[c] = Cardinality(Users(c)') + Pins(c)'
    BY Zenon, <1>3, <1>6, <2>2, CountStep
  <2> QED
    BY Zenon, <1>1, <1>3, <2>1, <2>3 DEF BioInv, CacheInv
<1>9. PlaceInv'
  <2>1. ASSUME NEW q \in Proc
        PROVE  /\ pc'[q] = "run" <=> cur'[q] = None
               /\ pc'[q] = "read" => lock'[cur'[q]] = q
               /\ pc'[q] \in {"acquire", "put"} => lock'[cur'[q]] # q
               /\ cur'[q] # None => blockno'[cur'[q]] # None
    BY <1>3 DEF BioInv, TypeOK, PlaceInv
  <2>2. ASSUME NEW c \in Buf, lock'[c] # None
        PROVE  blockno'[c] # None /\ (valid'[c] \/ cur'[lock'[c]] = c)
    <3>1. lock[c] \in Proc /\ lock[c] # None /\ (cur[lock[c]] = c => lock[c] # p)
      BY Zenon, <1>2, <1>3, <2>2 DEF BioInv, TypeOK
    <3> QED
      BY <1>3, <3>1 DEF BioInv, TypeOK, PlaceInv
  <2> QED
    BY <2>1, <2>2 DEF PlaceInv
<1>10. CopyInv'
  BY Zenon, <1>3 DEF BioInv, CopyInv
<1> QED
  BY <1>7, <1>8, <1>9, <1>10 DEF BioInv
------------------------------------------------------------------------
(* The theorems. *)

\* The state that binit() leaves.
LEMMA InitInv == Init => BioInv
<1> SUFFICES ASSUME Init PROVE BioInv
  OBVIOUS
<1>1. TypeOK
  BY Zenon DEF Init, TypeOK
<1>2. \A b \in Buf : Users(b) = {} /\ Pins(b) = 0
  BY Zenon, BioAssumption DEF Init, Users, Pins
<1>3. \A b \in Buf : refcnt[b] = Cardinality(Users(b)) + Pins(b)
  BY <1>2, FS_EmptySet DEF Init
<1>4. CacheInv
  BY Zenon, <1>3 DEF Init, CacheInv
<1> QED
  BY Zenon, <1>1, <1>4 DEF Init, BioInv, PlaceInv, CopyInv

\* Every step keeps the invariant.
LEMMA NextInv == BioInv /\ [Next]_vars => BioInv'
<1> SUFFICES ASSUME BioInv, [Next]_vars PROVE BioInv'
  OBVIOUS
<1>1. CASE panicked \/ UNCHANGED vars
  <2>1. UNCHANGED <<list, blockno, valid, refcnt, data, lock, disk, pc, cur, dirty, logged, panic>>
    BY Zenon, <1>1 DEF panicked, vars, bufVars
  <2>2. InHand' = InHand /\ \A b \in Buf : Users(b)' = Users(b) /\ Pins(b)' = Pins(b)
    BY Zenon, <2>1 DEF InHand, Users, Pins
  <2>3. CacheInv'
    BY ZenonT(30), <2>1, <2>2 DEF BioInv, CacheInv
  <2> QED
    BY Zenon, <2>1, <2>3 DEF BioInv, TypeOK, PlaceInv, CopyInv
<1>2. ASSUME NEW p \in Proc, NEW n \in Block, bget(p, n) PROVE BioInv'
  BY Zenon, <1>2, BgetHit, BgetRecycle, BgetPanic DEF bget
<1>3. ASSUME NEW p \in Proc, acquiresleep(p) \/ bread(p) \/ brelse(p) PROVE BioInv'
  BY Zenon, <1>3, AcquiresleepInv, BreadInv, BrelseInv
<1>4. ASSUME NEW p \in Proc, NEW b \in Buf,
             log_write(p, b) \/ bwrite(p, b) \/ bunpin(p, b) \/ releasesleep(p, b)
      PROVE  BioInv'
  BY Zenon, <1>4, LogWriteInv, BwriteInv, BunpinInv, ReleasesleepInv
<1>5. ASSUME NEW p \in Proc, NEW b \in Buf, NEW d \in Data, modify(p, b, d) PROVE BioInv'
  BY Zenon, <1>5, ModifyInv
<1> QED
  BY Zenon, <1>1, <1>2, <1>3, <1>4, <1>5 DEF Next

\* The invariant holds in every state of every behaviour of the cache.
LEMMA AlwaysInv == Spec => []BioInv
BY InitInv, NextInv, PTL DEF Spec

\* bget(), brelse(), bpin() and bunpin() keep the cache consistent: one buffer
\* per block, all buffers on the list, exact reference counts, no recycling of a
\* buffer in use, and a panic only when every buffer is in use.
THEOREM CacheKept == Spec => []CacheInv
<1>1. BioInv => CacheInv
  BY DEF BioInv
<1> QED
  BY <1>1, AlwaysInv, PTL
------------------------------------------------------------------------
(* The cache implements the block store. *)

\* What the store shows of a block before and after a step that keeps the
\* numbers of the buffers.
LEMMA Seen ==
  ASSUME BioInv, BioInv', blockno' = blockno, NEW n \in Block
  PROVE  \/ /\ Content[n] = disk[n] /\ Content'[n] = disk'[n] /\ Holder[n] = None /\ Holder'[n] = None
            /\ \A b \in Buf : blockno[b] # n
         \/ \E b \in Buf :
              /\ blockno[b] = n /\ \A c \in Buf : c # b => blockno[c] # n
              /\ Content[n] = (IF valid[b] THEN data[b] ELSE disk[n]) /\ Holder[n] = lock[b]
              /\ Content'[n] = (IF valid'[b] THEN data'[b] ELSE disk'[n]) /\ Holder'[n] = lock'[b]
<1>1. CASE \A b \in Buf : blockno[b] # n
  BY Zenon, <1>1 DEF Content, Holder, cached
<1>2. CASE \E b \in Buf : blockno[b] = n
  <2>1. PICK b \in Buf : blockno[b] = n
    BY <1>2
  <2>2. \A c \in Buf : c # b => blockno[c] # n
    BY <2>1, BioAssumption DEF BioInv, CacheInv
  <2>3. cached(n) # {} /\ cached(n)' # {} /\ TheBuf(n) = b /\ TheBuf(n)' = b
    BY Zenon, <2>1, <2>2 DEF cached, TheBuf
  <2> QED
    BY Zenon, <2>1, <2>2, <2>3 DEF Content, Holder
<1> QED
  BY Zenon, <1>1, <1>2

\* What is shown is a function of the blocks.
LEMMA Shown ==
  /\ Content = [n \in Block |-> Content[n]] /\ Content' = [n \in Block |-> Content'[n]]
  /\ Holder = [n \in Block |-> Holder[n]] /\ Holder' = [n \in Block |-> Holder'[n]]
BY Zenon DEF Content, Holder

\* A step that changes neither bytes nor locks does not show.
LEMMA Hidden ==
  ASSUME BioInv, BioInv', UNCHANGED <<blockno, lock, disk>>,
         \A b \in Buf : (IF valid'[b] THEN data'[b] ELSE disk[blockno[b]])
                          = (IF valid[b] THEN data[b] ELSE disk[blockno[b]])
  PROVE  UNCHANGED <<Content, Holder, disk>>
<1>1. \A n \in Block : Content'[n] = Content[n] /\ Holder'[n] = Holder[n]
  BY Seen
<1> QED
  BY Zenon, <1>1, Shown

\* Recycling a buffer without references does not show: its block is on the disk.
LEMMA RecycleHidden ==
  ASSUME BioInv, BioInv', NEW p \in Proc, NEW m \in Block, NEW b \in Buf, bget_recycle(p, m, b)
  PROVE  UNCHANGED <<Content, Holder, disk>>
<1>1. refcnt[b] = 0 /\ \A c \in Buf : blockno[c] # m
  BY Zenon DEF bget_recycle, cached, LRU
<1>2. lock[b] = None /\ (valid[b] => data[b] = disk[blockno[b]])
  BY Zenon, <1>1, Unused
<1>3. /\ blockno'[b] = m /\ ~valid'[b]
      /\ \A c \in Buf : c # b => blockno'[c] = blockno[c] /\ valid'[c] = valid[c]
      /\ UNCHANGED <<data, lock, disk>>
  BY Zenon DEF bget_recycle, BioInv, TypeOK
<1>4. ASSUME NEW n \in Block PROVE Content'[n] = Content[n] /\ Holder'[n] = Holder[n]
  <2>1. CASE n = m
    <3>1. cached(n) = {}
      BY Zenon, <1>1, <2>1 DEF cached
    <3>2. TheBuf(n)' = b /\ cached(n)' # {}
      BY Zenon, <1>1, <1>3, <2>1 DEF TheBuf, cached
    <3> QED
      BY Zenon, <1>2, <1>3, <3>1, <3>2 DEF Content, Holder
  <2>2. CASE n # m /\ n = blockno[b]
    <3>1. cached(n)' = {}
      <4>1. n # None
        BY Zenon, BioAssumption
      <4> QED
        BY <1>3, <2>2, <4>1 DEF cached, BioInv, CacheInv
    <3>2. TheBuf(n) = b /\ cached(n) # {}
      BY Zenon, <2>2, BioAssumption, Unique
    <3> QED
      BY Zenon, <1>2, <1>3, <2>2, <3>1, <3>2 DEF Content, Holder
  <2>3. CASE n # m /\ n # blockno[b] /\ \E c \in Buf : blockno[c] = n
    <3>1. PICK c \in Buf : blockno[c] = n
      BY Zenon, <2>3
    <3>2. c # b /\ c \in cached(n) /\ c \in cached(n)' /\ TheBuf(n) = c
      BY Zenon, <1>3, <2>3, <3>1, BioAssumption, Unique DEF cached
    <3>3. TheBuf(n)' = c
      BY <1>3, <2>3, <3>1, <3>2, BioAssumption DEF TheBuf, BioInv, CacheInv
    <3> QED
      BY Zenon, <1>3, <3>2, <3>3 DEF Content, Holder
  <2>4. CASE n # m /\ n # blockno[b] /\ \A c \in Buf : blockno[c] # n
    <3>1. cached(n) = {} /\ cached(n)' = {}
      BY Zenon, <1>3, <2>4 DEF cached
    <3> QED
      BY Zenon, <1>3, <3>1 DEF Content, Holder
  <2> QED
    BY Zenon, <2>1, <2>2, <2>3, <2>4
<1> QED
  BY Zenon, <1>3, <1>4, Shown

\* Getting the sleep-lock of a buffer takes its block.
LEMMA TakesBlock ==
  ASSUME BioInv, BioInv', NEW p \in Proc, acquiresleep(p)
  PROVE  \E n \in Block : Store!Take(p, n)
<1>1. PICK b \in Buf : b = cur[p] /\ blockno[b] \in Block
  BY Zenon, InHands DEF acquiresleep, At
<1>2. /\ lock[b] = None /\ lock'[b] = p /\ \A c \in Buf : c # b => lock'[c] = lock[c]
      /\ UNCHANGED <<blockno, valid, data, disk>>
  BY Zenon, <1>1 DEF acquiresleep, BioInv, TypeOK
<1>3. PICK n \in Block : n = blockno[b]
  BY Zenon, <1>1
<1>4. Holder[n] = None /\ Holder'[n] = p
  BY ZenonT(30), <1>2, <1>3, Seen
<1>5. ASSUME NEW m \in Block PROVE Content'[m] = Content[m] /\ (m # n => Holder'[m] = Holder[m])
  BY <1>2, <1>3, Seen
<1>6. Content' = Content /\ Holder' = [Holder EXCEPT ![n] = p]
  BY Zenon, <1>4, <1>5, Shown
<1> QED
  BY Zenon, <1>2, <1>4, <1>6 DEF Store!Take

\* brelse() gives the block back.
LEMMA ReleasesBlock ==
  ASSUME BioInv, BioInv', NEW p \in Proc, NEW b \in Buf, releasesleep(p, b)
  PROVE  \E n \in Block : Store!Release(p, n)
<1>1. blockno[b] \in Block /\ lock[b] = p
  BY Zenon, Holds DEF releasesleep, Held
<1>2. /\ lock'[b] = None /\ \A c \in Buf : c # b => lock'[c] = lock[c]
      /\ UNCHANGED <<blockno, valid, data, disk>>
  BY Zenon DEF releasesleep, BioInv, TypeOK
<1>3. PICK n \in Block : n = blockno[b]
  BY Zenon, <1>1
<1>4. Holder[n] = p /\ Holder'[n] = None
  BY ZenonT(30), <1>1, <1>2, <1>3, Seen
<1>5. ASSUME NEW m \in Block PROVE Content'[m] = Content[m] /\ (m # n => Holder'[m] = Holder[m])
  BY <1>2, <1>3, Seen
<1>6. Content' = Content /\ Holder' = [Holder EXCEPT ![n] = None]
  BY Zenon, <1>4, <1>5, Shown
<1> QED
  BY Zenon, <1>2, <1>4, <1>6 DEF Store!Release

\* The holder changes the bytes of its block, and of no other.
LEMMA ModifiesBlock ==
  ASSUME BioInv, BioInv', NEW p \in Proc, NEW b \in Buf, NEW d \in Data, modify(p, b, d)
  PROVE  \E n \in Block : Store!Modify(p, n, d)
<1>1. blockno[b] \in Block /\ lock[b] = p /\ valid[b]
  BY Zenon, Holds DEF modify, Held
<1>2. /\ data'[b] = d /\ \A c \in Buf : c # b => data'[c] = data[c]
      /\ UNCHANGED <<blockno, valid, lock, disk>>
  BY Zenon DEF modify, BioInv, TypeOK
<1>3. PICK n \in Block : n = blockno[b]
  BY Zenon, <1>1
<1>4. Holder[n] = p /\ Content'[n] = d
  BY <1>1, <1>2, <1>3, Seen
<1>5. ASSUME NEW m \in Block PROVE Holder'[m] = Holder[m] /\ (m # n => Content'[m] = Content[m])
  BY <1>2, <1>3, Seen
<1>6. Holder' = Holder /\ Content' = [Content EXCEPT ![n] = d]
  BY Zenon, <1>4, <1>5, Shown
<1> QED
  BY Zenon, <1>2, <1>4, <1>6 DEF Store!Modify

\* bwrite() puts the bytes that the holder sees on the disk.
LEMMA WritesBlock ==
  ASSUME BioInv, BioInv', NEW p \in Proc, NEW b \in Buf, bwrite(p, b)
  PROVE  \E n \in Block : Store!Write(p, n)
<1>1. blockno[b] \in Block /\ lock[b] = p /\ valid[b]
  BY Zenon, Holds DEF bwrite, Held
<1>2. PICK n \in Block : n = blockno[b]
  BY Zenon, <1>1
<1>3. disk' = [disk EXCEPT ![n] = data[b]] /\ UNCHANGED <<blockno, valid, data, lock>>
  BY Zenon, <1>2 DEF bwrite, bufVars
<1>4. \A m \in Block : m # n => disk'[m] = disk[m]
  BY Zenon, <1>3 DEF BioInv, TypeOK
<1>5. Holder[n] = p /\ Content[n] = data[b] /\ Content'[n] = data[b]
  BY <1>1, <1>2, <1>3, Seen
<1>6. ASSUME NEW m \in Block PROVE Holder'[m] = Holder[m] /\ Content'[m] = Content[m]
  <2>1. Holder'[m] = Holder[m]
    BY <1>3, Seen
  <2>2. CASE m # n
    <3>1. disk'[m] = disk[m]
      BY Zenon, <1>4, <2>2
    <3> QED
      BY <1>3, <2>1, <3>1, Seen
  <2> QED
    BY Zenon, <1>5, <2>1, <2>2
<1>7. Holder' = Holder /\ Content' = Content
  BY Zenon, <1>6, Shown
<1> QED
  BY Zenon, <1>3, <1>5, <1>7 DEF Store!Write

\* Every step of the cache is a step of the store, or does not show.
LEMMA StepRefined ==
  ASSUME BioInv, BioInv', [Next]_vars
  PROVE  [Store!Next]_(Store!vars)
<1>1. SUFFICES Store!Next \/ UNCHANGED <<Content, Holder, disk>>
  BY DEF Store!vars
<1>2. CASE panicked \/ UNCHANGED vars
  BY Zenon, <1>2, Hidden DEF panicked, vars, bufVars
<1>3. ASSUME NEW p \in Proc, NEW n \in Block, bget(p, n) PROVE UNCHANGED <<Content, Holder, disk>>
  <2>1. ASSUME NEW b \in Buf, bget_hit(p, n, b) PROVE UNCHANGED <<Content, Holder, disk>>
    BY Zenon, <2>1, Hidden DEF bget_hit
  <2>2. ASSUME bget_panic(n) PROVE UNCHANGED <<Content, Holder, disk>>
    BY Zenon, <2>2, Hidden DEF bget_panic, bufVars
  <2> QED
    BY Zenon, <1>3, <2>1, <2>2, RecycleHidden DEF bget
<1>4. ASSUME NEW p \in Proc, acquiresleep(p) PROVE Store!Next
  BY Zenon, <1>4, TakesBlock DEF Store!Next
<1>5. ASSUME NEW p \in Proc, bread(p) PROVE UNCHANGED <<Content, Holder, disk>>
  <2>1. PICK b \in Buf : b = cur[p]
    BY Zenon, <1>5, InHands DEF bread, At
  <2>2. /\ data' = [data EXCEPT ![b] = IF valid[b] THEN @ ELSE disk[blockno[b]]]
        /\ valid' = [valid EXCEPT ![b] = TRUE] /\ UNCHANGED <<blockno, lock, disk>>
    BY Zenon, <1>5, <2>1 DEF bread
  <2>3. \A c \in Buf : (IF valid'[c] THEN data'[c] ELSE disk[blockno[c]])
                         = (IF valid[c] THEN data[c] ELSE disk[blockno[c]])
    BY ZenonT(30), <2>2 DEF BioInv, TypeOK
  <2> QED
    BY Zenon, <2>2, <2>3, Hidden
<1>6. ASSUME NEW p \in Proc, brelse(p) PROVE UNCHANGED <<Content, Holder, disk>>
  BY Zenon, <1>6, Hidden DEF brelse
<1>7. ASSUME NEW p \in Proc, NEW b \in Buf, log_write(p, b) \/ bunpin(p, b)
      PROVE  UNCHANGED <<Content, Holder, disk>>
  BY Zenon, <1>7, Hidden DEF log_write, bunpin
<1>8. ASSUME NEW p \in Proc, NEW b \in Buf, bwrite(p, b) PROVE Store!Next
  BY Zenon, <1>8, WritesBlock DEF Store!Next
<1>9. ASSUME NEW p \in Proc, NEW b \in Buf, releasesleep(p, b) PROVE Store!Next
  BY Zenon, <1>9, ReleasesBlock DEF Store!Next
<1>10. ASSUME NEW p \in Proc, NEW b \in Buf, NEW d \in Data, modify(p, b, d) PROVE Store!Next
  BY Zenon, <1>10, ModifiesBlock DEF Store!Next
<1> QED
  BY Zenon, <1>2, <1>3, <1>4, <1>5, <1>6, <1>7, <1>8, <1>9, <1>10 DEF Next

\* Whatever bget() recycles and whatever the log pins, bread(), bwrite() and
\* brelse() give the processes one store of blocks with one holder each.
THEOREM CacheIsStore == Spec => StoreRefined
<1>1. Init => Store!Init
  <2> SUFFICES ASSUME Init PROVE Store!Init
    OBVIOUS
  <2>1. disk \in [Block -> Data]
    BY Zenon DEF Init
  <2>2. \A n \in Block : cached(n) = {}
    BY Zenon, BioAssumption DEF Init, cached
  <2>3. \A n \in Block : Content[n] = disk[n] /\ Holder[n] = None
    BY Zenon, <2>2 DEF Content, Holder
  <2>4. Content = disk /\ Holder = [n \in Block |-> None]
    BY Zenon, <2>1, <2>3 DEF Content, Holder
  <2> QED
    BY Zenon, <2>1, <2>4 DEF Store!Init
<1>2. BioInv /\ BioInv' /\ [Next]_vars => [Store!Next]_(Store!vars)
  BY Zenon, StepRefined
<1> QED
  BY <1>1, <1>2, AlwaysInv, PTL DEF Spec, StoreRefined, Store!Spec
=========================================================================
