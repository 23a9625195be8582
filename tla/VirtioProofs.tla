-------------------------- MODULE VirtioProofs --------------------------
(***************************************************************************)
(* The disk driver never shares or loses a descriptor, and transfers the   *)
(* block of a request exactly once, for any number of buffers, any queue   *)
(* length and any index width that the queue length divides.               *)
(*                                                                         *)
(* The inductive invariant follows each request through the rings.  The    *)
(* ring indices wrap, so RingInv speaks of the numbers of entries that     *)
(* were ever put into and taken out of each ring, of which the indices are *)
(* the remainders; such numbers exist in every reachable state.            *)
(***************************************************************************)
EXTENDS VirtioDisk, FiniteSetTheorems, TLAPS

\* The descriptors of a request in flight, as format() has left them.
Formatted(b, h, j, k) ==
    /\ h = idx0[b] /\ j \in Slot /\ k \in Slot /\ h # j /\ h # k /\ j # k
    /\ desc[h] = [addr |-> <<"op", h>>, write |-> FALSE, more |-> TRUE, next |-> j]
    /\ desc[j] = [addr |-> <<"data", b>>, write |-> (ops[h].type = "in"), more |-> TRUE, next |-> k]
    /\ desc[k] = [addr |-> <<"status", h>>, write |-> TRUE, more |-> FALSE, next |-> 0]
    /\ info[h].b = b /\ ops[h].sector = b

\* Each request in flight has a chain of its own, and the rest is free.
ChainInv ==
    /\ \A b \in InFlight : \E h, j, k \in Slot : Formatted(b, h, j, k)
    /\ \A b, c \in InFlight : b # c => Chain(idx0[b]) \cap Chain(idx0[c]) = {}
    /\ \A b \in InFlight : Chain(idx0[b]) \cap free = {}
    /\ \A s \in Slot : s \in free \/ \E b \in InFlight : s \in Chain(idx0[b])

\* vdisk_lock is held from format() to notify(), and b->disk is cleared only
\* when the device has written its status.
CallInv ==
    /\ \A b \in Buf : lk = b <=> pc[b] \in {"publish", "notify"}
    /\ \A b \in InFlight : bdisk[b] = 0 => info[idx0[b]].status = 0
    /\ \A b \in Buf : pc[b] = "publish" => bdisk[b] = 1 /\ info[idx0[b]].status = 255

\* A published request whose status is s and that is not known to be done.
Open(b, s) ==
    b \in InFlight /\ pc[b] # "publish" /\ bdisk[b] = 1 /\ info[idx0[b]].status = s

\* What the device has of the request b.
Request(b) ==
    LET h == idx0[b]  j == desc[h].next
    IN  [id |-> h, op |-> desc[h].addr, buf |-> desc[j], status |-> desc[desc[j].next].addr]

\* A entries were put into the avail ring, of which the device took D; it put U
\* entries into the used ring, of which the handler has looked at V.  An entry
\* that waits in a ring, or a chain that the device works on, belongs to an open
\* request, and to no other entry or chain.
RingInv(A, D, U, V) ==
    /\ avail.idx = A % UINT16 /\ dev.idx = D % UINT16 /\ D <= A
    /\ used.idx = U % UINT16 /\ used_idx = V % UINT16 /\ V <= U
    /\ \A b \in Buf : pc[b] = "publish" => avail.ring[A % NUM] = idx0[b]
    /\ \A n \in D .. (A - 1) : \E b \in Buf : Open(b, 255) /\ avail.ring[n % NUM] = idx0[b]
    /\ \A m, n \in D .. (A - 1) : m # n => avail.ring[m % NUM] # avail.ring[n % NUM]
    /\ \A r \in dev.busy : \E b \in Buf : Open(b, 255) /\ r = Request(b)
    /\ \A r \in dev.busy, n \in D .. (A - 1) : avail.ring[n % NUM] # r.id
    /\ \A n \in V .. (U - 1) : \E b \in Buf : Open(b, 0) /\ used.ring[n % NUM] = idx0[b]
    /\ \A m, n \in V .. (U - 1) : m # n => used.ring[m % NUM] # used.ring[n % NUM]

RingsInv == \E A, D, U, V \in Nat : RingInv(A, D, U, V)

VirtioInv ==
    /\ TypeOK /\ panic = FALSE
    /\ used_idx # used.idx => isr \/ lk = "intr"
    /\ ChainInv /\ CallInv /\ RingsInv
------------------------------------------------------------------------
(* Remainders, and what fits into a ring. *)

LEMMA Multiple ==
  ASSUME NEW n \in Nat, n > 0, NEW k \in Int, k >= 1
  PROVE  n * k >= n
OBVIOUS

\* Division leaves a remainder below the divisor ...
LEMMA Division ==
  ASSUME NEW n \in Nat, n > 0, NEW x \in Nat
  PROVE  x % n \in 0 .. (n - 1) /\ \E q \in Nat : x = n * q + (x % n)
OBVIOUS

\* ... and no other does.
LEMMA Remainder ==
  ASSUME NEW n \in Nat, n > 0, NEW q \in Nat, NEW r \in 0 .. (n - 1)
  PROVE  (n * q + r) % n = r
<1>1. PICK x \in Nat : x = n * q + r
  OBVIOUS
<1>2. PICK k \in Nat : x = n * k + (x % n)
  BY Division
<1>3. x % n \in 0 .. (n - 1)
  BY Division
<1>4. n * (q - k) = (x % n) - r /\ n * (k - q) = r - (x % n)
  BY <1>1, <1>2, <1>3
<1>5. ~(q - k >= 1) /\ ~(k - q >= 1)
  BY <1>3, <1>4, Multiple
<1>6. q = k
  BY <1>5
<1> QED
  BY <1>1, <1>2, <1>3, <1>6

\* A ring index that wraps counts on.
LEMMA Wraps ==
  ASSUME NEW n \in Nat, n > 0, NEW x \in Nat
  PROVE  ((x % n) + 1) % n = (x + 1) % n
<1>1. PICK q \in Nat : x = n * q + (x % n)
  BY Division
<1>2. x % n \in 0 .. (n - 1)
  BY Division
<1>3. CASE (x % n) + 1 < n
  <2>1. (x % n) + 1 \in 0 .. (n - 1)
    BY <1>2, <1>3
  <2>2. (n * q + ((x % n) + 1)) % n = (x % n) + 1 /\ (n * 0 + ((x % n) + 1)) % n = (x % n) + 1
    BY <2>1, Remainder
  <2>3. n * q + ((x % n) + 1) = x + 1 /\ n * 0 + ((x % n) + 1) = (x % n) + 1
    BY <1>1, <1>2
  <2> QED
    BY <2>2, <2>3
<1>4. CASE (x % n) + 1 = n
  <2>1. (n * 1 + 0) % n = 0 /\ (n * (q + 1) + 0) % n = 0
    BY Remainder
  <2>2. n * 1 + 0 = (x % n) + 1 /\ n * (q + 1) + 0 = x + 1
    BY <1>1, <1>2, <1>4
  <2> QED
    BY <2>1, <2>2
<1> QED
  BY <1>2, <1>3, <1>4

LEMMA WrapsIndex ==
  ASSUME NEW x \in Nat
  PROVE  ((x % UINT16) + 1) % UINT16 = (x + 1) % UINT16 /\ x % UINT16 \in Index
<1>1. UINT16 \in Nat /\ UINT16 > 0
  BY DiskAssumption
<1> QED
  BY Zenon, <1>1, Wraps, Division DEF Index

\* An index modulo UINT16 leads to the same slot as the number it stands for.
LEMMA SlotOf ==
  ASSUME NEW x \in Nat
  PROVE  (x % UINT16) % NUM = x % NUM /\ x % NUM \in Slot
<1>1. NUM \in Nat /\ NUM > 0 /\ UINT16 \in Nat /\ UINT16 > 0 /\ UINT16 % NUM = 0
  BY DiskAssumption
<1>2. PICK q \in Nat : x = UINT16 * q + (x % UINT16)
  BY <1>1, Division
<1>3. PICK k \in Nat : UINT16 = NUM * k
  <2>1. PICK k \in Nat : UINT16 = NUM * k + (UINT16 % NUM)
    BY <1>1, Division
  <2> QED
    BY <1>1, <2>1
<1>4. PICK y \in Nat : y = x % UINT16
  BY <1>1, Division
<1>5. PICK j \in Nat : y = NUM * j + (y % NUM)
  BY Zenon, <1>1, Division
<1>6. y % NUM \in 0 .. (NUM - 1) /\ x % NUM \in 0 .. (NUM - 1)
  BY <1>1, Division
<1>7. PICK w \in Nat : w = k * q + j
  OBVIOUS
<1>8. x = NUM * w + (y % NUM)
  BY <1>1, <1>2, <1>3, <1>4, <1>5, <1>6, <1>7
<1>9. (NUM * w + (y % NUM)) % NUM = y % NUM
  BY <1>1, <1>6, Remainder
<1> QED
  BY Zenon, <1>4, <1>6, <1>8, <1>9 DEF Slot

\* Fewer than NUM entries in a row have slots of their own.
LEMMA Apart ==
  ASSUME NEW x \in Nat, NEW y \in Nat, x < y, y - x < NUM
  PROVE  x % NUM # y % NUM
<1>1. SUFFICES ASSUME x % NUM = y % NUM PROVE FALSE
  OBVIOUS
<1>2. NUM \in Nat /\ NUM > 0
  BY DiskAssumption
<1>3. PICK q \in Nat : x = NUM * q + (x % NUM)
  BY <1>2, Division
<1>4. PICK k \in Nat : y = NUM * k + (y % NUM)
  BY <1>2, Division
<1>5. x % NUM \in 0 .. (NUM - 1)
  BY <1>2, Division
<1>6. y - x = NUM * (k - q)
  BY <1>1, <1>2, <1>3, <1>4, <1>5
<1>7. k - q >= 1
  BY <1>2, <1>6
<1> QED
  BY <1>2, <1>6, <1>7, Multiple

\* The entries of a ring from D up to A differ, and differ from s.
Without(ring, D, A, s) ==
    /\ \A m, n \in D .. (A - 1) : m # n => ring[m % NUM] # ring[n % NUM]
    /\ \A n \in D .. (A - 1) : ring[n % NUM] # s

\* Such a ring has room for one more.
LEMMA Room ==
  ASSUME NEW A \in Nat, NEW D \in Nat, D <= A, NEW ring \in [Slot -> Slot], NEW s \in Slot,
         Without(ring, D, A, s)
  PROVE  A - D < NUM /\ \A n \in D .. (A - 1) : n % NUM # A % NUM
<1> DEFINE f == [n \in D .. (A - 1) |-> ring[n % NUM]]
<1>1. f \in Injection(D .. (A - 1), Slot \ {s})
  <2>1. \A n \in D .. (A - 1) : n % NUM \in Slot
    BY SlotOf
  <2>2. f \in [D .. (A - 1) -> Slot \ {s}]
    BY <2>1 DEF Without
  <2>3. \A m, n \in D .. (A - 1) : f[m] = f[n] => m = n
    BY DEF Without
  <2> QED
    BY <2>2, <2>3 DEF Injection, IsInjective
<1>2. IsFiniteSet(Slot \ {s}) /\ Cardinality(Slot \ {s}) = NUM - 1
  <2>1. IsFiniteSet(Slot) /\ Cardinality(Slot) = NUM
    BY DiskAssumption, FS_Interval DEF Slot
  <2> QED
    BY <2>1, FS_RemoveElement
<1>3. Cardinality(D .. (A - 1)) <= NUM - 1
  <2> HIDE DEF f
  <2> QED
    BY <1>1, <1>2, FS_Injection
<1>4. Cardinality(D .. (A - 1)) = A - D
  <2>1. D \in Int /\ A - 1 \in Int
    OBVIOUS
  <2> QED
    BY <2>1, FS_Interval
<1>5. A - D < NUM
  BY <1>3, <1>4, DiskAssumption
<1>6. ASSUME NEW n \in D .. (A - 1) PROVE n % NUM # A % NUM
  <2>1. n \in Nat /\ n < A /\ A - n < NUM
    BY <1>5, DiskAssumption
  <2> QED
    BY <2>1, Apart
<1> QED
  BY <1>5, <1>6
------------------------------------------------------------------------
(* Requests and their chains. *)

\* The chain of a request in flight, and what the device reads of it.
LEMMA ChainIs ==
  ASSUME NEW b, NEW h \in Slot, NEW j \in Slot, NEW k \in Slot, Formatted(b, h, j, k)
  PROVE  /\ Chain(idx0[b]) = {h, j, k} /\ idx0[b] = h
         /\ Request(b) = [id |-> h, op |-> <<"op", h>>, buf |-> desc[j], status |-> <<"status", h>>]
<1>1. /\ idx0[b] = h /\ desc[h].next = j /\ desc[h].more = TRUE /\ desc[h].addr = <<"op", h>>
      /\ desc[j].next = k /\ desc[j].more = TRUE /\ desc[k].addr = <<"status", h>>
  BY DEF Formatted
<1>2. Chain(h) = {h, j, k}
  BY Zenon, <1>1 DEF Chain
<1>3. Request(b) = [id |-> h, op |-> <<"op", h>>, buf |-> desc[j], status |-> <<"status", h>>]
  BY Zenon, <1>1 DEF Request
<1> QED
  BY Zenon, <1>1, <1>2, <1>3

\* A request is known by the head of its chain.
LEMMA RequestId ==
  \A b : Request(b).id = idx0[b]
BY DEF Request

LEMMA ChainIsNext ==
  ASSUME NEW b, NEW h \in Slot, NEW j \in Slot, NEW k \in Slot, Formatted(b, h, j, k)'
  PROVE  Chain(idx0[b])' = {h, j, k} /\ idx0'[b] = h
BY DEF Formatted, Chain

\* Two requests in flight have different heads, which are not free.
LEMMA Heads ==
  ASSUME ChainInv, NEW b \in InFlight
  PROVE  /\ idx0[b] \in Slot /\ idx0[b] \in Chain(idx0[b]) /\ idx0[b] \notin free /\ info[idx0[b]].b = b
         /\ \A c \in InFlight : c # b => idx0[c] # idx0[b] /\ idx0[c] \notin Chain(idx0[b])
<1>1. PICK h, j, k \in Slot : Formatted(b, h, j, k)
  BY DEF ChainInv
<1>2. h = idx0[b] /\ info[h].b = b
  BY Zenon, <1>1 DEF Formatted
<1>3. \A c : idx0[c] \in Chain(idx0[c])
  BY DEF Chain
<1> QED
  BY ZenonT(30), <1>2, <1>3 DEF ChainInv

\* The step leaves the status and the direction of the request of c alone.
Kept(c) ==
    /\ idx0'[c] = idx0[c] /\ info'[idx0[c]].status = info[idx0[c]].status
    /\ ops'[idx0[c]].type = ops[idx0[c]].type

\* A step that leaves the chain of b alone.
LEMMA SameChain ==
  ASSUME ChainInv, NEW b \in InFlight, idx0'[b] = idx0[b],
         \A s \in Chain(idx0[b]) : desc'[s] = desc[s],
         info'[idx0[b]].b = info[idx0[b]].b, ops'[idx0[b]] = ops[idx0[b]]
  PROVE  /\ \E h, j, k \in Slot : Formatted(b, h, j, k)'
         /\ Chain(idx0[b])' = Chain(idx0[b]) /\ Request(b)' = Request(b)
<1>1. PICK h, j, k \in Slot : Formatted(b, h, j, k)
  BY Zenon DEF ChainInv
<1>2. Chain(idx0[b]) = {h, j, k} /\ idx0[b] = h
  BY ZenonT(30), <1>1, ChainIs
<1>3. desc'[h] = desc[h] /\ desc'[j] = desc[j] /\ desc'[k] = desc[k]
  BY <1>2
<1>4. Formatted(b, h, j, k)'
  BY Zenon, <1>1, <1>2, <1>3 DEF Formatted
<1>5. Chain(idx0[b])' = {h, j, k}
  BY Zenon, <1>4, ChainIsNext
<1>6. Request(b)' = Request(b)
  <2>1. desc[h].next = j /\ desc[j].next = k
    BY <1>1 DEF Formatted
  <2> QED
    BY Zenon, <1>2, <1>3, <2>1 DEF Request
<1> QED
  BY Zenon, <1>2, <1>4, <1>5, <1>6

\* A step that touches no chain.
LEMMA ChainStep ==
  ASSUME ChainInv, UNCHANGED <<desc, free, ops, idx0>>, InFlight' = InFlight,
         \A b \in InFlight : info'[idx0[b]].b = info[idx0[b]].b
  PROVE  ChainInv' /\ \A b \in InFlight : Request(b)' = Request(b)
<1>1. ASSUME NEW b \in InFlight
      PROVE  /\ \E h, j, k \in Slot : Formatted(b, h, j, k)'
             /\ Chain(idx0[b])' = Chain(idx0[b]) /\ Request(b)' = Request(b)
  BY Zenon, SameChain
<1>2. /\ \A b \in InFlight' : (\E h, j, k \in Slot : Formatted(b, h, j, k))'
      /\ \A b \in InFlight' : Chain(idx0[b])' = Chain(idx0[b])
  BY <1>1
<1>3. free' = free
  OBVIOUS
<1>4. ASSUME NEW b \in InFlight', NEW c \in InFlight', b # c
      PROVE  Chain(idx0[b])' \cap Chain(idx0[c])' = {}
  <2>1. Chain(idx0[b])' = Chain(idx0[b]) /\ Chain(idx0[c])' = Chain(idx0[c])
    BY <1>2
  <2>2. Chain(idx0[b]) \cap Chain(idx0[c]) = {}
    BY Zenon, <1>4 DEF ChainInv
  <2> QED
    BY <2>1, <2>2
<1>5. \A b \in InFlight' : Chain(idx0[b])' \cap free' = {}
  BY Zenon, <1>2, <1>3 DEF ChainInv
<1>6. \A s \in Slot : s \in free' \/ \E b \in InFlight' : s \in Chain(idx0[b])'
  BY <1>2, <1>3 DEF ChainInv
<1>7. ChainInv'
  BY Zenon, <1>2, <1>4, <1>5, <1>6 DEF ChainInv
<1> QED
  BY <1>1, <1>7

\* A step that leaves the rings and the requests in them alone.
LEMMA RingStep ==
  ASSUME NEW A \in Nat, NEW D \in Nat, NEW U \in Nat, NEW V \in Nat, RingInv(A, D, U, V),
         UNCHANGED <<avail, used, used_idx, dev>>,
         \A b \in Buf : pc'[b] = "publish" => pc[b] = "publish" /\ idx0'[b] = idx0[b],
         \A b \in Buf : Open(b, 255) => Open(b, 255)' /\ idx0'[b] = idx0[b] /\ Request(b)' = Request(b),
         \A b \in Buf : Open(b, 0) => Open(b, 0)' /\ idx0'[b] = idx0[b]
  PROVE  RingsInv'
<1>1. RingInv(A, D, U, V)'
  BY DEF RingInv
<1> QED
  BY Zenon, <1>1 DEF RingsInv

\* A step that changes at most where processes are, the lock and the interrupt.
LEMMA QuietStep ==
  ASSUME VirtioInv, TypeOK', panic' = FALSE, used_idx # used.idx => isr' \/ lk' = "intr",
         UNCHANGED <<desc, free, info, ops, idx0, bdisk, avail, used, used_idx, dev>>,
         InFlight' = InFlight, \A b \in Buf : pc'[b] = "publish" <=> pc[b] = "publish",
         \A b \in Buf : lk' = b <=> pc'[b] \in {"publish", "notify"}
  PROVE  VirtioInv'
<1>1. ChainInv' /\ \A b \in InFlight : Request(b)' = Request(b)
  BY Zenon, ChainStep DEF VirtioInv
<1>2. CallInv'
  BY DEF VirtioInv, CallInv
<1>3. \A b \in Buf, s \in {0, 255} : Open(b, s) => Open(b, s)' /\ b \in InFlight
  BY Zenon DEF Open
<1>4. PICK A, D, U, V \in Nat : RingInv(A, D, U, V)
  BY Zenon DEF VirtioInv, RingsInv
<1>5. RingsInv'
  BY <1>1, <1>3, <1>4, RingStep
<1> QED
  BY Zenon, <1>1, <1>2, <1>5 DEF VirtioInv
------------------------------------------------------------------------
(* The steps that change no chain and no ring. *)

\* vdisk_lock and the places of the processes.
LEMMA LockPlace ==
  ASSUME VirtioInv
  PROVE  \A c \in Buf : lk = c <=> pc[c] \in {"publish", "notify"}
BY DEF VirtioInv, CallInv

\* alloc3_desc() fails, with or without waking the others.
LEMMA AllocFailInv ==
  ASSUME VirtioInv, NEW b \in Buf, alloc3_fail(b)
  PROVE  VirtioInv'
<1>1. /\ TypeOK /\ CallInv /\ panic = FALSE /\ (used_idx # used.idx => isr \/ lk = "intr")
      /\ pc[b] \in {"in", "out"} /\ lk = Null
      /\ UNCHANGED <<driverVars, ringVars, lk, bdisk, idx0, panic, block, data, devVars>>
  BY Zenon DEF VirtioInv, alloc3_fail
<1>a. pc \in [Buf -> {"idle", "in", "out", "sleep for in", "sleep for out",
                     "publish", "notify", "sleep on b", "woken"}]
  BY Zenon, <1>1 DEF TypeOK
<1>b. \E l \in {"sleep for in", "sleep for out"} : Goto(b, l) \/ WakeDescWaitersThen(b, l)
  BY Zenon DEF alloc3_fail
<1>2. /\ pc' \in [Buf -> {"idle", "in", "out", "sleep for in", "sleep for out",
                           "publish", "notify", "sleep on b", "woken"}]
      /\ \A c \in Buf : pc'[c] = pc[c] \/ (/\ pc[c] \in {"in", "out", "sleep for in", "sleep for out"}
                                           /\ pc'[c] \in {"in", "out", "sleep for in", "sleep for out"})
  BY ZenonT(30), <1>1, <1>a, <1>b DEF Goto, WakeDescWaitersThen
<1>3. TypeOK'
  BY Zenon, <1>1, <1>2 DEF TypeOK, driverVars, ringVars, devVars
<1>4. InFlight' = InFlight /\ \A c \in Buf : pc'[c] = "publish" <=> pc[c] = "publish"
  BY Zenon, <1>2 DEF InFlight
<1>5. \A c \in Buf : lk' = c <=> pc'[c] \in {"publish", "notify"}
  <2>1. lk' = lk
    BY Zenon, <1>1
  <2> QED
    BY Zenon, <1>2, <2>1, LockPlace
<1> QED
  BY Zenon, <1>1, <1>3, <1>4, <1>5, QuietStep DEF driverVars, ringVars, devVars

\* Where a process may go without touching the disk's data structures.
Moves(b) ==
    \/ pc[b] = "idle" /\ pc'[b] \in {"in", "out"}
    \/ pc[b] \in {"sleep for in", "sleep for out"} /\ pc'[b] \in {"in", "out"}
    \/ pc[b] = "sleep on b" /\ pc'[b] = "woken"
    \/ pc[b] = "woken" /\ pc'[b] = "sleep on b"

\* virtio_disk_rw() is called, kill() ends a sleep, or the loop sleeps again.
LEMMA MoveInv ==
  ASSUME VirtioInv, NEW b \in Buf, NEW l, Goto(b, l), Moves(b),
         UNCHANGED <<driverVars, ringVars, lk, bdisk, idx0, panic, block, data, devVars>>
  PROVE  VirtioInv'
<1>1. /\ TypeOK /\ CallInv /\ panic = FALSE /\ (used_idx # used.idx => isr \/ lk = "intr")
      /\ pc' = [pc EXCEPT ![b] = l]
  BY DEF VirtioInv, Goto
<1>2. \A c \in Buf : c # b => pc'[c] = pc[c]
  BY ZenonT(30), <1>1 DEF TypeOK
<1>3. pc'[b] = l /\ l \in {"in", "out", "woken", "sleep on b"}
  BY ZenonT(30), <1>1 DEF TypeOK, Moves
<1>4. TypeOK'
  BY Zenon, <1>1, <1>3 DEF TypeOK, driverVars, ringVars, devVars
<1>5. InFlight' = InFlight /\ \A c \in Buf : pc'[c] = "publish" <=> pc[c] = "publish"
  BY Zenon, <1>2 DEF InFlight, Moves
<1>6. \A c \in Buf : lk' = c <=> pc'[c] \in {"publish", "notify"}
  BY ZenonT(30), <1>1, <1>2 DEF CallInv, Moves
<1> QED
  BY Zenon, <1>1, <1>4, <1>5, <1>6, QuietStep DEF driverVars, ringVars, devVars

\* The process changes the bytes of its buffer.
LEMMA ModifyInv ==
  ASSUME VirtioInv, NEW b \in Buf, NEW d \in Data, modify(b, d)
  PROVE  VirtioInv'
<1>1. /\ TypeOK /\ CallInv /\ panic = FALSE /\ (used_idx # used.idx => isr \/ lk = "intr")
      /\ data' = [data EXCEPT ![b] = d]
      /\ UNCHANGED <<driverVars, ringVars, lk, callVars, panic, block, devVars>>
  BY DEF VirtioInv, modify
<1>2. TypeOK'
  BY Zenon, <1>1 DEF TypeOK, driverVars, ringVars, callVars, devVars
<1>3. InFlight' = InFlight /\ pc' = pc
  BY <1>1 DEF InFlight, callVars
<1>4. \A c \in Buf : lk' = c <=> pc'[c] \in {"publish", "notify"}
  BY <1>1, <1>3 DEF CallInv
<1> QED
  BY Zenon, <1>1, <1>2, <1>3, <1>4, QuietStep DEF driverVars, ringVars, callVars, devVars

\* QUEUE_NOTIFY, and the process sleeps.
LEMMA NotifyInv ==
  ASSUME VirtioInv, NEW b \in Buf, notify(b)
  PROVE  VirtioInv'
<1>1. /\ TypeOK /\ CallInv /\ panic = FALSE /\ (used_idx # used.idx => isr \/ lk = "intr")
      /\ pc[b] = "notify" /\ notified' = TRUE /\ pc' = [pc EXCEPT ![b] = "sleep on b"] /\ lk' = Null
      /\ UNCHANGED <<driverVars, ringVars, bdisk, idx0, panic, block, data, dev, isr>>
  BY Zenon DEF VirtioInv, notify, Goto
<1>2. lk = b /\ pc'[b] = "sleep on b" /\ \A c \in Buf : c # b => pc'[c] = pc[c]
  BY ZenonT(30), <1>1, LockPlace DEF TypeOK
<1>3. TypeOK'
  BY Zenon, <1>1 DEF TypeOK, driverVars, ringVars
<1>4. InFlight' = InFlight /\ \A c \in Buf : pc'[c] = "publish" <=> pc[c] = "publish"
  BY Zenon, <1>1, <1>2 DEF InFlight
<1>5. \A c \in Buf : lk' = c <=> pc'[c] \in {"publish", "notify"}
  BY Zenon, <1>1, <1>2, LockPlace, DiskAssumption
<1>6. used_idx # used.idx => isr'
  BY Zenon, <1>1, <1>2, DiskAssumption
<1> QED
  BY Zenon, <1>1, <1>3, <1>4, <1>5, <1>6, QuietStep DEF driverVars, ringVars

\* The handler starts or ends, or the device has nothing more to take.
LEMMA HandlerInv ==
  ASSUME VirtioInv, intr_ack \/ intr_end \/ dev_idle
  PROVE  VirtioInv'
<1>1. /\ TypeOK /\ CallInv /\ panic = FALSE /\ (used_idx # used.idx => isr \/ lk = "intr")
      /\ UNCHANGED <<driverVars, ringVars, callVars, panic, block, data, dev>>
  BY Zenon DEF VirtioInv, intr_ack, intr_end, dev_idle, devVars
<1>a. lk \in Buf \cup {Null, "intr"} /\ isr \in BOOLEAN /\ notified \in BOOLEAN
  BY Zenon, <1>1 DEF TypeOK
<1>2. /\ lk' \in {lk, Null, "intr"} /\ isr' \in BOOLEAN /\ notified' \in BOOLEAN
      /\ lk' = lk \/ ~(lk \in Buf \/ lk' \in Buf)
      /\ used_idx # used.idx => isr' \/ lk' = "intr"
  BY Zenon, <1>1, <1>a, DiskAssumption DEF intr_ack, intr_end, dev_idle, devVars
<1>3. TypeOK'
  BY ZenonT(30), <1>1, <1>2 DEF TypeOK, driverVars, ringVars, callVars
<1>4. InFlight' = InFlight /\ pc' = pc
  BY Zenon, <1>1 DEF InFlight, callVars
<1>5. \A c \in Buf : lk' = c <=> pc'[c] \in {"publish", "notify"}
  BY <1>1, <1>2, <1>4 DEF CallInv
<1> QED
  BY Zenon, <1>1, <1>2, <1>3, <1>4, <1>5, QuietStep DEF driverVars, ringVars, callVars
------------------------------------------------------------------------
(* The steps that move a request along. *)

\* avail.idx is advanced: the device may take the request.
LEMMA PublishInv ==
  ASSUME VirtioInv, NEW b \in Buf, publish(b)
  PROVE  VirtioInv'
<1>1. /\ TypeOK /\ ChainInv /\ CallInv /\ panic = FALSE /\ (used_idx # used.idx => isr \/ lk = "intr")
      /\ pc[b] = "publish" /\ pc' = [pc EXCEPT ![b] = "notify"]
      /\ avail' = [avail EXCEPT !.idx = (@ + 1) % UINT16]
      /\ UNCHANGED <<driverVars, used, used_idx, lk, bdisk, idx0, panic, block, data, devVars>>
  BY DEF VirtioInv, publish, Goto
<1>2. UNCHANGED <<desc, free, info, ops, used, used_idx, lk, bdisk, idx0, panic, dev, isr>>
  BY <1>1 DEF driverVars, devVars
<1>3. /\ lk = b /\ pc'[b] = "notify"
      /\ \A c \in Buf : c # b => pc'[c] = pc[c] /\ pc[c] \notin {"publish", "notify"}
  BY ZenonT(30), <1>1, LockPlace DEF TypeOK
<1>4. avail.idx \in Index /\ avail.ring \in [Slot -> Slot] /\ avail'.ring = avail.ring
      /\ avail'.idx = (avail.idx + 1) % UINT16 /\ avail' \in Ring
  <2>1. avail \in Ring
    BY Zenon, <1>1 DEF TypeOK
  <2>2. (avail.idx + 1) % UINT16 \in Index
    BY <2>1, DiskAssumption, Division DEF Ring, Index
  <2> QED
    BY <1>1, <2>1, <2>2 DEF Ring
<1>5. TypeOK'
  BY Zenon, <1>1, <1>4 DEF TypeOK, driverVars, devVars
<1>6. InFlight' = InFlight /\ b \in InFlight
  BY Zenon, <1>1, <1>3 DEF InFlight
<1>7. ChainInv' /\ \A c \in InFlight : Request(c)' = Request(c)
  BY <1>1, <1>2, <1>6, ChainStep
<1>8. CallInv'
  <2>1. \A c \in Buf : lk' = c <=> pc'[c] \in {"publish", "notify"}
    BY Zenon, <1>2, <1>3
  <2>2. \A c \in Buf : pc'[c] # "publish"
    BY Zenon, <1>3
  <2> QED
    BY <1>1, <1>2, <1>6, <2>1, <2>2 DEF CallInv
<1>9. PICK A, D, U, V \in Nat : RingInv(A, D, U, V)
  BY Zenon DEF VirtioInv, RingsInv
<1>10. \A c \in Buf, s \in {0, 255} : Open(c, s) => Open(c, s)' /\ c # b /\ c \in InFlight
  BY <1>1, <1>2, <1>3, <1>6 DEF Open
<1>11. Open(b, 255)' /\ avail.ring[A % NUM] = idx0[b]
  BY <1>1, <1>2, <1>3, <1>6, <1>9 DEF Open, CallInv, RingInv
<1>12. \A c \in InFlight : c # b => idx0[c] # idx0[b]
  BY Zenon, <1>1, <1>6, Heads
<1>13. avail'.idx = (A + 1) % UINT16 /\ D <= A + 1 /\ dev'.idx = D % UINT16
       /\ used'.idx = U % UINT16 /\ used_idx' = V % UINT16 /\ V <= U
  <2>1. avail.idx = A % UINT16 /\ D <= A /\ dev.idx = D % UINT16
        /\ used.idx = U % UINT16 /\ used_idx = V % UINT16 /\ V <= U
    BY Zenon, <1>9 DEF RingInv
  <2>2. avail'.idx = (A + 1) % UINT16
    BY Zenon, <1>4, <2>1, WrapsIndex
  <2> QED
    BY <1>2, <2>1, <2>2
<1>14. ASSUME NEW n \in D .. A
       PROVE  \E c \in Buf : Open(c, 255)' /\ avail'.ring[n % NUM] = idx0'[c]
  <2>1. CASE n = A
    BY Zenon, <1>2, <1>4, <1>11, <2>1
  <2>2. CASE n \in D .. (A - 1)
    BY <1>2, <1>4, <1>9, <1>10, <2>2 DEF RingInv
  <2> QED
    BY <2>1, <2>2
<1>15. \A n \in D .. (A - 1) : avail.ring[n % NUM] # idx0[b]
  BY <1>9, <1>10, <1>12 DEF RingInv
<1>16. ASSUME NEW m \in D .. A, NEW n \in D .. A, m # n
       PROVE  avail'.ring[m % NUM] # avail'.ring[n % NUM]
  <2>1. CASE m = A
    BY <1>4, <1>11, <1>15, <1>16, <2>1
  <2>2. CASE n = A
    BY <1>4, <1>11, <1>15, <1>16, <2>2
  <2>3. CASE m # A /\ n # A
    <3>1. m \in D .. (A - 1) /\ n \in D .. (A - 1)
      BY <2>3
    <3> QED
      BY <1>4, <1>9, <1>16, <3>1 DEF RingInv
  <2> QED
    BY Zenon, <2>1, <2>2, <2>3
<1>17. ASSUME NEW r \in dev'.busy
       PROVE  /\ \E c \in Buf : Open(c, 255)' /\ r = Request(c)'
              /\ \A n \in D .. A : avail'.ring[n % NUM] # r.id
  <2>1. PICK c \in Buf : Open(c, 255) /\ r = Request(c)
    BY <1>2, <1>9 DEF RingInv
  <2>2. Open(c, 255)' /\ c # b /\ c \in InFlight /\ r = Request(c)'
    BY <1>7, <1>10, <2>1
  <2>3. r.id = idx0[c] /\ r.id # idx0[b]
    BY Zenon, <1>12, <2>1, <2>2, RequestId
  <2>4. \A n \in D .. (A - 1) : avail.ring[n % NUM] # r.id
    BY Zenon, <1>2, <1>9 DEF RingInv
  <2> QED
    BY <1>4, <1>11, <2>2, <2>3, <2>4
<1>18. /\ \A n \in V .. (U - 1) : \E c \in Buf : Open(c, 0)' /\ used'.ring[n % NUM] = idx0'[c]
       /\ \A m, n \in V .. (U - 1) : m # n => used'.ring[m % NUM] # used'.ring[n % NUM]
  BY <1>2, <1>9, <1>10 DEF RingInv
<1>19. RingInv(A + 1, D, U, V)'
  <2>1. (A + 1) - 1 = A /\ A + 1 \in Nat
    OBVIOUS
  <2>2. \A c \in Buf : pc'[c] # "publish"
    BY Zenon, <1>3
  <2> QED
    BY <1>13, <1>14, <1>16, <1>17, <1>18, <2>1, <2>2 DEF RingInv
<1>20. RingsInv'
  BY <1>19 DEF RingsInv
<1> QED
  BY Zenon, <1>1, <1>2, <1>5, <1>7, <1>8, <1>20 DEF VirtioInv

\* The device takes the next request from the avail ring.
LEMMA TakeInv ==
  ASSUME VirtioInv, dev_take
  PROVE  VirtioInv'
<1> DEFINE h == avail.ring[dev.idx % NUM]
           q == [id |-> h, op |-> desc[h].addr, buf |-> desc[desc[h].next],
                 status |-> desc[desc[desc[h].next].next].addr]
<1>1. /\ TypeOK /\ ChainInv /\ CallInv /\ panic = FALSE /\ (used_idx # used.idx => isr \/ lk = "intr")
      /\ dev.idx # avail.idx
      /\ dev' = [idx |-> (dev.idx + 1) % UINT16, busy |-> dev.busy \cup {q}]
      /\ UNCHANGED <<driverVars, ringVars, lk, callVars, panic, block, data, isr, notified>>
  BY Zenon DEF VirtioInv, dev_take
<1> HIDE DEF q, h
<1>2. UNCHANGED <<desc, free, info, ops, avail, used, used_idx, lk, bdisk, pc, idx0, panic, isr>>
  BY Zenon, <1>1 DEF driverVars, ringVars, callVars
<1>3. PICK A, D, U, V \in Nat : RingInv(A, D, U, V)
  BY DEF VirtioInv, RingsInv
<1>4. avail.idx = A % UINT16 /\ dev.idx = D % UINT16 /\ D <= A
  BY Zenon, <1>3 DEF RingInv
<1>5. D < A /\ D \in D .. (A - 1)
  <2>1. D # A
    BY Zenon, <1>1, <1>4
  <2> QED
    BY <1>4, <2>1
<1>6. h = avail.ring[D % NUM]
  BY Zenon, <1>4, SlotOf DEF h
<1>7. PICK b \in Buf : Open(b, 255) /\ h = idx0[b]
  BY <1>3, <1>5, <1>6 DEF RingInv
<1>8. q = Request(b) /\ q.id = h
  BY Zenon, <1>7 DEF Request, q
<1>9. dev'.idx = (D + 1) % UINT16 /\ dev'.idx \in Index /\ dev'.busy = dev.busy \cup {q}
  <2>1. D + 1 \in Nat
    OBVIOUS
  <2> QED
    BY Zenon, <1>1, <1>4, <2>1, WrapsIndex
<1>10. TypeOK'
  <2>1. avail.ring \in [Slot -> Slot] /\ desc \in [Slot -> Desc] /\ D % NUM \in Slot
    BY Zenon, <1>1, SlotOf DEF TypeOK, Ring
  <2>2. h \in Slot /\ desc[h] \in Desc
    BY Zenon, <1>6, <2>1
  <2>3. desc[h].next \in Slot /\ desc[desc[h].next] \in Desc /\ desc[h].addr \in Addr
    BY Zenon, <2>1, <2>2 DEF Desc
  <2>4. desc[desc[desc[h].next].next].addr \in Addr
    BY Zenon, <2>1, <2>3 DEF Desc
  <2>5. q \in [id : Slot, op : Addr, buf : Desc, status : Addr]
    BY Zenon, <2>2, <2>3, <2>4 DEF q
  <2>6. dev.busy \in SUBSET [id : Slot, op : Addr, buf : Desc, status : Addr]
    BY Zenon, <1>1 DEF TypeOK
  <2>7. dev' \in [idx : Index, busy : SUBSET [id : Slot, op : Addr, buf : Desc, status : Addr]]
    BY Zenon, <1>1, <1>9, <2>5, <2>6
  <2> QED
    BY Zenon, <1>1, <2>7 DEF TypeOK, driverVars, ringVars, callVars
<1>11. InFlight' = InFlight /\ (\A c, s : Open(c, s)' = Open(c, s)) /\ \A c : Request(c)' = Request(c)
  BY Zenon, <1>2 DEF InFlight, Open, Request
<1>12. ChainInv' /\ CallInv'
  BY <1>1, <1>2, <1>11, ChainStep DEF CallInv
<1>13. ASSUME NEW r \in dev'.busy
       PROVE  /\ \E c \in Buf : Open(c, 255)' /\ r = Request(c)'
              /\ \A n \in (D + 1) .. (A - 1) : avail'.ring[n % NUM] # r.id
  <2>1. CASE r = q
    <3>1. \A n \in (D + 1) .. (A - 1) : n \in D .. (A - 1) /\ n # D
      OBVIOUS
    <3>2. \A n \in D .. (A - 1) : n # D => avail.ring[n % NUM] # avail.ring[D % NUM]
      BY <1>3, <1>5 DEF RingInv
    <3>3. \A n \in (D + 1) .. (A - 1) : avail'.ring[n % NUM] # r.id
      BY Zenon, <1>2, <1>6, <1>8, <2>1, <3>1, <3>2
    <3>4. Open(b, 255)' /\ r = Request(b)'
      BY Zenon, <1>7, <1>8, <1>11, <2>1
    <3> QED
      BY Zenon, <3>3, <3>4
  <2>2. CASE r \in dev.busy
    <3>1. \A n \in (D + 1) .. (A - 1) : n \in D .. (A - 1)
      OBVIOUS
    <3> QED
      BY ZenonT(30), <1>2, <1>3, <1>11, <2>2, <3>1 DEF RingInv
  <2> QED
    BY Zenon, <1>9, <2>1, <2>2
<1>14. RingInv(A, D + 1, U, V)'
  <2>1. D + 1 <= A /\ \A n \in (D + 1) .. (A - 1) : n \in D .. (A - 1)
    BY <1>5
  <2> QED
    BY <1>2, <1>3, <1>9, <1>11, <1>13, <2>1 DEF RingInv
<1>15. RingsInv'
  BY <1>14 DEF RingsInv
<1> QED
  BY <1>1, <1>2, <1>10, <1>12, <1>15 DEF VirtioInv

\* virtio_disk_intr() handles the next entry of the used ring.
LEMMA TurnInv ==
  ASSUME VirtioInv, intr_turn
  PROVE  VirtioInv'
<1>1. /\ TypeOK /\ ChainInv /\ CallInv /\ panic = FALSE /\ lk = "intr" /\ used_idx # used.idx
      /\ used_idx' = (used_idx + 1) % UINT16
      /\ UNCHANGED <<driverVars, avail, used, lk, idx0, block, data, devVars>>
  BY Zenon DEF VirtioInv, intr_turn
<1>2. UNCHANGED <<desc, free, info, ops, avail, used, lk, idx0, dev, isr>>
  BY Zenon, <1>1 DEF driverVars, devVars
<1>3. PICK A, D, U, V \in Nat : RingInv(A, D, U, V)
  BY DEF VirtioInv, RingsInv
<1>4. used.idx = U % UINT16 /\ used_idx = V % UINT16 /\ V <= U
  BY Zenon, <1>3 DEF RingInv
<1>5. V < U /\ V \in V .. (U - 1)
  BY <1>1, <1>4
<1>6. PICK b \in Buf : Open(b, 0) /\ used.ring[V % NUM] = idx0[b]
  BY Zenon, <1>3, <1>5 DEF RingInv
<1>7. b \in InFlight /\ info[idx0[b]].status = 0 /\ info[idx0[b]].b = b
  BY Zenon, <1>1, <1>6, Heads DEF Open
<1>8. used.ring[used_idx % NUM] = idx0[b]
  BY Zenon, <1>4, <1>6, SlotOf
<1>9. /\ bdisk' = [bdisk EXCEPT ![b] = 0] /\ panic' = panic
      /\ pc' = [pc EXCEPT ![b] = IF @ = "sleep on b" THEN "woken" ELSE @]
  BY Zenon, <1>7, <1>8, DiskAssumption DEF intr_turn
<1>10. used_idx' = (V + 1) % UINT16 /\ used_idx' \in Index
  <2>1. V + 1 \in Nat
    OBVIOUS
  <2> QED
    BY Zenon, <1>1, <1>4, <2>1, WrapsIndex
<1>11. /\ bdisk' \in [Buf -> {0, 1}]
       /\ pc' \in [Buf -> {"idle", "in", "out", "sleep for in", "sleep for out",
                           "publish", "notify", "sleep on b", "woken"}]
       /\ bdisk'[b] = 0 /\ \A c \in Buf : c # b => bdisk'[c] = bdisk[c] /\ pc'[c] = pc[c]
       /\ (pc[b] = "sleep on b" /\ pc'[b] = "woken") \/ pc'[b] = pc[b]
  BY ZenonT(30), <1>1, <1>9 DEF TypeOK
<1>12. TypeOK'
  BY Zenon, <1>1, <1>9, <1>10, <1>11 DEF TypeOK, driverVars, devVars
<1>13. InFlight' = InFlight
  BY Zenon, <1>11 DEF InFlight
<1>14. \A c \in Buf : pc[c] \notin {"publish", "notify"} /\ pc'[c] \notin {"publish", "notify"}
  <2>1. \A c \in Buf : pc[c] \notin {"publish", "notify"}
    BY Zenon, <1>1, LockPlace, DiskAssumption
  <2> QED
    BY Zenon, <1>11, <2>1
<1>15. ChainInv'
  BY Zenon, <1>1, <1>2, <1>13, ChainStep
<1>16. CallInv'
  <2>1. \A c \in Buf : lk' = c <=> pc'[c] \in {"publish", "notify"}
    BY Zenon, <1>1, <1>2, <1>14, DiskAssumption
  <2>2. \A c \in InFlight' : bdisk'[c] = 0 => info'[idx0'[c]].status = 0
    <3>1. \A c \in InFlight : bdisk[c] = 0 => info[idx0[c]].status = 0
      BY Zenon, <1>1 DEF CallInv
    <3>2. \A c \in InFlight : c # b => bdisk'[c] = bdisk[c]
      BY Zenon, <1>11 DEF InFlight
    <3> QED
      BY Zenon, <1>2, <1>7, <1>13, <3>1, <3>2
  <2> QED
    BY <1>14, <2>1, <2>2 DEF CallInv
<1>17. \A c \in Buf, s \in {0, 255} : Open(c, s) /\ c # b => Open(c, s)'
  BY ZenonT(30), <1>2, <1>11, <1>13 DEF Open
<1>18. \A c : Request(c)' = Request(c)
  BY Zenon, <1>2 DEF Request
<1>19. \A c \in Buf : Open(c, 255) => c # b
  BY <1>7 DEF Open
<1>20. ASSUME NEW n \in (V + 1) .. (U - 1)
       PROVE  \E c \in Buf : Open(c, 0)' /\ used'.ring[n % NUM] = idx0'[c]
  <2>1. n \in V .. (U - 1) /\ n # V
    OBVIOUS
  <2>2. PICK c \in Buf : Open(c, 0) /\ used.ring[n % NUM] = idx0[c]
    BY Zenon, <1>3, <2>1 DEF RingInv
  <2>3. used.ring[n % NUM] # used.ring[V % NUM]
    BY Zenon, <1>3, <1>5, <2>1 DEF RingInv
  <2>4. c # b
    BY Zenon, <1>6, <2>2, <2>3
  <2> QED
    BY <1>2, <1>17, <2>2, <2>4
<1>21. RingInv(A, D, U, V + 1)'
  <2>1. V + 1 <= U /\ \A n \in (V + 1) .. (U - 1) : n \in V .. (U - 1)
    BY <1>5
  <2>2. \A c \in Buf : pc'[c] # "publish"
    BY Zenon, <1>14
  <2>3. \A n \in D .. (A - 1) : \E c \in Buf : Open(c, 255)' /\ avail'.ring[n % NUM] = idx0'[c]
    BY ZenonT(30), <1>2, <1>3, <1>17, <1>19 DEF RingInv
  <2>4. \A r \in dev'.busy : \E c \in Buf : Open(c, 255)' /\ r = Request(c)'
    BY ZenonT(30), <1>2, <1>3, <1>17, <1>18, <1>19 DEF RingInv
  <2> QED
    BY <1>2, <1>3, <1>10, <1>20, <2>1, <2>2, <2>3, <2>4 DEF RingInv
<1>22. RingsInv'
  BY <1>21 DEF RingsInv
<1> QED
  BY Zenon, <1>1, <1>2, <1>9, <1>12, <1>15, <1>16, <1>22 DEF VirtioInv

\* What the device works on is the block, the buffer and the status of an open
\* request.
LEMMA Serves ==
  ASSUME VirtioInv, NEW r \in dev.busy
  PROVE  \E b \in Buf :
            /\ Open(b, 255) /\ r = Request(b)
            /\ r.id = idx0[b] /\ r.op[2] = idx0[b] /\ r.status[2] = idx0[b] /\ r.buf.addr[2] = b
            /\ r.buf.write = (ops[idx0[b]].type = "in") /\ ops[idx0[b]].sector = b
<1>1. PICK A, D, U, V \in Nat : RingInv(A, D, U, V)
  BY Zenon DEF VirtioInv, RingsInv
<1>2. PICK b \in Buf : Open(b, 255) /\ r = Request(b)
  BY Zenon, <1>1 DEF RingInv
<1>3. PICK h, j, k \in Slot : Formatted(b, h, j, k)
  BY ZenonT(30), <1>2 DEF VirtioInv, ChainInv, Open
<1>4. /\ idx0[b] = h
      /\ r = [id |-> h, op |-> <<"op", h>>, buf |-> desc[j], status |-> <<"status", h>>]
  BY Zenon, <1>2, <1>3, ChainIs
<1>5. /\ desc[j].addr = <<"data", b>> /\ desc[j].write = (ops[h].type = "in") /\ ops[h].sector = b
  BY <1>3 DEF Formatted
<1>6. r.id = h /\ r.op = <<"op", h>> /\ r.status = <<"status", h>> /\ r.buf = desc[j]
  BY Zenon, <1>4
<1>7. r.op[2] = h /\ r.status[2] = h
  BY <1>6
<1>8. r.buf.addr[2] = b /\ r.buf.write = (ops[h].type = "in")
  BY <1>5, <1>6
<1> QED
  BY Zenon, <1>2, <1>4, <1>5, <1>6, <1>7, <1>8

\* The block of b is transferred, in the direction of its request.
Transfers(b) ==
    /\ idx0'[b] = idx0[b] /\ info[idx0[b]].status = 255 /\ info'[idx0[b]].status = 0
    /\ IF ops[idx0[b]].type = "in" THEN data' = [data EXCEPT ![b] = block[b]] /\ UNCHANGED block
                                    ELSE block' = [block EXCEPT ![b] = data[b]] /\ UNCHANGED data

\* The device moves the bytes, writes the status and fills an entry of the used
\* ring: there is room for it, and no other request is affected.
LEMMA CompleteInv ==
  ASSUME VirtioInv, NEW r \in dev.busy, dev_complete(r)
  PROVE  VirtioInv' /\ \E b \in InFlight : Transfers(b) /\ \A c \in InFlight : c # b => Kept(c)
<1>1. /\ TypeOK /\ ChainInv /\ CallInv /\ panic = FALSE /\ isr' = TRUE
      /\ info' = [info EXCEPT ![r.status[2]].status = 0]
      /\ used' = [idx |-> (used.idx + 1) % UINT16,
                  ring |-> [used.ring EXCEPT ![used.idx % NUM] = r.id]]
      /\ dev' = [dev EXCEPT !.busy = @ \ {r}]
      /\ UNCHANGED <<desc, free, ops, avail, used_idx, lk, callVars, panic, notified>>
  BY Zenon DEF VirtioInv, dev_complete
<1>2. UNCHANGED <<desc, free, ops, avail, used_idx, lk, bdisk, pc, idx0, panic>>
  BY <1>1 DEF callVars
<1>3. PICK b \in Buf :
            /\ Open(b, 255) /\ r = Request(b)
            /\ r.id = idx0[b] /\ r.op[2] = idx0[b] /\ r.status[2] = idx0[b] /\ r.buf.addr[2] = b
            /\ r.buf.write = (ops[idx0[b]].type = "in") /\ ops[idx0[b]].sector = b
  BY Zenon, Serves
<1>4. /\ b \in InFlight /\ idx0[b] \in Slot /\ info[idx0[b]].status = 255 /\ bdisk[b] = 1 /\ pc[b] # "publish"
      /\ \A c \in InFlight : c # b => idx0[c] # idx0[b]
  BY <1>1, <1>3, Heads DEF Open
<1>5. PICK A, D, U, V \in Nat : RingInv(A, D, U, V)
  BY Zenon DEF VirtioInv, RingsInv
<1>6. used.idx = U % UINT16 /\ V <= U /\ dev.idx = D % UINT16
  BY Zenon, <1>5 DEF RingInv
<1>7. used.ring \in [Slot -> Slot] /\ used.idx \in Index
  BY Zenon, <1>1 DEF TypeOK, Ring
<1>8. /\ dev'.idx = dev.idx /\ dev'.busy = dev.busy \ {r}
      /\ dev' \in [idx : Index, busy : SUBSET [id : Slot, op : Addr, buf : Desc, status : Addr]]
  BY Zenon, <1>1 DEF TypeOK
<1>9. /\ used'.idx = (U + 1) % UINT16 /\ used'.idx \in Index
      /\ used'.ring = [used.ring EXCEPT ![U % NUM] = idx0[b]]
  <2>1. U + 1 \in Nat
    OBVIOUS
  <2> QED
    BY Zenon, <1>1, <1>3, <1>6, <2>1, WrapsIndex, SlotOf
<1>10. used' \in Ring
  <2>1. used'.ring \in [Slot -> Slot]
    <3>1. U % NUM \in Slot
      BY Zenon, SlotOf
    <3> QED
      BY <1>4, <1>7, <1>9, <3>1
  <2> QED
    BY Zenon, <1>1, <1>9, <2>1 DEF Ring
<1>11. /\ info' \in [Slot -> [b : Buf \cup {Null}, status : {0, 255}]]
       /\ \A s \in Slot : info'[s].b = info[s].b
       /\ info'[idx0[b]].status = 0 /\ \A s \in Slot : s # idx0[b] => info'[s] = info[s]
  <2>1. info \in [Slot -> [b : Buf \cup {Null}, status : {0, 255}]]
    BY Zenon, <1>1 DEF TypeOK
  <2>2. info' = [info EXCEPT ![idx0[b]].status = 0]
    BY Zenon, <1>1, <1>3
  <2> QED
    BY <1>4, <2>1, <2>2
<1>12. block' \in [Buf -> Data] /\ data' \in [Buf -> Data]
  <2>1. block \in [Buf -> Data] /\ data \in [Buf -> Data]
    BY Zenon, <1>1 DEF TypeOK
  <2>2. IF r.buf.write THEN data' = [data EXCEPT ![b] = block[b]] /\ UNCHANGED block
                       ELSE block' = [block EXCEPT ![b] = data[b]] /\ UNCHANGED data
    BY <1>3 DEF dev_complete
  <2> QED
    BY Zenon, <2>1, <2>2
<1>13. TypeOK'
  BY Zenon, <1>1, <1>8, <1>10, <1>11, <1>12 DEF TypeOK, callVars
<1>14. InFlight' = InFlight /\ \A c \in InFlight : idx0[c] \in Slot
  BY ZenonT(30), <1>1, <1>2 DEF InFlight, TypeOK
<1>15. ChainInv' /\ \A c \in InFlight : Request(c)' = Request(c)
  BY Zenon, <1>1, <1>2, <1>11, <1>14, ChainStep
<1>16. CallInv'
  <2>1. \A c \in InFlight : bdisk[c] = 0 => info[idx0[c]].status = 0
    BY Zenon, <1>1 DEF CallInv
  <2>2. \A c \in InFlight : bdisk[c] = 0 => info'[idx0[c]].status = 0
    BY <1>4, <1>11, <1>14, <2>1
  <2>3. \A c \in Buf : pc[c] = "publish" =>
          c \in InFlight /\ c # b /\ bdisk[c] = 1 /\ info[idx0[c]].status = 255
    BY ZenonT(30), <1>1, <1>4 DEF CallInv, InFlight
  <2>4. \A c \in Buf : pc[c] = "publish" => bdisk[c] = 1 /\ info'[idx0[c]].status = 255
    BY <1>4, <1>11, <1>14, <2>3
  <2> QED
    BY <1>2, <1>14, <2>2, <2>4, LockPlace DEF CallInv
<1>17. ASSUME NEW c \in Buf, NEW s \in {0, 255}, Open(c, s), c # b
       PROVE  c \in InFlight /\ idx0[c] # idx0[b] /\ Open(c, s)'
  <2>1. c \in InFlight /\ pc[c] # "publish" /\ bdisk[c] = 1 /\ info[idx0[c]].status = s
    BY Zenon, <1>17 DEF Open
  <2>2. info'[idx0[c]] = info[idx0[c]] /\ idx0[c] # idx0[b]
    BY ZenonT(30), <1>4, <1>11, <1>14, <1>17, <2>1
  <2> QED
    BY <1>2, <1>14, <2>1, <2>2 DEF Open
<1>18. Open(b, 0)' /\ ~Open(b, 0)
  BY <1>2, <1>4, <1>11, <1>14 DEF Open
<1>19. ASSUME NEW n \in D .. (A - 1)
       PROVE  \E c \in Buf : Open(c, 255)' /\ avail'.ring[n % NUM] = idx0'[c]
  <2>1. PICK c \in Buf : Open(c, 255) /\ avail.ring[n % NUM] = idx0[c]
    BY Zenon, <1>5 DEF RingInv
  <2>2. avail.ring[n % NUM] # idx0[b]
    BY ZenonT(30), <1>3, <1>5 DEF RingInv
  <2> QED
    BY <1>2, <1>17, <2>1, <2>2
<1>20. ASSUME NEW q \in dev'.busy
       PROVE  \E c \in Buf : Open(c, 255)' /\ q = Request(c)'
  <2>1. q \in dev.busy /\ q # r
    BY Zenon, <1>8
  <2>2. PICK c \in Buf : Open(c, 255) /\ q = Request(c)
    BY Zenon, <1>5, <2>1 DEF RingInv
  <2>3. c # b
    BY Zenon, <1>3, <2>1, <2>2
  <2> QED
    BY <1>15, <1>17, <2>2, <2>3
<1>21. \A n \in V .. (U - 1) : used.ring[n % NUM] # idx0[b]
  BY <1>5, <1>17, <1>18 DEF RingInv
<1>22. \A m, n \in V .. (U - 1) : m # n => used.ring[m % NUM] # used.ring[n % NUM]
  BY Zenon, <1>5 DEF RingInv
<1>23. \A n \in V .. (U - 1) : n % NUM # U % NUM
  <2>1. PICK ring \in [Slot -> Slot] : ring = used.ring
    BY Zenon, <1>7
  <2>2. PICK s \in Slot : s = idx0[b]
    BY Zenon, <1>4
  <2>3. Without(ring, V, U, s)
    BY Zenon, <1>21, <1>22, <2>1, <2>2 DEF Without
  <2> QED
    BY Zenon, <1>6, <2>3, Room
<1>24. used'.ring[U % NUM] = idx0[b] /\ \A n \in V .. (U - 1) : used'.ring[n % NUM] = used.ring[n % NUM]
  <2>1. U % NUM \in Slot /\ \A n \in V .. (U - 1) : n % NUM \in Slot
    BY SlotOf
  <2> QED
    BY Zenon, <1>7, <1>9, <1>23, <2>1
<1>25. \A n \in V .. U : n = U \/ n \in V .. (U - 1)
  OBVIOUS
<1>26. ASSUME NEW n \in V .. U
       PROVE  \E c \in Buf : Open(c, 0)' /\ used'.ring[n % NUM] = idx0'[c]
  <2>1. CASE n = U
    BY Zenon, <1>2, <1>18, <1>24, <2>1
  <2>2. CASE n \in V .. (U - 1)
    <3>1. PICK c \in Buf : Open(c, 0) /\ used.ring[n % NUM] = idx0[c]
      BY Zenon, <1>5, <2>2 DEF RingInv
    <3> QED
      BY ZenonT(30), <1>2, <1>17, <1>18, <1>24, <2>2, <3>1
  <2> QED
    BY Zenon, <1>25, <2>1, <2>2
<1>27. \A m, n \in V .. U : m # n => used'.ring[m % NUM] # used'.ring[n % NUM]
  BY Zenon, <1>21, <1>22, <1>24, <1>25
<1>28. RingInv(A, D, U + 1, V)'
  <2>1. (U + 1) - 1 = U /\ V <= U + 1
    BY <1>6
  <2>2. /\ avail'.idx = A % UINT16 /\ dev'.idx = D % UINT16 /\ D <= A /\ used_idx' = V % UINT16
        /\ \A c \in Buf : pc'[c] = "publish" => avail'.ring[A % NUM] = idx0'[c]
        /\ \A m, n \in D .. (A - 1) : m # n => avail'.ring[m % NUM] # avail'.ring[n % NUM]
        /\ \A q \in dev'.busy, n \in D .. (A - 1) : avail'.ring[n % NUM] # q.id
    BY ZenonT(30), <1>2, <1>5, <1>8 DEF RingInv
  <2> QED
    BY Zenon, <1>9, <1>19, <1>20, <1>26, <1>27, <2>1, <2>2 DEF RingInv
<1>29. RingsInv'
  <2>1. U + 1 \in Nat
    OBVIOUS
  <2> QED
    BY Zenon, <1>28, <2>1 DEF RingsInv
<1>30. Transfers(b)
  <2>1. IF r.buf.write THEN data' = [data EXCEPT ![b] = block[b]] /\ UNCHANGED block
                       ELSE block' = [block EXCEPT ![b] = data[b]] /\ UNCHANGED data
    BY <1>3 DEF dev_complete
  <2> QED
    BY ZenonT(30), <1>2, <1>3, <1>4, <1>11, <2>1 DEF Transfers
<1>31. \A c \in InFlight : c # b => Kept(c)
  BY <1>2, <1>4, <1>11, <1>14 DEF Kept
<1>32. VirtioInv'
  BY Zenon, <1>1, <1>2, <1>13, <1>15, <1>16, <1>29 DEF VirtioInv
<1> QED
  BY <1>4, <1>30, <1>31, <1>32

\* The chains of the requests in flight of which the step leaves the
\* descriptors and the book-keeping alone.
LEMMA OtherChains ==
  ASSUME ChainInv, NEW b,
         \A c \in InFlight : c # b => /\ idx0'[c] = idx0[c]
                                      /\ \A s \in Chain(idx0[c]) : desc'[s] = desc[s]
                                      /\ info'[idx0[c]] = info[idx0[c]] /\ ops'[idx0[c]] = ops[idx0[c]]
  PROVE  \A c \in InFlight : c # b => /\ (\E h, j, k \in Slot : Formatted(c, h, j, k))'
                                      /\ Chain(idx0[c])' = Chain(idx0[c]) /\ Request(c)' = Request(c)
<1>1. ASSUME NEW c \in InFlight, c # b
      PROVE  /\ (\E h, j, k \in Slot : Formatted(c, h, j, k))'
             /\ Chain(idx0[c])' = Chain(idx0[c]) /\ Request(c)' = Request(c)
  BY Zenon, <1>1, SameChain
<1> QED
  BY Zenon, <1>1

\* Three free descriptors become the chain of b, whose head goes into the avail
\* ring: there is room for it behind the entries that wait.
LEMMA FormatInv ==
  ASSUME VirtioInv, NEW b \in Buf, format(b)
  PROVE  /\ VirtioInv' /\ \A c \in InFlight : Kept(c)
         /\ info'[idx0'[b]].status = 255 /\ ops'[idx0'[b]].type = pc[b]
<1>1. /\ TypeOK /\ ChainInv /\ CallInv /\ panic = FALSE /\ (used_idx # used.idx => isr \/ lk = "intr")
      /\ pc[b] \in {"in", "out"} /\ lk = Null /\ lk' = b
      /\ bdisk' = [bdisk EXCEPT ![b] = 1] /\ pc' = [pc EXCEPT ![b] = "publish"]
      /\ UNCHANGED <<used, used_idx, panic, block, data, devVars>>
  BY Zenon DEF VirtioInv, format, Goto
<1>2. PICK i0, i1, i2 \in free :
        /\ alloc3_desc(i0, i1, i2)
        /\ free' = free \ {i0, i1, i2}
        /\ ops' = [ops EXCEPT ![i0] = [type |-> pc[b], sector |-> b]]
        /\ desc' = [desc EXCEPT
             ![i0] = [addr |-> <<"op", i0>>, write |-> FALSE, more |-> TRUE, next |-> i1],
             ![i1] = [addr |-> <<"data", b>>, write |-> (pc[b] = "in"), more |-> TRUE, next |-> i2],
             ![i2] = [addr |-> <<"status", i0>>, write |-> TRUE, more |-> FALSE, next |-> 0]]
        /\ info' = [info EXCEPT ![i0] = [b |-> b, status |-> 255]]
        /\ avail' = [avail EXCEPT !.ring[avail.idx % NUM] = i0]
        /\ idx0' = [idx0 EXCEPT ![b] = i0]
  BY Zenon DEF format
<1>3. /\ desc \in [Slot -> Desc] /\ free \subseteq Slot /\ idx0 \in [Buf -> Slot]
      /\ info \in [Slot -> [b : Buf \cup {Null}, status : {0, 255}]]
      /\ ops \in [Slot -> [type : {"in", "out"}, sector : Buf \cup {Null}]]
      /\ avail \in Ring /\ avail.ring \in [Slot -> Slot] /\ bdisk \in [Buf -> {0, 1}]
      /\ pc \in [Buf -> {"idle", "in", "out", "sleep for in", "sleep for out",
                         "publish", "notify", "sleep on b", "woken"}]
  BY Zenon, <1>1 DEF TypeOK, Ring
<1>4. i0 \in Slot /\ i1 \in Slot /\ i2 \in Slot /\ i0 # i1 /\ i0 # i2 /\ i1 # i2 /\ 0 \in Slot
  <2>1. i0 \in Slot /\ i1 \in Slot /\ i2 \in Slot
    BY Zenon, <1>3
  <2>2. i0 # i1 /\ i0 # i2 /\ i1 # i2
    BY <1>2 DEF alloc3_desc, alloc_desc
  <2>3. 0 \in Slot
    BY DiskAssumption DEF Slot
  <2> QED
    BY Zenon, <2>1, <2>2, <2>3
<1>5. /\ desc'[i0] = [addr |-> <<"op", i0>>, write |-> FALSE, more |-> TRUE, next |-> i1]
      /\ desc'[i1] = [addr |-> <<"data", b>>, write |-> (pc[b] = "in"), more |-> TRUE, next |-> i2]
      /\ desc'[i2] = [addr |-> <<"status", i0>>, write |-> TRUE, more |-> FALSE, next |-> 0]
      /\ \A s \in Slot : s \notin {i0, i1, i2} => desc'[s] = desc[s]
  BY ZenonT(30), <1>2, <1>3, <1>4
<1>6. /\ info'[i0] = [b |-> b, status |-> 255] /\ ops'[i0] = [type |-> pc[b], sector |-> b]
      /\ \A s \in Slot : s # i0 => info'[s] = info[s] /\ ops'[s] = ops[s]
      /\ idx0'[b] = i0 /\ bdisk'[b] = 1 /\ pc'[b] = "publish"
      /\ \A c \in Buf : c # b => idx0'[c] = idx0[c] /\ bdisk'[c] = bdisk[c] /\ pc'[c] = pc[c]
  <2>1. /\ info'[i0] = [b |-> b, status |-> 255] /\ \A s \in Slot : s # i0 => info'[s] = info[s]
    BY ZenonT(60), <1>2, <1>3, <1>4
  <2>2. /\ ops'[i0] = [type |-> pc[b], sector |-> b] /\ \A s \in Slot : s # i0 => ops'[s] = ops[s]
    BY Zenon, <1>2, <1>3, <1>4
  <2>3. /\ idx0'[b] = i0 /\ bdisk'[b] = 1 /\ pc'[b] = "publish"
        /\ \A c \in Buf : c # b => idx0'[c] = idx0[c] /\ bdisk'[c] = bdisk[c] /\ pc'[c] = pc[c]
    BY ZenonT(30), <1>1, <1>2, <1>3
  <2> QED
    BY ZenonT(30), <2>1, <2>2, <2>3
<1>7. PICK A, D, U, V \in Nat : RingInv(A, D, U, V)
  BY Zenon DEF VirtioInv, RingsInv
<1>8. avail.idx = A % UINT16 /\ D <= A /\ avail.idx % NUM = A % NUM /\ A % NUM \in Slot
  <2>1. avail.idx = A % UINT16 /\ D <= A
    BY Zenon, <1>7 DEF RingInv
  <2> QED
    BY Zenon, <2>1, SlotOf
<1>9. avail'.idx = avail.idx /\ avail'.ring = [avail.ring EXCEPT ![A % NUM] = i0] /\ avail' \in Ring
  <2>1. PICK a \in Slot : a = A % NUM
    BY Zenon, <1>8
  <2>2. avail' = [avail EXCEPT !.ring[a] = i0]
    BY Zenon, <1>2, <1>8, <2>1
  <2> QED
    BY Zenon, <1>3, <1>4, <2>1, <2>2 DEF Ring
<1>10. TypeOK'
  <2>1. /\ desc'[i0] \in Desc /\ desc'[i1] \in Desc /\ desc'[i2] \in Desc
    BY <1>4, <1>5 DEF Desc, Addr
  <2>2. desc' \in [Slot -> Desc]
    <3>1. desc' = [s \in Slot |-> desc'[s]]
      BY Zenon, <1>2, <1>3
    <3>2. \A s \in Slot : desc'[s] \in Desc
      BY Zenon, <1>3, <1>5, <2>1
    <3> QED
      BY Zenon, <3>1, <3>2
  <2>3. /\ info' \in [Slot -> [b : Buf \cup {Null}, status : {0, 255}]]
        /\ ops' \in [Slot -> [type : {"in", "out"}, sector : Buf \cup {Null}]]
    BY ZenonT(30), <1>1, <1>2, <1>3, <1>4
  <2>4. /\ idx0' \in [Buf -> Slot] /\ bdisk' \in [Buf -> {0, 1}] /\ free' \subseteq Slot
        /\ pc' \in [Buf -> {"idle", "in", "out", "sleep for in", "sleep for out",
                            "publish", "notify", "sleep on b", "woken"}]
    BY Zenon, <1>1, <1>2, <1>3, <1>4
  <2> QED
    BY Zenon, <1>1, <1>9, <2>2, <2>3, <2>4 DEF TypeOK, devVars
<1>11. b \notin InFlight /\ InFlight' = InFlight \cup {b}
  <2>1. b \notin InFlight /\ b \in InFlight'
    BY Zenon, <1>1, <1>6 DEF InFlight
  <2>2. \A c \in Buf : c # b => pc'[c] = pc[c]
    BY ZenonT(30), <1>6
  <2> QED
    BY Zenon, <2>1, <2>2 DEF InFlight
<1>12. \A c \in InFlight : /\ c \in Buf /\ c # b /\ idx0[c] \in Slot /\ idx0[c] \notin free
                           /\ Chain(idx0[c]) \cap free = {} /\ Chain(idx0[c]) \subseteq Slot
  <2>1. ASSUME NEW c \in InFlight
        PROVE  /\ c \in Buf /\ c # b /\ idx0[c] \in Slot /\ idx0[c] \notin free
               /\ Chain(idx0[c]) \cap free = {} /\ Chain(idx0[c]) \subseteq Slot
    <3>1. c \in Buf /\ c # b
      BY Zenon, <1>11 DEF InFlight
    <3>2. PICK h, j, k \in Slot : Formatted(c, h, j, k)
      BY Zenon, <1>1 DEF ChainInv
    <3>3. Chain(idx0[c]) = {h, j, k}
      BY Zenon, <3>2, ChainIs
    <3>4. idx0[c] \in Slot /\ idx0[c] \notin free
      BY Zenon, <1>1, Heads
    <3>5. Chain(idx0[c]) \cap free = {}
      BY Zenon, <1>1 DEF ChainInv
    <3> QED
      BY Zenon, <3>1, <3>3, <3>4, <3>5
  <2> QED
    BY Zenon, <2>1
<1>13. \A c \in InFlight : c # b => /\ idx0'[c] = idx0[c]
                                    /\ \A s \in Chain(idx0[c]) : desc'[s] = desc[s]
                                    /\ info'[idx0[c]] = info[idx0[c]] /\ ops'[idx0[c]] = ops[idx0[c]]
  <2>1. ASSUME NEW c \in InFlight
        PROVE  /\ idx0'[c] = idx0[c] /\ \A s \in Chain(idx0[c]) : desc'[s] = desc[s]
               /\ info'[idx0[c]] = info[idx0[c]] /\ ops'[idx0[c]] = ops[idx0[c]]
    <3>1. \A s \in Chain(idx0[c]) : s \in Slot /\ s \notin {i0, i1, i2}
      BY Zenon, <1>12
    <3>2. c \in Buf /\ c # b /\ idx0[c] \in Slot /\ idx0[c] # i0
      BY Zenon, <1>12
    <3> QED
      BY ZenonT(60), <1>5, <1>6, <3>1, <3>2
  <2> QED
    BY Zenon, <2>1
<1>14. \A c \in InFlight : /\ (\E h, j, k \in Slot : Formatted(c, h, j, k))'
                           /\ Chain(idx0[c])' = Chain(idx0[c]) /\ Request(c)' = Request(c)
  BY ZenonT(30), <1>1, <1>12, <1>13, OtherChains
<1>15. Formatted(b, i0, i1, i2)' /\ Chain(idx0[b])' = {i0, i1, i2}
  <2>1. /\ i0 = idx0'[b] /\ pc[b] = ops'[i0].type
        /\ info'[i0].b = b /\ ops'[i0].sector = b
    BY <1>6
  <2>2. desc'[i1] = [addr |-> <<"data", b>>, write |-> (ops'[i0].type = "in"), more |-> TRUE, next |-> i2]
    BY Zenon, <1>5, <2>1
  <2>3. Formatted(b, i0, i1, i2)'
    BY Zenon, <1>4, <1>5, <2>1, <2>2 DEF Formatted
  <2> QED
    BY Zenon, <1>4, <2>3, ChainIsNext
<1>16. ChainInv'
  <2>1. \A c \in InFlight' : (\E h, j, k \in Slot : Formatted(c, h, j, k))'
    BY Zenon, <1>4, <1>11, <1>14, <1>15
  <2>2. ASSUME NEW c \in InFlight', NEW d \in InFlight', c # d
        PROVE  Chain(idx0[c])' \cap Chain(idx0[d])' = {}
    <3>1. CASE c = b
      BY Zenon, <1>2, <1>11, <1>12, <1>14, <1>15, <2>2, <3>1
    <3>2. CASE d = b
      BY <1>2, <1>11, <1>12, <1>14, <1>15, <2>2, <3>2
    <3>3. CASE c # b /\ d # b
      <4>1. Chain(idx0[c]) \cap Chain(idx0[d]) = {} /\ c \in InFlight /\ d \in InFlight
        BY Zenon, <1>1, <1>11, <2>2, <3>3 DEF ChainInv
      <4> QED
        BY Zenon, <1>14, <4>1
    <3> QED
      BY Zenon, <3>1, <3>2, <3>3
  <2>3. \A c \in InFlight' : Chain(idx0[c])' \cap free' = {}
    BY Zenon, <1>2, <1>11, <1>12, <1>14, <1>15
  <2>4. ASSUME NEW s \in Slot PROVE s \in free' \/ \E c \in InFlight' : s \in Chain(idx0[c])'
    <3>1. CASE s \in {i0, i1, i2}
      BY Zenon, <1>11, <1>15, <3>1
    <3>2. CASE s \notin {i0, i1, i2} /\ s \in free
      BY Zenon, <1>2, <3>2
    <3>3. CASE s \notin free
      <4>1. PICK c \in InFlight : s \in Chain(idx0[c])
        BY Zenon, <1>1, <3>3 DEF ChainInv
      <4> QED
        BY Zenon, <1>11, <1>14, <4>1
    <3> QED
      BY Zenon, <3>1, <3>2, <3>3
  <2> QED
    BY Zenon, <2>1, <2>2, <2>3, <2>4 DEF ChainInv
<1>17. CallInv'
  <2>1. \A c \in Buf : lk' = c <=> pc'[c] \in {"publish", "notify"}
    <3>1. \A c \in Buf : pc[c] \notin {"publish", "notify"}
      BY Zenon, <1>1, LockPlace, DiskAssumption
    <3> QED
      BY ZenonT(30), <1>1, <1>6, <3>1
  <2>2. \A c \in InFlight : bdisk[c] = 0 => info[idx0[c]].status = 0
    BY Zenon, <1>1 DEF CallInv
  <2>3. \A c \in InFlight' : bdisk'[c] = 0 => info'[idx0'[c]].status = 0
    BY <1>6, <1>11, <1>12, <1>13, <2>2
  <2>4. \A c \in Buf : pc'[c] = "publish" => bdisk'[c] = 1 /\ info'[idx0'[c]].status = 255
    <3>1. \A c \in Buf : pc'[c] = "publish" => c = b
      BY Zenon, <1>1, <2>1
    <3> QED
      BY <1>6, <3>1
  <2> QED
    BY Zenon, <2>1, <2>3, <2>4 DEF CallInv
<1>18. ASSUME NEW c \in Buf, NEW s \in {0, 255}, Open(c, s)
       PROVE  Open(c, s)' /\ c \in InFlight /\ c # b /\ idx0'[c] = idx0[c] /\ idx0[c] # i0
  <2>1. c \in InFlight /\ pc[c] # "publish" /\ bdisk[c] = 1 /\ info[idx0[c]].status = s
    BY Zenon, <1>18 DEF Open
  <2>2. c # b /\ idx0'[c] = idx0[c] /\ info'[idx0[c]] = info[idx0[c]] /\ idx0[c] # i0
    BY <1>2, <1>12, <1>13, <2>1
  <2>3. pc'[c] = pc[c] /\ bdisk'[c] = bdisk[c]
    BY ZenonT(30), <1>6, <2>2
  <2> QED
    BY ZenonT(30), <1>11, <2>1, <2>2, <2>3 DEF Open
<1>19. \A n \in D .. (A - 1) : n % NUM # A % NUM
  <2>1. PICK ring \in [Slot -> Slot] : ring = avail.ring
    BY Zenon, <1>3
  <2>2. Without(ring, D, A, i0)
    BY <1>7, <1>18, <2>1 DEF Without, RingInv
  <2> QED
    BY Zenon, <1>4, <1>8, <2>2, Room
<1>20. avail'.ring[A % NUM] = i0 /\ \A n \in D .. (A - 1) : avail'.ring[n % NUM] = avail.ring[n % NUM]
  <2>1. \A n \in D .. (A - 1) : n % NUM \in Slot
    BY SlotOf
  <2> QED
    BY ZenonT(30), <1>3, <1>8, <1>9, <1>19, <2>1
<1>21. RingInv(A, D, U, V)'
  <2>1. UNCHANGED <<used, used_idx, dev>>
    BY Zenon, <1>1 DEF devVars
  <2>2. \A c \in Buf : pc'[c] = "publish" => avail'.ring[A % NUM] = idx0'[c]
    BY ZenonT(30), <1>1, <1>6, <1>17, <1>20 DEF CallInv
  <2>3. \A n \in D .. (A - 1) : \E c \in Buf : Open(c, 255)' /\ avail'.ring[n % NUM] = idx0'[c]
    BY <1>7, <1>18, <1>20 DEF RingInv
  <2>4. \A m, n \in D .. (A - 1) : m # n => avail'.ring[m % NUM] # avail'.ring[n % NUM]
    BY <1>7, <1>20 DEF RingInv
  <2>5. /\ \A r \in dev'.busy : \E c \in Buf : Open(c, 255)' /\ r = Request(c)'
        /\ \A r \in dev'.busy, n \in D .. (A - 1) : avail'.ring[n % NUM] # r.id
    <3>1. /\ \A r \in dev.busy : \E c \in Buf : Open(c, 255) /\ r = Request(c)
          /\ \A r \in dev.busy, n \in D .. (A - 1) : avail.ring[n % NUM] # r.id
      BY Zenon, <1>7 DEF RingInv
    <3>2. ASSUME NEW r \in dev'.busy PROVE \E c \in Buf : Open(c, 255)' /\ r = Request(c)'
      <4>1. PICK c \in Buf : Open(c, 255) /\ r = Request(c)
        BY Zenon, <2>1, <3>1
      <4> QED
        BY Zenon, <1>14, <1>18, <4>1
    <3> QED
      BY Zenon, <1>20, <2>1, <3>1, <3>2
  <2>6. \A n \in V .. (U - 1) : \E c \in Buf : Open(c, 0)' /\ used'.ring[n % NUM] = idx0'[c]
    BY <1>7, <1>18, <2>1 DEF RingInv
  <2> QED
    BY ZenonT(30), <1>7, <1>9, <2>1, <2>2, <2>3, <2>4, <2>5, <2>6 DEF RingInv
<1>22. RingsInv'
  BY Zenon, <1>21 DEF RingsInv
<1>23. used_idx' # used'.idx => isr'
  BY Zenon, <1>1, DiskAssumption DEF devVars
<1>24. VirtioInv'
  BY Zenon, <1>1, <1>10, <1>16, <1>17, <1>22, <1>23 DEF VirtioInv
<1>25. \A c \in InFlight : Kept(c)
  BY Zenon, <1>12, <1>13 DEF Kept
<1> QED
  BY <1>6, <1>24, <1>25

\* wakeup(&disk.free[0]) moves processes only to where they try again.
LEMMA Woken ==
  ASSUME NEW b \in Buf, WakeDescWaitersThen(b, "idle"),
         pc \in [Buf -> {"idle", "in", "out", "sleep for in", "sleep for out",
                         "publish", "notify", "sleep on b", "woken"}]
  PROVE  /\ pc' \in [Buf -> {"idle", "in", "out", "sleep for in", "sleep for out",
                             "publish", "notify", "sleep on b", "woken"}]
         /\ pc'[b] = "idle"
         /\ \A c \in Buf : c # b => \/ pc'[c] = pc[c]
                                    \/ pc[c] = "sleep for in" /\ pc'[c] = "in"
                                    \/ pc[c] = "sleep for out" /\ pc'[c] = "out"
BY Zenon DEF WakeDescWaitersThen

\* The request is done: its three descriptors, and no others, become free.
LEMMA FreeInv ==
  ASSUME VirtioInv, NEW b \in Buf, finish(b), bdisk[b] # 1
  PROVE  VirtioInv' /\ \A c \in InFlight : c # b => Kept(c)
<1>1. /\ TypeOK /\ ChainInv /\ CallInv /\ panic = FALSE /\ (used_idx # used.idx => isr \/ lk = "intr")
      /\ pc[b] = "woken" /\ lk = Null
      /\ info' = [info EXCEPT ![idx0[b]].b = Null]
      /\ desc' = [k \in Slot |-> IF k \in Chain(idx0[b]) THEN NoDesc ELSE desc[k]]
      /\ free' = free \cup Chain(idx0[b])
      /\ panic' = (free \cap Chain(idx0[b]) # {})
      /\ idx0' = [idx0 EXCEPT ![b] = 0]
      /\ WakeDescWaitersThen(b, "idle")
      /\ UNCHANGED <<ops, ringVars, lk, bdisk, block, data, devVars>>
  BY Zenon DEF VirtioInv, finish, free_chain
<1>2. UNCHANGED <<ops, avail, used, used_idx, lk, bdisk, dev, isr>>
  BY <1>1 DEF ringVars, devVars
<1>3. /\ desc \in [Slot -> Desc] /\ free \subseteq Slot /\ idx0 \in [Buf -> Slot]
      /\ info \in [Slot -> [b : Buf \cup {Null}, status : {0, 255}]]
      /\ pc \in [Buf -> {"idle", "in", "out", "sleep for in", "sleep for out",
                         "publish", "notify", "sleep on b", "woken"}]
  BY Zenon, <1>1 DEF TypeOK
<1>4. /\ pc' \in [Buf -> {"idle", "in", "out", "sleep for in", "sleep for out",
                          "publish", "notify", "sleep on b", "woken"}]
      /\ pc'[b] = "idle"
      /\ \A c \in Buf : c # b => \/ pc'[c] = pc[c]
                                 \/ pc[c] = "sleep for in" /\ pc'[c] = "in"
                                 \/ pc[c] = "sleep for out" /\ pc'[c] = "out"
  BY Zenon, <1>1, <1>3, Woken
<1>5. b \in InFlight /\ InFlight' = InFlight \ {b}
  <2>1. b \in InFlight /\ b \notin InFlight'
    BY Zenon, <1>1, <1>4 DEF InFlight
  <2>2. \A c \in Buf : c # b => (c \in InFlight' <=> c \in InFlight)
    BY Zenon, <1>4 DEF InFlight
  <2>3. InFlight \subseteq Buf /\ InFlight' \subseteq Buf
    BY Zenon DEF InFlight
  <2> QED
    BY Zenon, <2>1, <2>2, <2>3
<1>6. /\ idx0[b] \in Slot /\ panic' = FALSE /\ Chain(idx0[b]) \subseteq Slot
      /\ \A c \in InFlight : c # b => idx0[c] # idx0[b] /\ idx0[c] \in Slot
  <2>1. PICK h, j, k \in Slot : Formatted(b, h, j, k)
    BY Zenon, <1>1, <1>5 DEF ChainInv
  <2>2. Chain(idx0[b]) = {h, j, k}
    BY Zenon, <2>1, ChainIs
  <2>3. Chain(idx0[b]) \cap free = {}
    BY Zenon, <1>1, <1>5 DEF ChainInv
  <2>4. /\ idx0[b] \in Slot /\ \A c \in InFlight : c # b => idx0[c] # idx0[b] /\ idx0[c] \in Slot
    BY <1>1, <1>5, Heads
  <2> QED
    BY Zenon, <1>1, <2>2, <2>3, <2>4
<1>7. /\ idx0' \in [Buf -> Slot] /\ \A c \in Buf : c # b => idx0'[c] = idx0[c]
      /\ info' \in [Slot -> [b : Buf \cup {Null}, status : {0, 255}]]
      /\ \A s \in Slot : s # idx0[b] => info'[s] = info[s]
  <2>1. 0 \in Slot
    BY DiskAssumption DEF Slot
  <2>2. /\ info' \in [Slot -> [b : Buf \cup {Null}, status : {0, 255}]]
        /\ \A s \in Slot : s # idx0[b] => info'[s] = info[s]
    <3>1. PICK h \in Slot : h = idx0[b]
      BY Zenon, <1>6
    <3>2. info' = [info EXCEPT ![h].b = Null]
      BY <1>1, <3>1
    <3>3. info \in [Slot -> [b : Buf \cup {Null}, status : {0, 255}]]
      BY Zenon, <1>3
    <3> QED
      BY <3>1, <3>2, <3>3
  <2> QED
    BY ZenonT(60), <1>1, <1>3, <2>1, <2>2
<1>8. TypeOK'
  <2>1. NoDesc \in Desc
    BY DiskAssumption DEF NoDesc, Desc, Addr, Slot
  <2>2. desc' \in [Slot -> Desc] /\ free' \subseteq Slot
    BY Zenon, <1>1, <1>3, <1>6, <2>1
  <2> QED
    BY Zenon, <1>1, <1>4, <1>6, <1>7, <2>2 DEF TypeOK, ringVars, devVars
<1>9. ASSUME NEW c \in InFlight, c # b
      PROVE  /\ c \in Buf /\ idx0'[c] = idx0[c] /\ \A s \in Chain(idx0[c]) : desc'[s] = desc[s]
             /\ info'[idx0[c]] = info[idx0[c]] /\ ops'[idx0[c]] = ops[idx0[c]]
  <2>1. PICK h, j, k \in Slot : Formatted(c, h, j, k)
    BY <1>1 DEF ChainInv
  <2>2. Chain(idx0[c]) = {h, j, k}
    BY Zenon, <2>1, ChainIs
  <2>3. Chain(idx0[c]) \cap Chain(idx0[b]) = {}
    BY Zenon, <1>1, <1>5, <1>9 DEF ChainInv
  <2>4. \A s \in Chain(idx0[c]) : desc'[s] = desc[s]
    BY Zenon, <1>1, <2>2, <2>3
  <2>5. c \in Buf /\ idx0'[c] = idx0[c]
    BY Zenon, <1>7, <1>9 DEF InFlight
  <2>6. info'[idx0[c]] = info[idx0[c]] /\ ops'[idx0[c]] = ops[idx0[c]]
    BY Zenon, <1>2, <1>6, <1>7, <1>9
  <2> QED
    BY Zenon, <2>4, <2>5, <2>6
<1>10. \A c \in InFlight : c # b => /\ (\E h, j, k \in Slot : Formatted(c, h, j, k))'
                                    /\ Chain(idx0[c])' = Chain(idx0[c]) /\ Request(c)' = Request(c)
  BY Zenon, <1>1, <1>9, OtherChains
<1>11. ChainInv'
  <2>1. \A c \in InFlight' : (\E h, j, k \in Slot : Formatted(c, h, j, k))'
    BY Zenon, <1>5, <1>10
  <2>2. ASSUME NEW c \in InFlight', NEW d \in InFlight', c # d
        PROVE  Chain(idx0[c])' \cap Chain(idx0[d])' = {}
    <3>1. Chain(idx0[c]) \cap Chain(idx0[d]) = {}
      BY Zenon, <1>1, <1>5, <2>2 DEF ChainInv
    <3> QED
      BY Zenon, <1>5, <1>10, <3>1
  <2>3. ASSUME NEW c \in InFlight' PROVE Chain(idx0[c])' \cap free' = {}
    <3>1. Chain(idx0[c]) \cap free = {} /\ Chain(idx0[c]) \cap Chain(idx0[b]) = {}
      BY Zenon, <1>1, <1>5 DEF ChainInv
    <3> QED
      BY Zenon, <1>1, <1>5, <1>10, <3>1
  <2>4. ASSUME NEW s \in Slot PROVE s \in free' \/ \E c \in InFlight' : s \in Chain(idx0[c])'
    <3>1. s \in free \/ \E c \in InFlight : s \in Chain(idx0[c])
      BY Zenon, <1>1 DEF ChainInv
    <3> QED
      BY Zenon, <1>1, <1>5, <1>10, <3>1
  <2> QED
    BY Zenon, <2>1, <2>2, <2>3, <2>4 DEF ChainInv
<1>12. \A c \in Buf : pc[c] \notin {"publish", "notify"} /\ pc'[c] \notin {"publish", "notify"}
  <2>1. \A c \in Buf : pc[c] \notin {"publish", "notify"}
    BY <1>1, LockPlace, DiskAssumption
  <2> QED
    BY Zenon, <1>4, <2>1
<1>13. CallInv'
  <2>1. \A c \in Buf : lk' = c <=> pc'[c] \in {"publish", "notify"}
    BY <1>1, <1>2, <1>12, DiskAssumption
  <2>2. \A c \in InFlight : bdisk[c] = 0 => info[idx0[c]].status = 0
    BY <1>1 DEF CallInv
  <2>3. \A c \in InFlight' : bdisk'[c] = 0 => info'[idx0'[c]].status = 0
    BY <1>2, <1>5, <1>9, <2>2
  <2> QED
    BY Zenon, <1>12, <2>1, <2>3 DEF CallInv
<1>14. ASSUME NEW c \in Buf, NEW s \in {0, 255}, Open(c, s)
       PROVE  Open(c, s)' /\ idx0'[c] = idx0[c] /\ Request(c)' = Request(c)
  <2>1. c \in InFlight /\ c # b /\ bdisk[c] = 1 /\ info[idx0[c]].status = s
    BY Zenon, <1>14 DEF Open
  <2>2. idx0'[c] = idx0[c] /\ info'[idx0[c]] = info[idx0[c]]
    BY ZenonT(30), <1>9, <2>1
  <2>3. Request(c)' = Request(c)
    BY Zenon, <1>10, <2>1
  <2> QED
    BY ZenonT(30), <1>2, <1>5, <1>12, <2>1, <2>2, <2>3 DEF Open
<1>15. PICK A, D, U, V \in Nat : RingInv(A, D, U, V)
  BY Zenon DEF VirtioInv, RingsInv
<1>16. RingsInv'
  BY ZenonT(30), <1>2, <1>12, <1>14, <1>15, RingStep
<1>17. VirtioInv'
  BY Zenon, <1>1, <1>2, <1>6, <1>8, <1>11, <1>13, <1>16 DEF VirtioInv
<1>18. \A c \in InFlight : c # b => Kept(c)
  BY Zenon, <1>9 DEF Kept
<1> QED
  BY Zenon, <1>17, <1>18
------------------------------------------------------------------------
\* virtio_disk_init() leaves all descriptors free and the rings empty.
LEMMA VirtioInit ==
  Init => VirtioInv
<1> SUFFICES ASSUME Init PROVE VirtioInv
  OBVIOUS
<1>1. /\ desc = [k \in Slot |-> NoDesc] /\ free = Slot
      /\ info = [k \in Slot |-> [b |-> Null, status |-> 0]]
      /\ ops = [k \in Slot |-> [type |-> "in", sector |-> Null]]
      /\ avail = NoRing /\ used = NoRing /\ used_idx = 0 /\ lk = Null
      /\ bdisk = [b \in Buf |-> 0] /\ pc = [b \in Buf |-> "idle"] /\ idx0 = [b \in Buf |-> 0]
      /\ panic = FALSE /\ block \in [Buf -> Data] /\ data \in [Buf -> Data]
      /\ dev = [idx |-> 0, busy |-> {}] /\ isr = FALSE /\ notified = FALSE
  BY Zenon DEF Init
<1>2. 0 \in Slot /\ 0 \in Index /\ NoRing \in Ring /\ NoDesc \in Desc
  BY DiskAssumption DEF Slot, Index, NoRing, Ring, NoDesc, Desc, Addr
<1>3. TypeOK
  <2>1. dev \in [idx : Index, busy : SUBSET [id : Slot, op : Addr, buf : Desc, status : Addr]]
    BY Zenon, <1>1, <1>2
  <2>2. desc \in [Slot -> Desc] /\ bdisk \in [Buf -> {0, 1}] /\ idx0 \in [Buf -> Slot]
    BY Zenon, <1>1, <1>2
  <2>3. info \in [Slot -> [b : Buf \cup {Null}, status : {0, 255}]]
    BY Zenon, <1>1
  <2>4. ops \in [Slot -> [type : {"in", "out"}, sector : Buf \cup {Null}]]
    BY Zenon, <1>1
  <2> QED
    BY Zenon, <1>1, <1>2, <2>1, <2>2, <2>3, <2>4 DEF TypeOK
<1>4. InFlight = {} /\ (\A b \in Buf : pc[b] = "idle") /\ used.idx = 0 /\ avail.idx = 0
  BY Zenon, <1>1 DEF InFlight, NoRing
<1>5. ChainInv /\ CallInv
  BY Zenon, <1>1, <1>4, DiskAssumption DEF ChainInv, CallInv
<1>6. RingInv(0, 0, 0, 0)
  <2>1. 0 % UINT16 = 0 /\ 0 .. (0 - 1) = {}
    BY DiskAssumption
  <2> QED
    BY <1>1, <1>4, <2>1 DEF RingInv
<1> QED
  BY Zenon, <1>1, <1>3, <1>4, <1>5, <1>6 DEF VirtioInv, RingsInv

\* Every step keeps the invariant.
LEMMA VirtioNext ==
  VirtioInv /\ [Next]_vars => VirtioInv'
<1> SUFFICES ASSUME VirtioInv, [Next]_vars PROVE VirtioInv'
  BY Zenon
<1>1. ASSUME NEW b \in Buf, rw(b) PROVE VirtioInv'
  <2>1. CASE alloc3_fail(b)
    BY Zenon, <2>1, AllocFailInv
  <2>2. CASE format(b)
    BY Zenon, <2>2, FormatInv
  <2>3. CASE finish(b) /\ bdisk[b] = 1
    <3>1. Goto(b, "sleep on b") /\ pc[b] = "woken" /\ UNCHANGED <<info, desc, free, panic, idx0>>
      BY Zenon, <2>3 DEF finish
    <3>2. UNCHANGED <<driverVars, ringVars, lk, bdisk, idx0, panic, block, data, devVars>>
      BY Zenon, <2>3, <3>1 DEF finish, driverVars
    <3>3. Moves(b)
      <4>1. pc \in [Buf -> {"idle", "in", "out", "sleep for in", "sleep for out",
                            "publish", "notify", "sleep on b", "woken"}]
        BY Zenon DEF VirtioInv, TypeOK
      <4> QED
        BY Zenon, <3>1, <4>1 DEF Moves, Goto
    <3> QED
      BY Zenon, <3>1, <3>2, <3>3, MoveInv
  <2>4. CASE finish(b) /\ bdisk[b] # 1
    BY Zenon, <2>4, FreeInv
  <2> QED
    BY Zenon, <1>1, <2>1, <2>2, <2>3, <2>4 DEF rw
<1>2. ASSUME NEW b \in Buf, kill(b) PROVE VirtioInv'
  <2>1. PICK l \in {"woken", "in", "out"} :
           /\ Goto(b, l) /\ pc[b] \in {"sleep on b", "sleep for in", "sleep for out"}
           /\ l = "woken" <=> pc[b] = "sleep on b"
    BY Zenon, <1>2 DEF kill
  <2>2. pc \in [Buf -> {"idle", "in", "out", "sleep for in", "sleep for out",
                        "publish", "notify", "sleep on b", "woken"}]
    BY Zenon DEF VirtioInv, TypeOK
  <2>3. Moves(b)
    BY Zenon, <2>1, <2>2 DEF Moves, Goto
  <2>4. UNCHANGED <<driverVars, ringVars, lk, bdisk, idx0, panic, block, data, devVars>>
    BY Zenon, <1>2 DEF kill
  <2> QED
    BY Zenon, <2>1, <2>3, <2>4, MoveInv
<1>3. ASSUME NEW b \in Buf, NEW dir \in {"in", "out"}, virtio_disk_rw(b, dir) PROVE VirtioInv'
  <2>1. /\ Goto(b, dir) /\ pc[b] = "idle"
        /\ UNCHANGED <<driverVars, ringVars, lk, bdisk, idx0, panic, block, data, devVars>>
    BY Zenon, <1>3 DEF virtio_disk_rw
  <2>2. Moves(b)
    BY ZenonT(60), <2>1 DEF Moves, Goto, VirtioInv, TypeOK
  <2> QED
    BY Zenon, <2>1, <2>2, MoveInv
<1>4. CASE intr
  BY Zenon, <1>4, HandlerInv, TurnInv DEF intr
<1>5. CASE device
  BY Zenon, <1>5, TakeInv, HandlerInv, CompleteInv DEF device
<1>6. CASE UNCHANGED vars
  <2>1. UNCHANGED <<driverVars, ringVars, lk, callVars, panic, block, data, devVars>>
    BY Zenon, <1>6 DEF vars
  <2>2. TypeOK'
    BY Zenon, <2>1 DEF VirtioInv, TypeOK, driverVars, ringVars, callVars, devVars
  <2>3. InFlight' = InFlight /\ pc' = pc
    BY Zenon, <2>1 DEF InFlight, callVars
  <2>4. \A c \in Buf : lk' = c <=> pc'[c] \in {"publish", "notify"}
    BY Zenon, <2>1, <2>3, LockPlace
  <2>5. panic = FALSE /\ (used_idx # used.idx => isr \/ lk = "intr")
    BY Zenon DEF VirtioInv
  <2> QED
    BY Zenon, <2>1, <2>2, <2>3, <2>4, <2>5, QuietStep DEF driverVars, ringVars, callVars, devVars
<1> QED
  BY Zenon, <1>1, <1>2, <1>3, <1>4, <1>5, <1>6, PublishInv, NotifyInv, ModifyInv DEF Next

\* Three different descriptors.
LEMMA Three ==
  ASSUME NEW x, NEW y, NEW z, x # y, x # z, y # z
  PROVE  Cardinality({x, y, z}) = 3
<1>1. IsFiniteSet({x}) /\ Cardinality({x}) = 1
  BY Zenon, FS_Singleton
<1>2. IsFiniteSet({x} \cup {y}) /\ Cardinality({x} \cup {y}) = 2
  BY <1>1, FS_AddElement
<1>3. Cardinality(({x} \cup {y}) \cup {z}) = 3
  BY <1>2, FS_AddElement
<1>4. ({x} \cup {y}) \cup {z} = {x, y, z}
  BY Zenon
<1> QED
  BY Zenon, <1>3, <1>4

\* virtio_disk_rw(), virtio_disk_intr() and the device share no descriptor and
\* lose none, free none twice, find each completed request with its buffer, and
\* leave no entry of the used ring without an interrupt that will find it.
THEOREM DescriptorsKept == Spec => []DescOwned
<1>1. Init => VirtioInv
  BY VirtioInit
<1>2. VirtioInv /\ [Next]_vars => VirtioInv'
  BY VirtioNext
<1>3. VirtioInv => DescOwned
  <2> SUFFICES ASSUME VirtioInv PROVE DescOwned
    OBVIOUS
  <2>1. TypeOK /\ ChainInv /\ panic = FALSE /\ (used_idx # used.idx => isr \/ lk = "intr")
    BY Zenon DEF VirtioInv
  <2>2. ASSUME NEW b \in InFlight
        PROVE  Cardinality(Chain(idx0[b])) = 3 /\ Chain(idx0[b]) \subseteq Slot
    <3>1. PICK h, j, k \in Slot : Formatted(b, h, j, k)
      BY Zenon, <2>1 DEF ChainInv
    <3>2. Chain(idx0[b]) = {h, j, k}
      BY Zenon, <3>1, ChainIs
    <3>3. h # j /\ h # k /\ j # k
      BY Zenon, <3>1 DEF Formatted
    <3>4. Cardinality({h, j, k}) = 3
      BY Zenon, <3>3, Three
    <3> QED
      BY Zenon, <3>2, <3>4
  <2>3. free = Slot \ UNION {Chain(idx0[b]) : b \in InFlight}
    <3>1. \A b \in InFlight : Chain(idx0[b]) \cap free = {}
      BY Zenon, <2>1 DEF ChainInv
    <3>2. \A s \in Slot : s \in free \/ \E b \in InFlight : s \in Chain(idx0[b])
      BY Zenon, <2>1 DEF ChainInv
    <3>3. free \subseteq Slot
      BY Zenon, <2>1 DEF TypeOK
    <3> QED
      BY Zenon, <3>1, <3>2, <3>3
  <2>4. \A b, c \in InFlight : b # c => Chain(idx0[b]) \cap Chain(idx0[c]) = {}
    BY Zenon, <2>1 DEF ChainInv
  <2> QED
    BY Zenon, <2>1, <2>2, <2>3, <2>4 DEF DescOwned
<1> QED
  BY <1>1, <1>2, <1>3, PTL DEF Spec
------------------------------------------------------------------------
(* The driver and the device together transfer each block once. *)

\* The phase of a call, by where its process is.
LEMMA PhaseIs ==
  ASSUME NEW c \in Buf
  PROVE  /\ pc[c] \in {"idle", "in", "out"} => phase[c] = pc[c]
         /\ pc[c] = "sleep for in" => phase[c] = "in"
         /\ pc[c] = "sleep for out" => phase[c] = "out"
BY Zenon DEF phase

LEMMA FlightPhase ==
  ASSUME NEW c \in InFlight
  PROVE  /\ info[idx0[c]].status = 0 => phase[c] = "done"
         /\ info[idx0[c]].status # 0 => phase[c] = ops[idx0[c]].type
BY Zenon DEF phase, InFlight

LEMMA PhaseIsNext ==
  ASSUME NEW c \in Buf
  PROVE  /\ pc'[c] \in {"idle", "in", "out"} => phase'[c] = pc'[c]
         /\ pc'[c] = "sleep for in" => phase'[c] = "in"
         /\ pc'[c] = "sleep for out" => phase'[c] = "out"
BY Zenon DEF phase

LEMMA FlightPhaseNext ==
  ASSUME NEW c \in InFlight'
  PROVE  /\ info'[idx0'[c]].status = 0 => phase'[c] = "done"
         /\ info'[idx0'[c]].status # 0 => phase'[c] = ops'[idx0'[c]].type
BY Zenon DEF phase, InFlight

\* The step leaves c where it is, as far as its caller can tell.
Same(c) ==
    \/ pc'[c] = pc[c] /\ c \notin InFlight
    \/ pc[c] \in {"in", "sleep for in"} /\ pc'[c] \in {"in", "sleep for in"}
    \/ pc[c] \in {"out", "sleep for out"} /\ pc'[c] \in {"out", "sleep for out"}
    \/ c \in InFlight /\ c \in InFlight' /\ Kept(c)

LEMMA SamePhase ==
  ASSUME TypeOK, NEW c \in Buf, Same(c)
  PROVE  phase'[c] = phase[c]
<1>1. pc[c] \in {"idle", "in", "out", "sleep for in", "sleep for out",
                 "publish", "notify", "sleep on b", "woken"}
  BY Zenon DEF TypeOK
<1>2. CASE pc'[c] = pc[c] /\ c \notin InFlight
  <2>1. pc[c] \in {"idle", "in", "out", "sleep for in", "sleep for out"}
    BY Zenon, <1>1, <1>2 DEF InFlight
  <2> QED
    BY Zenon, <1>2, <2>1, PhaseIs, PhaseIsNext
<1>3. CASE pc[c] \in {"in", "sleep for in"} /\ pc'[c] \in {"in", "sleep for in"}
  BY Zenon, <1>3, PhaseIs, PhaseIsNext
<1>4. CASE pc[c] \in {"out", "sleep for out"} /\ pc'[c] \in {"out", "sleep for out"}
  BY Zenon, <1>4, PhaseIs, PhaseIsNext
<1>5. CASE c \in InFlight /\ c \in InFlight' /\ Kept(c)
  <2>1. /\ info'[idx0'[c]].status = info[idx0[c]].status /\ ops'[idx0'[c]].type = ops[idx0[c]].type
    BY Zenon, <1>5 DEF Kept
  <2> QED
    BY Zenon, <1>5, <2>1, FlightPhase, FlightPhaseNext
<1> QED
  BY Zenon, <1>2, <1>3, <1>4, <1>5 DEF Same

\* What the step does to the phases.
LEMMA PhaseStep ==
  ASSUME TypeOK, NEW b \in Buf, NEW l, phase'[b] = l, \A c \in Buf : c # b => Same(c)
  PROVE  phase' = [phase EXCEPT ![b] = l]
<1>1. phase = [c \in Buf |-> phase[c]] /\ phase' = [c \in Buf |-> phase'[c]]
  BY Zenon DEF phase
<1>2. \A c \in Buf : c # b => phase'[c] = phase[c]
  BY Zenon, SamePhase
<1> QED
  BY Zenon, <1>1, <1>2

LEMMA NoPhaseStep ==
  ASSUME TypeOK, \A c \in Buf : Same(c) \/ phase'[c] = phase[c]
  PROVE  phase' = phase
<1>1. phase = [c \in Buf |-> phase[c]] /\ phase' = [c \in Buf |-> phase'[c]]
  BY Zenon DEF phase
<1>2. \A c \in Buf : phase'[c] = phase[c]
  BY Zenon, SamePhase
<1> QED
  BY Zenon, <1>1, <1>2

\* A step that leaves the book-keeping alone and moves no process in or out of
\* its call.
LEMMA QuietPhase ==
  ASSUME TypeOK, UNCHANGED <<info, ops, idx0, block, data>>,
         \A c \in Buf : \/ pc'[c] = pc[c]
                        \/ c \in InFlight /\ c \in InFlight'
                        \/ pc[c] \in {"in", "sleep for in"} /\ pc'[c] \in {"in", "sleep for in"}
                        \/ pc[c] \in {"out", "sleep for out"} /\ pc'[c] \in {"out", "sleep for out"}
  PROVE  UNCHANGED <<block, data, phase>>
<1>1. \A c : Kept(c)
  BY Zenon DEF Kept
<1>2. ASSUME NEW c \in Buf PROVE Same(c)
  <2>1. pc'[c] = pc[c] /\ c \in InFlight => c \in InFlight'
    BY Zenon DEF InFlight
  <2> QED
    BY Zenon, <1>1, <2>1 DEF Same
<1> QED
  BY Zenon, <1>2, NoPhaseStep

\* Each step of the driver or of the device is one step of the block device, or
\* none.
LEMMA DeviceStep ==
  VirtioInv /\ [Next]_vars => [Device!Next]_<<block, data, phase>>
<1> SUFFICES ASSUME VirtioInv, [Next]_vars PROVE Device!Next \/ UNCHANGED <<block, data, phase>>
  BY Zenon
<1>0. /\ TypeOK /\ ChainInv /\ CallInv
      /\ pc \in [Buf -> {"idle", "in", "out", "sleep for in", "sleep for out",
                         "publish", "notify", "sleep on b", "woken"}]
  BY Zenon DEF VirtioInv, TypeOK
<1>1. ASSUME NEW b \in Buf, alloc3_fail(b) PROVE UNCHANGED <<block, data, phase>>
  <2>1. /\ pc[b] \in {"in", "out"}
        /\ LET l == IF pc[b] = "in" THEN "sleep for in" ELSE "sleep for out"
           IN Goto(b, l) \/ WakeDescWaitersThen(b, l)
        /\ UNCHANGED <<info, ops, idx0, block, data>>
    BY Zenon, <1>1 DEF alloc3_fail, driverVars
  <2>2. \A c \in Buf : \/ pc'[c] = pc[c]
                       \/ c \in InFlight /\ c \in InFlight'
                       \/ pc[c] \in {"in", "sleep for in"} /\ pc'[c] \in {"in", "sleep for in"}
                       \/ pc[c] \in {"out", "sleep for out"} /\ pc'[c] \in {"out", "sleep for out"}
    BY Zenon, <1>0, <2>1 DEF Goto, WakeDescWaitersThen
  <2> QED
    BY Zenon, <1>0, <2>1, <2>2, QuietPhase
<1>2. ASSUME NEW b \in Buf, format(b) PROVE UNCHANGED <<block, data, phase>>
  <2>1. /\ pc[b] \in {"in", "out"} /\ pc' = [pc EXCEPT ![b] = "publish"] /\ UNCHANGED <<block, data>>
    BY Zenon, <1>2 DEF format, Goto
  <2>2. /\ \A c \in InFlight : Kept(c)
        /\ info'[idx0'[b]].status = 255 /\ ops'[idx0'[b]].type = pc[b]
    BY Zenon, <1>2, FormatInv
  <2>3. pc'[b] = "publish" /\ \A c \in Buf : c # b => pc'[c] = pc[c]
    BY Zenon, <1>0, <2>1
  <2>4. phase'[b] = phase[b]
    <3>1. b \in InFlight'
      BY Zenon, <2>3 DEF InFlight
    <3>2. info'[idx0'[b]].status # 0
      BY <2>2
    <3>3. phase'[b] = ops'[idx0'[b]].type
      BY Zenon, <3>1, <3>2, FlightPhaseNext
    <3>4. phase[b] = pc[b]
      BY Zenon, <2>1, PhaseIs
    <3> QED
      BY Zenon, <2>2, <3>3, <3>4
  <2>5. ASSUME NEW c \in Buf, c # b PROVE Same(c)
    <3>1. c \in InFlight => c \in InFlight'
      BY Zenon, <2>3, <2>5 DEF InFlight
    <3> QED
      BY ZenonT(30), <2>2, <2>3, <2>5, <3>1 DEF Same
  <2> QED
    BY Zenon, <1>0, <2>1, <2>4, <2>5, NoPhaseStep
<1>3. ASSUME NEW b \in Buf, finish(b), bdisk[b] = 1 PROVE UNCHANGED <<block, data, phase>>
  <2>1. /\ pc' = [pc EXCEPT ![b] = "sleep on b"] /\ pc[b] = "woken"
        /\ UNCHANGED <<info, ops, idx0, block, data>>
    BY Zenon, <1>3 DEF finish, Goto
  <2>2. /\ \A c \in Buf : pc'[c] = pc[c] \/ c = b
        /\ b \in InFlight /\ b \in InFlight'
    BY Zenon, <1>0, <2>1 DEF InFlight
  <2> QED
    BY Zenon, <1>0, <2>1, <2>2, QuietPhase
<1>4. ASSUME NEW b \in Buf, finish(b), bdisk[b] # 1 PROVE Device!Return(b)
  <2>1. /\ pc[b] = "woken" /\ WakeDescWaitersThen(b, "idle") /\ UNCHANGED <<block, data>>
    BY Zenon, <1>4 DEF finish
  <2>2. /\ pc'[b] = "idle"
        /\ \A c \in Buf : c # b => \/ pc'[c] = pc[c]
                                   \/ pc[c] = "sleep for in" /\ pc'[c] = "in"
                                   \/ pc[c] = "sleep for out" /\ pc'[c] = "out"
    BY Zenon, <1>0, <2>1, Woken
  <2>3. \A c \in InFlight : c # b => Kept(c)
    BY Zenon, <1>4, FreeInv
  <2>4. phase[b] = "done"
    <3>1. b \in InFlight /\ bdisk[b] = 0
      BY Zenon, <1>0, <1>4, <2>1 DEF InFlight, TypeOK
    <3>2. info[idx0[b]].status = 0
      BY ZenonT(30), <1>0, <3>1 DEF CallInv
    <3> QED
      BY Zenon, <3>1, <3>2, FlightPhase
  <2>5. ASSUME NEW c \in Buf, c # b PROVE Same(c)
    <3>1. c \in InFlight => c \in InFlight'
      BY Zenon, <2>2, <2>5 DEF InFlight
    <3> QED
      BY Zenon, <2>2, <2>3, <2>5, <3>1 DEF Same
  <2>6. phase'[b] = "idle"
    BY Zenon, <2>2, PhaseIsNext
  <2>7. phase' = [phase EXCEPT ![b] = "idle"]
    BY Zenon, <1>0, <2>5, <2>6, PhaseStep
  <2> QED
    BY Zenon, <2>1, <2>4, <2>7 DEF Device!Return
<1>5. ASSUME NEW b \in Buf, publish(b) \/ notify(b) \/ kill(b) PROVE UNCHANGED <<block, data, phase>>
  <2>1. UNCHANGED <<info, ops, idx0, block, data>>
    BY Zenon, <1>5 DEF publish, notify, kill, driverVars
  <2>2. /\ \A c \in Buf : c # b => pc'[c] = pc[c]
        /\ \/ pc[b] \in {"publish", "notify", "sleep on b"} /\ pc'[b] \in {"notify", "sleep on b", "woken"}
           \/ pc[b] = "sleep for in" /\ pc'[b] = "in"
           \/ pc[b] = "sleep for out" /\ pc'[b] = "out"
    BY Zenon, <1>0, <1>5 DEF publish, notify, kill, Goto
  <2>3. \A c \in Buf : \/ pc'[c] = pc[c]
                       \/ c \in InFlight /\ c \in InFlight'
                       \/ pc[c] \in {"in", "sleep for in"} /\ pc'[c] \in {"in", "sleep for in"}
                       \/ pc[c] \in {"out", "sleep for out"} /\ pc'[c] \in {"out", "sleep for out"}
    BY Zenon, <2>2 DEF InFlight
  <2> QED
    BY Zenon, <1>0, <2>1, <2>3, QuietPhase
<1>6. ASSUME NEW b \in Buf, NEW d \in Data, modify(b, d) PROVE Device!Modify(b, d)
  <2>1. /\ pc[b] = "idle" /\ data' = [data EXCEPT ![b] = d] /\ UNCHANGED <<info, ops, pc, idx0, block>>
    BY Zenon, <1>6 DEF modify, driverVars, callVars
  <2>2. phase[b] = "idle" /\ phase' = phase
    BY Zenon, <2>1, PhaseIs DEF phase
  <2> QED
    BY Zenon, <2>1, <2>2 DEF Device!Modify
<1>7. ASSUME NEW b \in Buf, NEW dir \in {"in", "out"}, virtio_disk_rw(b, dir) PROVE Device!Call(b, dir)
  <2>1. pc[b] = "idle" /\ pc' = [pc EXCEPT ![b] = dir] /\ UNCHANGED <<info, ops, idx0, block, data>>
    BY Zenon, <1>7 DEF virtio_disk_rw, Goto, driverVars
  <2>2. pc'[b] = dir /\ \A c \in Buf : c # b => pc'[c] = pc[c]
    BY Zenon, <1>0, <2>1
  <2>3. ASSUME NEW c \in Buf, c # b PROVE Same(c)
    <3>1. c \in InFlight => c \in InFlight' /\ Kept(c)
      BY Zenon, <2>1, <2>2, <2>3 DEF InFlight, Kept
    <3> QED
      BY Zenon, <2>2, <2>3, <3>1 DEF Same
  <2>4. phase[b] = "idle" /\ phase'[b] = dir
    BY Zenon, <2>1, <2>2, PhaseIs, PhaseIsNext
  <2>5. phase' = [phase EXCEPT ![b] = dir]
    BY Zenon, <1>0, <2>3, <2>4, PhaseStep
  <2> QED
    BY Zenon, <2>1, <2>4, <2>5 DEF Device!Call
<1>8. ASSUME NEW r \in dev.busy, dev_complete(r) PROVE \E b \in Buf : Device!Transfer(b)
  <2>1. PICK b \in InFlight : Transfers(b) /\ \A c \in InFlight : c # b => Kept(c)
    BY Zenon, <1>8, CompleteInv
  <2>2. b \in Buf /\ pc' = pc /\ InFlight' = InFlight
    BY Zenon, <1>8 DEF InFlight, dev_complete, callVars
  <2>3. ASSUME NEW c \in Buf, c # b PROVE Same(c)
    BY Zenon, <2>1, <2>2, <2>3 DEF Same
  <2>4. phase[b] = ops[idx0[b]].type /\ phase'[b] = "done" /\ phase[b] \in {"in", "out"}
    <3>1. phase[b] = ops[idx0[b]].type /\ phase'[b] = "done"
      <4>1. info[idx0[b]].status # 0 /\ info'[idx0'[b]].status = 0
        BY <2>1 DEF Transfers
      <4> QED
        BY Zenon, <2>1, <2>2, <4>1, FlightPhase, FlightPhaseNext
    <3>2. idx0[b] \in Slot /\ ops \in [Slot -> [type : {"in", "out"}, sector : Buf \cup {Null}]]
      BY Zenon, <1>0, <2>2 DEF TypeOK
    <3> QED
      BY Zenon, <3>1, <3>2
  <2>5. phase' = [phase EXCEPT ![b] = "done"]
    BY Zenon, <1>0, <2>2, <2>3, <2>4, PhaseStep
  <2>6. Device!Transfer(b)
    BY Zenon, <2>1, <2>4, <2>5 DEF Transfers, Device!Transfer
  <2> QED
    BY Zenon, <2>2, <2>6
<1>9. ASSUME intr_turn PROVE UNCHANGED <<block, data, phase>>
  <2>1. UNCHANGED <<info, ops, idx0, block, data>>
    BY Zenon, <1>9 DEF intr_turn, driverVars
  <2>2. \A c \in Buf : pc'[c] = pc[c] \/ (pc[c] = "sleep on b" /\ pc'[c] = "woken")
    BY Zenon, <1>0, <1>9 DEF intr_turn
  <2>3. \A c \in Buf : pc'[c] = pc[c] \/ (c \in InFlight /\ c \in InFlight')
    BY Zenon, <2>2 DEF InFlight
  <2> QED
    BY Zenon, <1>0, <2>1, <2>3, QuietPhase
<1>10. ASSUME intr_ack \/ intr_end \/ dev_take \/ dev_idle \/ UNCHANGED vars
       PROVE  UNCHANGED <<block, data, phase>>
  <2>1. UNCHANGED <<info, ops, idx0, pc, block, data>>
    BY Zenon, <1>10 DEF intr_ack, intr_end, dev_take, dev_idle, vars, driverVars, callVars
  <2> QED
    BY Zenon, <2>1 DEF phase
<1>11. (\E b \in Buf : rw(b) \/ publish(b) \/ notify(b) \/ kill(b)) =>
         (\E b \in Buf : Device!Return(b)) \/ UNCHANGED <<block, data, phase>>
  BY Zenon, <1>1, <1>2, <1>3, <1>4, <1>5 DEF rw
<1>12. intr \/ device \/ UNCHANGED vars =>
         (\E b \in Buf : Device!Transfer(b)) \/ UNCHANGED <<block, data, phase>>
  BY Zenon, <1>8, <1>9, <1>10 DEF intr, device
<1> QED
  BY Zenon, <1>6, <1>7, <1>11, <1>12 DEF Next, Device!Next

\* virtio_disk_rw() transfers its block exactly once between call and return, in
\* the direction asked for, and touches no other buffer or block.
THEOREM DriverIsDevice == Spec => TransfersOnce
<1>1. Init => Device!Init
  <2> SUFFICES ASSUME Init PROVE Device!Init
    OBVIOUS
  <2>1. pc = [b \in Buf |-> "idle"] /\ block \in [Buf -> Data] /\ data \in [Buf -> Data]
    BY Zenon DEF Init
  <2>2. phase = [b \in Buf |-> "idle"]
    BY Zenon, <2>1 DEF phase
  <2> QED
    BY Zenon, <2>1, <2>2 DEF Device!Init
<1>2. Init => VirtioInv
  BY VirtioInit
<1>3. VirtioInv /\ [Next]_vars => VirtioInv'
  BY VirtioNext
<1>4. VirtioInv /\ [Next]_vars => [Device!Next]_<<block, data, phase>>
  BY Zenon, DeviceStep
<1> QED
  BY <1>1, <1>2, <1>3, <1>4, PTL DEF Spec, TransfersOnce, Device!Spec, Device!vars
=========================================================================
