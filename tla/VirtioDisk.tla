--------------------------- MODULE VirtioDisk ---------------------------
(***************************************************************************)
(* The disk driver (kernel/virtio_disk.c) and the device it drives: the    *)
(* descriptor table, the avail and used rings with their 16-bit indices,   *)
(* processes waiting for descriptors and for completion, and the interrupt *)
(* handler, whose acknowledgement races with further completions.          *)
(*                                                                         *)
(* A process in virtio_disk_rw() has its buffer locked, so a request is    *)
(* named by its buffer b; block b is the disk block the buffer is for.     *)
(* The device is external code: it takes requests in ring order, finishes  *)
(* them in any order, and its status is always success.                    *)
(*                                                                         *)
(* Faulty variants of a definition stand right before it (such as          *)
(* notifyNever); they only serve to show that a property can fail.         *)
(***************************************************************************)
EXTENDS Integers, FiniteSets

CONSTANTS
    Buf, Data,
    Null,     \* the null pointer, and nobody
    NUM,      \* number of descriptors and of ring entries
    UINT16    \* values of a ring index: 2^16 in the kernel

ASSUME DiskAssumption ==
    /\ Null \notin Buf /\ "intr" \notin Buf \cup {Null}
    /\ NUM \in Nat /\ NUM >= 3
    /\ UINT16 \in Nat /\ UINT16 > NUM /\ UINT16 % NUM = 0

Slot == 0 .. (NUM - 1)
Index == 0 .. (UINT16 - 1)

VARIABLES
    desc, free, info, ops,   \* struct disk: descriptors and book-keeping
    avail, used, used_idx,   \* the rings, and how far used has been looked at
    lk,                      \* holder of vdisk_lock: a buffer's process, "intr"
    bdisk,                   \* b->disk
    pc, idx0,                \* the process of each buffer, and its idx[0]
    panic,
    block, data,             \* contents of the disk, and of b->data
    dev, isr, notified       \* the device: its state, INTERRUPT_STATUS, kicked

driverVars == <<desc, free, info, ops>>
ringVars == <<avail, used, used_idx>>
callVars == <<bdisk, pc, idx0>>
devVars == <<dev, isr, notified>>
vars == <<driverVars, ringVars, lk, callVars, panic, block, data, devVars>>

NoDesc == [addr |-> Null, write |-> FALSE, more |-> FALSE, next |-> 0]
NoRing == [idx |-> 0, ring |-> [k \in Slot |-> 0]]

\* virtio_disk_init()
Init ==
    /\ desc = [k \in Slot |-> NoDesc]
    /\ free = Slot
    /\ info = [k \in Slot |-> [b |-> Null, status |-> 0]]
    /\ ops = [k \in Slot |-> [type |-> "in", sector |-> Null]]
    /\ avail = NoRing /\ used = NoRing /\ used_idx = 0
    /\ lk = Null
    /\ bdisk = [b \in Buf |-> 0]
    /\ pc = [b \in Buf |-> "idle"]
    /\ idx0 = [b \in Buf |-> 0]
    /\ panic = FALSE
    /\ block \in [Buf -> Data] /\ data \in [Buf -> Data]
    /\ dev = [idx |-> 0, busy |-> {}]
    /\ isr = FALSE /\ notified = FALSE

Goto(b, l) == pc' = [pc EXCEPT ![b] = l]

\* wakeup(&disk.free[0]), after which the process of b is at l.
WakeDescWaitersThen(b, l) ==
    pc' = [c \in Buf |-> IF c = b THEN l
                         ELSE IF pc[c] \in {"sleep for in", "sleep for out"}
                              THEN (IF pc[c] = "sleep for in" THEN "in" ELSE "out")
                              ELSE pc[c]]
------------------------------------------------------------------------
\* bread() and bwrite(): the process of b may change its bytes, or call
\* virtio_disk_rw(b, dir = "out").
modify(b, d) ==
    /\ pc[b] = "idle" /\ ~panic
    /\ data' = [data EXCEPT ![b] = d]
    /\ UNCHANGED <<driverVars, ringVars, lk, callVars, panic, block, devVars>>

virtio_disk_rw(b, dir) ==
    /\ pc[b] = "idle" /\ ~panic
    /\ Goto(b, dir)
    /\ UNCHANGED <<driverVars, ringVars, lk, bdisk, idx0, panic, block, data, devVars>>

\* alloc_desc() when the descriptors S are free: the lowest of them.
alloc_desc(S, i) == i \in S /\ \A j \in S : i <= j

alloc3_desc(i0, i1, i2) ==
    alloc_desc(free, i0) /\ alloc_desc(free \ {i0}, i1) /\ alloc_desc(free \ {i0, i1}, i2)

\* alloc3_desc() fails: the descriptors it got are freed again, which wakes the
\* other processes that wait for some; then sleep(&disk.free[0]).
alloc3_fail(b) ==
    /\ pc[b] \in {"in", "out"} /\ lk = Null /\ ~panic
    /\ Cardinality(free) < 3
    /\ LET l == IF pc[b] = "in" THEN "sleep for in" ELSE "sleep for out"
       IN IF free = {} THEN Goto(b, l) ELSE WakeDescWaitersThen(b, l)
    /\ UNCHANGED <<driverVars, ringVars, lk, bdisk, idx0, panic, block, data, devVars>>

\* alloc3_desc() succeeds, the descriptors are formatted, and the head of the
\* chain is put in the avail ring, not yet in the part the device may read.
format(b) ==
    /\ pc[b] \in {"in", "out"} /\ lk = Null /\ ~panic
    /\ \E i0, i1, i2 \in free :
        /\ alloc3_desc(i0, i1, i2)
        /\ free' = free \ {i0, i1, i2}
        /\ ops' = [ops EXCEPT ![i0] = [type |-> pc[b], sector |-> b]]
        /\ desc' = [desc EXCEPT
             ![i0] = [addr |-> <<"op", i0>>, write |-> FALSE, more |-> TRUE, next |-> i1],
             ![i1] = [addr |-> <<"data", b>>, write |-> (pc[b] = "in"), more |-> TRUE, next |-> i2],
             ![i2] = [addr |-> <<"status", i0>>, write |-> TRUE, more |-> FALSE, next |-> 0]]
        /\ info' = [info EXCEPT ![i0] = [b |-> b, status |-> 255]]
        /\ avail' = [avail EXCEPT !.ring[avail.idx % NUM] = i0]
        /\ idx0' = [idx0 EXCEPT ![b] = i0]
    /\ bdisk' = [bdisk EXCEPT ![b] = 1]
    /\ lk' = b
    /\ Goto(b, "publish")
    /\ UNCHANGED <<used, used_idx, panic, block, data, devVars>>

\* Between the two memory barriers.
publish(b) ==
    /\ pc[b] = "publish" /\ ~panic
    /\ avail' = [avail EXCEPT !.idx = (@ + 1) % UINT16]
    /\ Goto(b, "notify")
    /\ UNCHANGED <<driverVars, used, used_idx, lk, bdisk, idx0, panic, block, data, devVars>>

\* QUEUE_NOTIFY, and the first test of while(b->disk == 1), which cannot fail:
\* virtio_disk_intr() needs vdisk_lock.
notifyNever(b) ==
    /\ pc[b] = "notify" /\ ~panic
    /\ notified' = notified
    /\ Goto(b, "sleep on b")
    /\ lk' = Null
    /\ UNCHANGED <<driverVars, ringVars, bdisk, idx0, panic, block, data, dev, isr>>

notify(b) ==
    /\ pc[b] = "notify" /\ ~panic
    /\ notified' = TRUE
    /\ Goto(b, "sleep on b")
    /\ lk' = Null
    /\ UNCHANGED <<driverVars, ringVars, bdisk, idx0, panic, block, data, dev, isr>>

\* The descriptors free_chain(i) goes through, for chains of at most three.
Chain(i) ==
    {i} \cup (IF ~desc[i].more THEN {}
              ELSE LET j == desc[i].next
                   IN {j} \cup (IF desc[j].more THEN {desc[j].next} ELSE {}))

\* free_desc() of each of them.
free_chainHead(i) ==
    /\ desc' = [desc EXCEPT ![i] = NoDesc]
    /\ free' = free \cup {i}
    /\ panic' = (i \in free)
free_chain(i) ==
    /\ desc' = [k \in Slot |-> IF k \in Chain(i) THEN NoDesc ELSE desc[k]]
    /\ free' = free \cup Chain(i)
    /\ panic' = (free \cap Chain(i) # {})  \* "free_desc 2"

\* The rest of virtio_disk_rw() once the process is awake again and has
\* vdisk_lock: another sleep, or free_chain(), its wakeups and the return.
finishNoTest(b) ==
    /\ pc[b] = "woken" /\ lk = Null /\ ~panic
    /\ info' = [info EXCEPT ![idx0[b]].b = Null]
    /\ free_chain(idx0[b])
    /\ idx0' = [idx0 EXCEPT ![b] = 0]
    /\ WakeDescWaitersThen(b, "idle")
    /\ UNCHANGED <<ops, ringVars, lk, bdisk, block, data, devVars>>

finish(b) ==
    /\ pc[b] = "woken" /\ lk = Null /\ ~panic
    /\ IF bdisk[b] = 1
         THEN Goto(b, "sleep on b") /\ UNCHANGED <<info, desc, free, panic, idx0>>
         ELSE /\ info' = [info EXCEPT ![idx0[b]].b = Null]
              /\ free_chain(idx0[b])
              /\ idx0' = [idx0 EXCEPT ![b] = 0]
              /\ WakeDescWaitersThen(b, "idle")
    /\ UNCHANGED <<ops, ringVars, lk, bdisk, block, data, devVars>>

\* kill() ends either sleep early; both loops test their condition again.
kill(b) ==
    /\ pc[b] \in {"sleep on b", "sleep for in", "sleep for out"} /\ ~panic
    /\ Goto(b, IF pc[b] = "sleep on b" THEN "woken"
               ELSE IF pc[b] = "sleep for in" THEN "in" ELSE "out")
    /\ UNCHANGED <<driverVars, ringVars, lk, bdisk, idx0, panic, block, data, devVars>>
------------------------------------------------------------------------
(***************************************************************************)
(* virtio_disk_intr(), one step per turn of its loop.  The interrupt is    *)
(* pending for as long as the device's status says so; the PLIC does not   *)
(* deliver it again before the handler is done.                            *)
(***************************************************************************)
intr_ack ==
    /\ isr /\ lk = Null /\ ~panic
    /\ lk' = "intr"
    /\ isr' = FALSE
    /\ UNCHANGED <<driverVars, ringVars, callVars, panic, block, data, dev, notified>>

intr_turn ==
    /\ lk = "intr" /\ ~panic
    /\ used_idx # used.idx
    /\ LET id == used.ring[used_idx % NUM]
           b == info[id].b
       IN IF info[id].status # 0 \/ b = Null
            THEN panic' = TRUE /\ UNCHANGED <<bdisk, pc>>
            ELSE /\ bdisk' = [bdisk EXCEPT ![b] = 0]
                 /\ pc' = [pc EXCEPT ![b] = IF @ = "sleep on b" THEN "woken" ELSE @]
                 /\ UNCHANGED panic
    /\ used_idx' = (used_idx + 1) % UINT16
    /\ UNCHANGED <<driverVars, avail, used, lk, idx0, block, data, devVars>>

intr_end ==
    /\ lk = "intr" /\ ~panic
    /\ used_idx = used.idx
    /\ lk' = Null
    /\ UNCHANGED <<driverVars, ringVars, callVars, panic, block, data, devVars>>
------------------------------------------------------------------------
(***************************************************************************)
(* The device.  It takes a chain from the avail ring once it has been      *)
(* notified, works on several at a time, moves the bytes the descriptors   *)
(* point at, writes the status, and only then adds the chain's head to the *)
(* used ring and raises the interrupt.                                     *)
(***************************************************************************)
dev_take ==
    /\ notified /\ ~panic
    /\ dev.idx # avail.idx
    /\ LET h == avail.ring[dev.idx % NUM]
           j == desc[h].next
       IN dev' = [idx |-> (dev.idx + 1) % UINT16,
                  busy |-> dev.busy \cup {[id |-> h, op |-> desc[h].addr, buf |-> desc[j],
                                           status |-> desc[desc[j].next].addr]}]
    /\ UNCHANGED <<driverVars, ringVars, lk, callVars, panic, block, data, isr, notified>>

dev_idle ==
    /\ notified /\ ~panic
    /\ dev.idx = avail.idx
    /\ notified' = FALSE
    /\ UNCHANGED <<driverVars, ringVars, lk, callVars, panic, block, data, dev, isr>>

dev_complete(r) ==
    /\ r \in dev.busy /\ ~panic
    /\ LET b == r.buf.addr[2]
           s == ops[r.op[2]].sector
       IN IF r.buf.write
            THEN data' = [data EXCEPT ![b] = block[s]] /\ UNCHANGED block
            ELSE block' = [block EXCEPT ![s] = data[b]] /\ UNCHANGED data
    /\ info' = [info EXCEPT ![r.status[2]].status = 0]
    /\ used' = [idx |-> (used.idx + 1) % UINT16,
                ring |-> [used.ring EXCEPT ![used.idx % NUM] = r.id]]
    /\ dev' = [dev EXCEPT !.busy = @ \ {r}]
    /\ isr' = TRUE
    /\ UNCHANGED <<desc, free, ops, avail, used_idx, lk, callVars, panic, notified>>
------------------------------------------------------------------------
rw(b) == alloc3_fail(b) \/ format(b) \/ finish(b)
intr == intr_ack \/ intr_turn \/ intr_end
device == dev_take \/ dev_idle \/ \E r \in dev.busy : dev_complete(r)

Next ==
    \/ \E b \in Buf : rw(b) \/ publish(b) \/ notify(b) \/ kill(b)
    \/ \E b \in Buf, d \in Data : modify(b, d)
    \/ \E b \in Buf, dir \in {"in", "out"} : virtio_disk_rw(b, dir)
    \/ intr
    \/ device

Spec == Init /\ [][Next]_vars

(***************************************************************************)
(* The device works on what it has been given, interrupts are delivered,   *)
(* and a process that waits for vdisk_lock gets it in the end.  The steps  *)
(* of one call, and those of one interrupt, come one after the other.      *)
(***************************************************************************)
Fairness ==
    /\ WF_vars(dev_take) /\ WF_vars(\E r \in dev.busy : dev_complete(r))
    /\ SF_vars(intr)
    /\ \A b \in Buf : SF_vars(rw(b) \/ publish(b) \/ notify(b))

FairSpec == Spec /\ Fairness
------------------------------------------------------------------------
InFlight == {b \in Buf : pc[b] \in {"publish", "notify", "sleep on b", "woken"}}

Addr == {Null} \cup ({"op", "status"} \X Slot) \cup ({"data"} \X Buf)
Desc == [addr : Addr, write : BOOLEAN, more : BOOLEAN, next : Slot]
Ring == [idx : Index, ring : [Slot -> Slot]]

\* Every variable stays in its domain; the ring indices stay 16-bit numbers and
\* what the rings hold stays a descriptor number.
TypeOK ==
    /\ desc \in [Slot -> Desc] /\ free \subseteq Slot
    /\ info \in [Slot -> [b : Buf \cup {Null}, status : {0, 255}]]
    /\ ops \in [Slot -> [type : {"in", "out"}, sector : Buf \cup {Null}]]
    /\ avail \in Ring /\ used \in Ring /\ used_idx \in Index
    /\ lk \in Buf \cup {Null, "intr"}
    /\ bdisk \in [Buf -> {0, 1}] /\ idx0 \in [Buf -> Slot]
    /\ pc \in [Buf -> {"idle", "in", "out", "sleep for in", "sleep for out",
                       "publish", "notify", "sleep on b", "woken"}]
    /\ dev \in [idx : Index, busy : SUBSET [id : Slot, op : Addr, buf : Desc, status : Addr]]
    /\ block \in [Buf -> Data] /\ data \in [Buf -> Data]
    /\ isr \in BOOLEAN /\ notified \in BOOLEAN /\ panic \in BOOLEAN

\* No descriptor is shared and none is lost: the chains of the requests in
\* flight are three long and disjoint, and all other descriptors are free.  So
\* none is freed twice ("free_desc 2"), and virtio_disk_intr() finds every
\* completed request with its buffer and a status the device has written, in
\* whatever order the device completes them.  "this may race with the device
\* writing new entries to the used ring": an entry that the handler has not
\* looked at is never left without an interrupt, pending or being handled, that
\* will find it.
DescOwned ==
    /\ TypeOK
    /\ ~panic
    /\ used_idx # used.idx => isr \/ lk = "intr"
    /\ \A b \in InFlight : Cardinality(Chain(idx0[b])) = 3
    /\ \A b, c \in InFlight : b # c => Chain(idx0[b]) \cap Chain(idx0[c]) = {}
    /\ free = Slot \ UNION {Chain(idx0[b]) : b \in InFlight}

\* virtio_disk_rw() transfers its block exactly once between call and return,
\* and touches no other buffer: the driver implements module BlockDevice.
phase ==
    [b \in Buf |-> IF pc[b] \in {"idle", "in", "out"} THEN pc[b]
                   ELSE IF pc[b] = "sleep for in" THEN "in"
                   ELSE IF pc[b] = "sleep for out" THEN "out"
                   ELSE IF info[idx0[b]].status = 0 THEN "done" ELSE ops[idx0[b]].type]

Device == INSTANCE BlockDevice
TransfersOnce == Device!Spec

\* A request that the device has been given is completed and returns, and a
\* process that sleeps for descriptors is woken, even though those that fail to
\* get three of them keep waking each other.
RequestReturns ==
    \A b \in Buf :
        /\ pc[b] = "publish" ~> pc[b] = "idle"
        /\ pc[b] \in {"sleep for in", "sleep for out"} ~> pc[b] \in {"publish", "in", "out"}
========================================================================
