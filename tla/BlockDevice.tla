-------------------------- MODULE BlockDevice --------------------------
(***************************************************************************)
(* What virtio_disk_rw() promises to its caller: between call and return   *)
(* one whole block is transferred once, in the direction asked for, and    *)
(* nothing else touches the block or the locked buffer in the meantime.    *)
(***************************************************************************)
CONSTANTS Buf, Data

VARIABLES block, data, phase

vars == <<block, data, phase>>

Init ==
    /\ block \in [Buf -> Data]
    /\ data \in [Buf -> Data]
    /\ phase = [b \in Buf |-> "idle"]

\* The process that has b locked changes its bytes between two transfers.
Modify(b, d) ==
    /\ phase[b] = "idle"
    /\ data' = [data EXCEPT ![b] = d]
    /\ UNCHANGED <<block, phase>>

Call(b, dir) ==
    /\ phase[b] = "idle"
    /\ phase' = [phase EXCEPT ![b] = dir]
    /\ UNCHANGED <<block, data>>

Transfer(b) ==
    /\ phase[b] \in {"in", "out"}
    /\ IF phase[b] = "in"
         THEN data' = [data EXCEPT ![b] = block[b]] /\ UNCHANGED block
         ELSE block' = [block EXCEPT ![b] = data[b]] /\ UNCHANGED data
    /\ phase' = [phase EXCEPT ![b] = "done"]

Return(b) ==
    /\ phase[b] = "done"
    /\ phase' = [phase EXCEPT ![b] = "idle"]
    /\ UNCHANGED <<block, data>>

Next ==
    \E b \in Buf : \/ Transfer(b) \/ Return(b)
                   \/ \E d \in Data : Modify(b, d)
                   \/ \E dir \in {"in", "out"} : Call(b, dir)

Spec == Init /\ [][Next]_vars
========================================================================
