--------------------------- MODULE BlockStore ---------------------------
(***************************************************************************)
(* What the buffer cache promises to the rest of the file system: one copy *)
(* of each block, used by one process at a time, which keeps what was last *)
(* written into it, although only a few blocks fit into memory.            *)
(***************************************************************************)
CONSTANTS Proc, Block, Data, None

VARIABLES content, holder, disk

vars == <<content, holder, disk>>

Init ==
    /\ disk \in [Block -> Data]
    /\ content = disk
    /\ holder = [n \in Block |-> None]

Take(p, n) ==
    /\ holder[n] = None
    /\ holder' = [holder EXCEPT ![n] = p]
    /\ UNCHANGED <<content, disk>>

Modify(p, n, d) ==
    /\ holder[n] = p
    /\ content' = [content EXCEPT ![n] = d]
    /\ UNCHANGED <<holder, disk>>

Write(p, n) ==
    /\ holder[n] = p
    /\ disk' = [disk EXCEPT ![n] = content[n]]
    /\ UNCHANGED <<content, holder>>

Release(p, n) ==
    /\ holder[n] = p
    /\ holder' = [holder EXCEPT ![n] = None]
    /\ UNCHANGED <<content, disk>>

Next ==
    \E p \in Proc, n \in Block :
        \/ Take(p, n) \/ Write(p, n) \/ Release(p, n)
        \/ \E d \in Data : Modify(p, n, d)

Spec == Init /\ [][Next]_vars
=========================================================================
