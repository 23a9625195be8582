---------------------------- MODULE TxnDisk ----------------------------
(***************************************************************************)
(* What the logging layer (kernel/log.c) promises to the file system: a   *)
(* disk whose contents change only by whole transactions.  File-system     *)
(* calls update the in-memory view of the blocks; a commit makes the whole *)
(* view durable, never while a call is half done; a crash falls back to    *)
(* the contents of the last commit.                                        *)
(***************************************************************************)
CONSTANTS Proc,    \* processes that run file-system calls
          Block,   \* home block numbers
          Data     \* contents of a block

VARIABLES mem,      \* contents of the blocks as file-system code sees them
          durable,  \* contents a reboot would bring back
          active    \* processes between begin_op() and end_op()

vars == <<mem, durable, active>>

Init ==
    /\ durable \in [Block -> Data]
    /\ mem = durable
    /\ active = {}

Begin(p) ==
    /\ p \notin active
    /\ active' = active \cup {p}
    /\ UNCHANGED <<mem, durable>>

Write(p, b, d) ==
    /\ p \in active
    /\ mem' = [mem EXCEPT ![b] = d]
    /\ UNCHANGED <<durable, active>>

End(p) ==
    /\ p \in active
    /\ active' = active \ {p}
    /\ UNCHANGED <<mem, durable>>

Commit ==
    /\ active = {}
    /\ durable' = mem
    /\ UNCHANGED <<mem, active>>

Crash ==
    /\ mem' = durable
    /\ active' = {}
    /\ UNCHANGED durable

Next ==
    \/ \E p \in Proc : Begin(p) \/ End(p)
    \/ \E p \in Proc, b \in Block, d \in Data : Write(p, b, d)
    \/ Commit
    \/ Crash

Spec == Init /\ [][Next]_vars
========================================================================
