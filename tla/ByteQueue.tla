--------------------------- MODULE ByteQueue ---------------------------
(***************************************************************************)
(* What a pipe promises: a bounded first-in first-out queue of bytes with  *)
(* an end for reading and an end for writing, each of which is closed      *)
(* once.  Nothing is written after the read end is closed.                 *)
(***************************************************************************)
EXTENDS Integers, Sequences

CONSTANTS Byte, PIPESIZE

VARIABLES q, readopen, writeopen

vars == <<q, readopen, writeopen>>

Init == q = << >> /\ readopen = TRUE /\ writeopen = TRUE

Put(ch) ==
    /\ readopen /\ writeopen
    /\ Len(q) < PIPESIZE
    /\ q' = Append(q, ch)
    /\ UNCHANGED <<readopen, writeopen>>

Get ==
    /\ readopen
    /\ q # << >>
    /\ q' = Tail(q)
    /\ UNCHANGED <<readopen, writeopen>>

CloseRead == readopen /\ readopen' = FALSE /\ UNCHANGED <<q, writeopen>>

CloseWrite == writeopen /\ writeopen' = FALSE /\ UNCHANGED <<q, readopen>>

Next == (\E ch \in Byte : Put(ch)) \/ Get \/ CloseRead \/ CloseWrite

Spec == Init /\ [][Next]_vars
========================================================================
