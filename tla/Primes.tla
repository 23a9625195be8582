---------------------------- MODULE Primes ----------------------------
(***************************************************************************)
(* user/primes.c: a sieve of processes in a row.  Each one prints the      *)
(* first number it reads, forks the next one, and passes on the numbers    *)
(* that the first one does not divide.  A step is a system call with what  *)
(* the program computes after it.                                          *)
(*                                                                         *)
(* Stage 0 is main(); pipe s is the one from stage s to stage s + 1.  A    *)
(* child has a copy of every descriptor of its parent, so that the read    *)
(* ends of earlier pipes stay open in all later stages.                    *)
(*                                                                         *)
(* External: the kernel's pipes, which take whole numbers, for PIPESIZE is *)
(* a multiple of sizeof(int); fork(), which may fail.  Descriptors do not  *)
(* run out: up to 35, the default, there are 11 stages.                    *)
(*                                                                         *)
(* Faulty variants of a definition stand right before it; they only serve  *)
(* to show that a property can fail.                                       *)
(***************************************************************************)
EXTENDS Integers, Sequences

CONSTANTS
    MaxNums,   \* values of maxnum
    NSTAGE,    \* more than the primes up to maxnum
    CAP        \* numbers that a pipe holds: PIPESIZE / sizeof(int) = 128

VARIABLES
    maxnum,
    stage,       \* pc, previous and next of each process
    q,           \* numbers in each pipe
    rd, wr,      \* stages that have its read end and its write end open
    printed,
    failed       \* a fork() has failed

pvars == <<maxnum, stage, q, rd, wr, printed, failed>>

Stage == 0 .. NSTAGE

Init ==
    /\ maxnum \in MaxNums
    /\ stage = [s \in Stage |-> [pc |-> IF s = 0 THEN "fork" ELSE "unused", previous |-> 1, next |-> 2]]
    /\ q = [s \in Stage |-> << >>]
    /\ rd = [s \in Stage |-> {}] /\ wr = [s \in Stage |-> {}]
    /\ printed = << >> /\ failed = FALSE

At(s, l) == stage[s].pc = l
Goto(s, l) == stage' = [stage EXCEPT ![s].pc = l]

\* exit() closes what is open.
Exit(s) ==
    /\ Goto(s, "exited")
    /\ rd' = [k \in Stage |-> rd[k] \ {s}] /\ wr' = [k \in Stage |-> wr[k] \ {s}]

\* pipe() and fork(); the child has what the parent has open.
fork(s) ==
    LET Copy(d) == [k \in Stage |-> IF k = s THEN {s, s + 1}
                                    ELSE IF s \in d[k] THEN d[k] \cup {s + 1} ELSE d[k]] IN
    /\ At(s, "fork")
    /\ \/ /\ stage' = [stage EXCEPT ![s].pc = "close", ![s + 1].pc = "primes"]
          /\ rd' = Copy(rd) /\ wr' = Copy(wr)
          /\ UNCHANGED failed
       \/ Exit(s) /\ failed' = TRUE
    /\ UNCHANGED <<maxnum, q, printed>>

\* The parent's close(fdr[0]), in main() close(fd[0]).
close(s) ==
    /\ At(s, "close")
    /\ rd' = [rd EXCEPT ![s] = @ \ {s}]
    /\ Goto(s, IF s > 0 THEN "read" ELSE IF maxnum < 2 THEN "end" ELSE "write")
    /\ UNCHANGED <<maxnum, q, wr, printed, failed>>

\* primes(): close(fd[1]), and the first read().
primes(s) ==
    /\ At(s, "primes")
    /\ wr' = [wr EXCEPT ![s - 1] = @ \ {s}]
    /\ Goto(s, "first")
    /\ UNCHANGED <<maxnum, q, rd, printed, failed>>

first(s) ==
    /\ At(s, "first")
    /\ \/ /\ q[s - 1] # << >>
          /\ stage' = [stage EXCEPT ![s].pc = "fork", ![s].previous = Head(q[s - 1])]
          /\ printed' = Append(printed, Head(q[s - 1]))
          /\ q' = [q EXCEPT ![s - 1] = Tail(@)]
          /\ UNCHANGED <<rd, wr>>
       \/ q[s - 1] = << >> /\ wr[s - 1] = {} /\ Exit(s) /\ UNCHANGED <<q, printed>>
    /\ UNCHANGED <<maxnum, failed>>

\* The loop: read a number, or its end.
read(s) ==
    /\ At(s, "read")
    /\ \/ /\ q[s - 1] # << >>
          /\ stage' = [stage EXCEPT ![s].next = Head(q[s - 1]),
                                    ![s].pc = IF Head(q[s - 1]) % stage[s].previous # 0 THEN "write" ELSE "read"]
          /\ q' = [q EXCEPT ![s - 1] = Tail(@)]
       \/ q[s - 1] = << >> /\ wr[s - 1] = {} /\ Goto(s, "end") /\ UNCHANGED q
    /\ UNCHANGED <<maxnum, rd, wr, printed, failed>>

\* write(): waits for room; fails, unnoticed, when nobody can read.
write(s) ==
    /\ At(s, "write") /\ (Len(q[s]) < CAP \/ rd[s] = {})
    /\ q' = IF rd[s] = {} THEN q ELSE [q EXCEPT ![s] = Append(@, stage[s].next)]
    /\ stage' = IF s > 0 THEN [stage EXCEPT ![s].pc = "read"]
                ELSE [stage EXCEPT ![0].next = @ + 1, ![0].pc = IF stage[0].next < maxnum THEN "write" ELSE "end"]
    /\ UNCHANGED <<maxnum, rd, wr, printed, failed>>

\* close() of both pipes, and wait() for the child.
endNoClose(s) ==
    At(s, "end") /\ Goto(s, "wait") /\ UNCHANGED <<maxnum, q, rd, wr, printed, failed>>
end(s) ==
    /\ At(s, "end")
    /\ wr' = [wr EXCEPT ![s] = @ \ {s}]
    /\ rd' = IF s = 0 THEN rd ELSE [rd EXCEPT ![s - 1] = @ \ {s}]
    /\ Goto(s, "wait")
    /\ UNCHANGED <<maxnum, q, printed, failed>>

wait(s) ==
    /\ At(s, "wait") /\ At(s + 1, "exited")
    /\ Exit(s)
    /\ UNCHANGED <<maxnum, q, printed, failed>>

step(s) ==
    fork(s) \/ close(s) \/ primes(s) \/ first(s) \/ read(s) \/ write(s) \/ end(s) \/ wait(s)

Next == \E s \in 0 .. (NSTAGE - 1) : step(s)

Spec == Init /\ [][Next]_pvars
------------------------------------------------------------------------
Prime(n) == n > 1 /\ \A k \in 2 .. (n - 1) : n % k # 0
Sieve == SelectSeq([k \in 1 .. maxnum |-> k], Prime)

\* The primes are printed in order, though the stages run side by side, and
\* nothing else; all of them are when main() ends, unless a fork() failed.
PrimesPrinted ==
    /\ Len(printed) <= Len(Sieve) /\ printed = SubSeq(Sieve, 1, Len(printed))
    /\ At(0, "exited") /\ ~failed => printed = Sieve

\* All stages end: each sees the end of its input, even though read ends of
\* other pipes stay open in it, and also when a later stage could not be made.
AllEnd == <>(\A s \in Stage : stage[s].pc \in {"unused", "exited"})
========================================================================
