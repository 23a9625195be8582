----------------------------- MODULE Xargs -----------------------------
(***************************************************************************)
(* user/xargs.c: collects a line in pre_arg, forks, and executes the       *)
(* command with the line as its last argument.  When exec() fails, the     *)
(* child returns to the loop and goes on with the input, which it shares,  *)
(* and with its copy of pre_arg, while its parent waits for it.            *)
(*                                                                         *)
(* Lines longer than MAX_ARG_LEN are left out: idx is not checked.         *)
(***************************************************************************)
EXTENDS Integers, Sequences

CONSTANTS
    Inputs,        \* sequences of letters and "nl"
    MAX_ARG_LEN    \* 1024

VARIABLES
    file, input,   \* standard input, and what has not been read yet
    procs,         \* pre_arg[0..idx-1] of each process, a child after its parent
    commands,      \* the last argument of each command executed
    failed         \* an exec() or a fork() has failed

xvars == <<file, input, procs, commands, failed>>

Init ==
    /\ file \in Inputs /\ input = file
    /\ procs = <<<< >>>> /\ commands = << >> /\ failed = FALSE

\* The process that is not in wait().
last == procs[Len(procs)]
Parents == SubSeq(procs, 1, Len(procs) - 1)

\* After wait(0): idx = 0.
startOver(ps) == IF ps = << >> THEN ps ELSE [ps EXCEPT ![Len(ps)] = << >>]

reads(c) == procs # << >> /\ input # << >> /\ Head(input) = c /\ input' = Tail(input)

\* pre_arg[idx++] = tmp;
store(c) ==
    /\ reads(c) /\ c # "nl"
    /\ Len(last) < MAX_ARG_LEN - 1
    /\ procs' = [procs EXCEPT ![Len(procs)] = Append(@, c)]
    /\ UNCHANGED <<file, commands, failed>>

\* fork(), exec() in the child, and wait(0) until the command has ended.
run ==
    /\ reads("nl")
    /\ commands' = Append(commands, last)
    /\ procs' = startOver(procs)
    /\ UNCHANGED <<file, failed>>

run_execFails ==
    /\ reads("nl")
    /\ procs' = Append(procs, last)
    /\ failed' = TRUE
    /\ UNCHANGED <<file, commands>>

\* fork() fails, and the process exits; its parent's wait(0) returns.
run_forkFails ==
    /\ reads("nl")
    /\ procs' = startOver(Parents)
    /\ failed' = TRUE
    /\ UNCHANGED <<file, commands>>

\* The end of the input; what comes after the last newline is dropped.
exit ==
    /\ procs # << >> /\ input = << >>
    /\ procs' = startOver(Parents)
    /\ UNCHANGED <<file, input, commands, failed>>

Next ==
    \/ \E c \in {file[k] : k \in DOMAIN file} : store(c)
    \/ run \/ run_execFails \/ run_forkFails \/ exit

Spec == Init /\ [][Next]_xvars
------------------------------------------------------------------------
\* The place of the k-th newline, and the lines from i to j run together.
Newlines(s) == Len(SelectSeq(s, LAMBDA c : c = "nl"))
Ends(k) == IF k = 0 THEN 0
           ELSE CHOOSE n \in DOMAIN file : file[n] = "nl" /\ Newlines(SubSeq(file, 1, n)) = k
Lines(i, j) == SelectSeq(SubSeq(file, Ends(i - 1) + 1, Ends(j)), LAMBDA c : c # "nl")

\* Unless something fails, each line that has been read was given to a command
\* of its own, in order.  After a failed exec() a command may get several lines
\* in one argument, but still only whole lines that follow each other.
LinesGiven ==
    LET n == Newlines(SubSeq(file, 1, Len(file) - Len(input))) IN
    /\ ~failed => commands = [k \in 1 .. n |-> Lines(k, k)]
    /\ \A k \in DOMAIN commands : \E i \in k .. n : \E j \in i .. n : commands[k] = Lines(i, j)
========================================================================
