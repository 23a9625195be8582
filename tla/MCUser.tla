---------------------------- MODULE MCUser ----------------------------
(***************************************************************************)
(* Small instances of eight modules, one of them in each behaviour: the    *)
(* kernel's processes and its dispatch of system calls, and the user       *)
(* programs shell with init, allocator, grep, primes, xargs and find.      *)
(***************************************************************************)
EXTENDS Integers, Sequences, FiniteSets

CONSTANT NoCall

VARIABLES
    job,                                                        \* the program
    state, pid, parent, killed, xstate, kpc, child, onstack,    \* Proc
    wait_lock, nextpid, panic,
    session, line, proc,                                        \* Shell
    ptr, size, freep, brk, used, foreign,                       \* Umalloc
    pc, p, prevp, bp, nunits,
    pattern, file, input, buf, out, done,                       \* Grep
    maxnum, stage, q, rd, wr, printed, failed,                  \* Primes
    sstate, mask, call, np, scan, returned, traced, asked,      \* Syscall
    xfile, xinput, procs, commands, xfailed,                    \* Xargs
    slots, fpc, path, stack, fout, always, ever, change         \* Find

procVars == <<state, pid, parent, killed, xstate, kpc, child, onstack, wait_lock, nextpid, panic>>
shellVars == <<session, line, proc>>
heapVars == <<ptr, size, freep, brk, used, foreign, pc, p, prevp, bp, nunits>>
grepVars == <<pattern, file, input, buf, out, done>>
primesVars == <<maxnum, stage, q, rd, wr, printed, failed>>
sysVars == <<sstate, mask, call, np, scan, returned, traced, asked>>
xargsVars == <<xfile, xinput, procs, commands, xfailed>>
findVars == <<slots, fpc, path, stack, fout, always, ever, change>>
vars == <<job, procVars, shellVars, heapVars, grepVars, primesVars, sysVars, xargsVars, findVars>>
------------------------------------------------------------------------
Kernel == INSTANCE Proc WITH NPROC <- 4, Victim <- {2, 3}, MaxPid <- 4, pc <- kpc
------------------------------------------------------------------------
Grammar == INSTANCE Shell WITH Sessions <- {}, NSLOT <- 1, NOFILE <- 5, MAXARGS <- 3

\* The line for a command: blocks get parentheses where the grammar wants them.
RECURSIVE Show(_)
In(types, c) == IF c.type \in types THEN Show(c) ELSE <<"(">> \o Show(c) \o <<")">>
Show(c) ==
    CASE c.type = "EXEC" -> [k \in 1 .. c.argc |-> "a"]
      [] c.type = "REDIR" -> In({"EXEC", "REDIR"}, c.cmd) \o <<IF c.fd = 0 THEN "<" ELSE ">", c.file>>
      [] c.type = "PIPE" -> In({"EXEC", "REDIR"}, c.left) \o <<"|">> \o In({"EXEC", "REDIR", "PIPE"}, c.right)
      [] c.type = "BACK" -> In({"EXEC", "REDIR", "PIPE", "BACK"}, c.cmd) \o <<"&">>
      [] c.type = "LIST" -> In({"EXEC", "REDIR", "PIPE", "BACK"}, c.left) \o <<";">> \o Show(c.right)

a == Grammar!EXEC(1)
Simple ==
    {a, Grammar!BACK(a), Grammar!PIPE(a, a), Grammar!LIST(a, a),
     Grammar!REDIR(a, "f", 0), Grammar!REDIR(a, "f", 1)}
Commands ==
    Simple
    \cup {Grammar!BACK(c) : c \in Simple}
    \cup {Grammar!REDIR(c, "g", 1) : c \in Simple}
    \cup {Grammar!PIPE(a, c) : c \in Simple} \cup {Grammar!PIPE(c, a) : c \in Simple}
    \cup {Grammar!LIST(a, c) : c \in Simple} \cup {Grammar!LIST(c, a) : c \in Simple}
    \cup {Grammar!EXEC(0), Grammar!EXEC(2)}

Malformed ==
    {<<"a", "&", "a">>, <<"(", "a">>, <<"a", ")">>, <<"a", ">", "|">>, <<"a", "a", "a">>, <<"a", "(">>}

Typed(c) == [line |-> Show(c), tree |-> c]
\* One line; or a pipeline after a command in the background, which may leave it
\* without a slot.
Sessions ==
    {<<Typed(c)>> : c \in Commands}
    \cup {<<[line |-> l, tree |-> Grammar!NoCmd]>> : l \in Malformed}
    \cup {<<Typed(Grammar!BACK(Grammar!LIST(a, a))), Typed(Grammar!PIPE(a, a))>>,
          <<Typed(Grammar!BACK(a)), Typed(Grammar!PIPE(a, Grammar!PIPE(a, a)))>>}

Sh == INSTANCE Shell WITH NSLOT <- 7, NOFILE <- 5, MAXARGS <- 3
------------------------------------------------------------------------
Heap == INSTANCE Umalloc WITH Units <- {2, 3}, NALLOC <- 4, HEAP <- 10, MaxForeign <- 1
------------------------------------------------------------------------
Text == {"x", "y", "nl"}
Inputs == UNION {[1 .. n -> Text] : n \in 0 .. 3} \cup {<<"x", "nl", "y", "x", "y", "nl">>}
\* Patterns with at most one star, not at the start.
Patterns ==
    {<<"^">> \o s : s \in {<<"x">>, <<"x", "$">>, <<".", "*", "x">>}}
    \cup {<<"x">>, <<"x", "*">>, <<".", "x">>, <<"y", "x", "*", "y">>, <<"x", "*", "$">>, <<"$">>,
          <<"^", "x", "*", "$">>, <<"^", "x", "*", "x", "$">>}
G == INSTANCE Grep WITH BUFSIZE <- 4
------------------------------------------------------------------------
Row == INSTANCE Primes WITH MaxNums <- {1, 9}, NSTAGE <- 6, CAP <- 2
------------------------------------------------------------------------
Sys == INSTANCE Syscall WITH NPROC <- 3, Masks <- {{"trace", "wait"}, {"fork", "sysinfo"}}, Asker <- {2},
           None <- NoCall, state <- sstate, line <- traced
------------------------------------------------------------------------
X == INSTANCE Xargs WITH MAX_ARG_LEN <- 4, file <- xfile, input <- xinput, failed <- xfailed
------------------------------------------------------------------------
\* Directories 1, 2 and 3, each in the one before, files 4 and 5.
Entry(n, i) == [name |-> n, inum |-> i]
NoEntry == Entry("", 0)
Trees ==
    {<<<<Entry("d", 2), Entry("x", 4)>>, <<Entry("y", 5), Entry("d", 3)>>, <<f>>>> : f \in {NoEntry, Entry("x", 5)}}
    \cup {<<<<Entry("x", 4), Entry("d", 2)>>, <<NoEntry, Entry("d", 3)>>, <<Entry("x", 5)>>>>}
F == INSTANCE Find WITH File <- {4, 5}, Name <- {"x"}, Wanted <- {"x", "d"}, NFD <- 3, MAXPATH <- 3,
         MaxChange <- 2, pc <- fpc, out <- fout
------------------------------------------------------------------------
\* The modules that a behaviour does not use stay as they are.
NoProc == Kernel!Init
NoShell == session = << >> /\ line = << >> /\ proc = [i \in Sh!Slot |-> Sh!Free]
NoHeap == Heap!Init
NoGrep == pattern = << >> /\ file = << >> /\ input = << >> /\ buf = << >> /\ out = << >> /\ done = FALSE
NoPrimes == Row!Init /\ maxnum = 1
NoSys == Sys!Init
NoXargs == X!Init /\ xfile = << >>
NoFind == F!Init /\ slots = CHOOSE t \in Trees : TRUE

Init ==
    \/ job = "proc" /\ Kernel!Init /\ NoShell /\ NoHeap /\ NoGrep /\ NoPrimes /\ NoSys /\ NoXargs /\ NoFind
    \/ job = "sh" /\ NoProc /\ Sh!Init /\ NoHeap /\ NoGrep /\ NoPrimes /\ NoSys /\ NoXargs /\ NoFind
    \/ job = "malloc" /\ NoProc /\ NoShell /\ Heap!Init /\ NoGrep /\ NoPrimes /\ NoSys /\ NoXargs /\ NoFind
    \/ job = "grep" /\ NoProc /\ NoShell /\ NoHeap /\ G!Init /\ NoPrimes /\ NoSys /\ NoXargs /\ NoFind
    \/ job = "primes" /\ NoProc /\ NoShell /\ NoHeap /\ NoGrep /\ Row!Init /\ NoSys /\ NoXargs /\ NoFind
    \/ job = "sys" /\ NoProc /\ NoShell /\ NoHeap /\ NoGrep /\ NoPrimes /\ Sys!Init /\ NoXargs /\ NoFind
    \/ job = "xargs" /\ NoProc /\ NoShell /\ NoHeap /\ NoGrep /\ NoPrimes /\ NoSys /\ X!Init /\ NoFind
    \/ job = "find" /\ NoProc /\ NoShell /\ NoHeap /\ NoGrep /\ NoPrimes /\ NoSys /\ NoXargs /\ F!Init

\* Only the job named takes steps.
Only(j) ==
    /\ job = j /\ UNCHANGED job
    /\ j # "proc" => UNCHANGED procVars
    /\ j # "sh" => UNCHANGED shellVars
    /\ j # "malloc" => UNCHANGED heapVars
    /\ j # "grep" => UNCHANGED grepVars
    /\ j # "primes" => UNCHANGED primesVars
    /\ j # "sys" => UNCHANGED sysVars
    /\ j # "xargs" => UNCHANGED xargsVars
    /\ j # "find" => UNCHANGED findVars

Next ==
    \/ Only("proc") /\ Kernel!Next
    \/ Only("sh") /\ Sh!Next
    \/ Only("malloc") /\ Heap!Next
    \/ Only("grep") /\ G!Next
    \/ Only("primes") /\ Row!Next
    \/ Only("sys") /\ Sys!Next
    \/ Only("xargs") /\ X!Next
    \/ Only("find") /\ F!Next

\* The fairness of module Proc; the processes of the shell and of primes that can
\* run do; and a call of malloc() or free() goes on.
proc_goes(k) == Only("proc") /\ Kernel!goes(k)
init_waits == Only("proc") /\ Kernel!wait(Kernel!initproc, TRUE)
user_goes ==
    \/ Only("sh") /\ Sh!running
    \/ Only("malloc") /\ Heap!inside
    \/ Only("primes") /\ Row!Next

Spec ==
    /\ Init /\ [][Next]_vars
    /\ \A k \in Kernel!Proc : SF_vars(proc_goes(k))
    /\ SF_vars(init_waits)
    /\ WF_vars(user_goes)

\* Headers of the heap that are no longer those of a block make no difference.
View ==
    IF job # "malloc" THEN <<job, procVars, shellVars, grepVars, primesVars, sysVars, xargsVars, findVars>>
    ELSE <<[b \in Heap!FreeList \cup {Heap!base} |-> ptr[b]],
           [b \in (Heap!Blocks \cup {bp, p, prevp}) |-> size[b]],
           freep, brk, used, foreign, pc, p, prevp, bp, nunits>>
------------------------------------------------------------------------
\* Proc: whoever exits has a parent to wait for it (Proc!ParentAlive).
ParentAlive == job = "proc" => Kernel!ParentAlive
\* Proc: nothing is freed while in use, and pids differ (Proc!FreedOffStack).
FreedOffStack == job = "proc" => Kernel!FreedOffStack
\* Proc: orphans are reaped, and kill() ends wait() (Proc!WaitsEnd).
WaitsEnd == job = "proc" => Kernel!WaitsEnd
\* Shell: programs run with the descriptors that the line says (Shell!Connected),
\* and nothing goes on before what it comes after has ended (Shell!Waited).
CommandsRun == job = "sh" => Sh!Connected /\ Sh!Waited
\* Syscall: the lines of trace() (Syscall!TracedAsAsked), and the number of
\* processes of sysinfo() (Syscall!CountBetween).
CallsTraced == job = "sys" => Sys!TracedAsAsked /\ Sys!CountBetween
\* Umalloc: the blocks cover the heap without overlap (Umalloc!HeapKept).
HeapKept == job = "malloc" => Heap!HeapKept
\* Grep: exactly the matching lines are printed (Grep!GrepPrintsMatches).
\* Primes: exactly the primes are printed, in order (Primes!PrimesPrinted).
\* Xargs: each line goes to one command (Xargs!LinesGiven).
\* Find: the files that match are printed (Find!FindPrints).
OutputRight ==
    /\ job = "grep" => G!GrepPrintsMatches
    /\ job = "primes" => Row!PrimesPrinted
    /\ job = "xargs" => X!LinesGiven
    /\ job = "find" => F!FindPrints
\* Shell: there is a prompt again and again (Shell!PromptReturns); Umalloc: calls
\* of malloc() and free() return (Umalloc!CallsReturn); Primes: all stages end
\* (Primes!AllEnd).
CallsEnd ==
    /\ job = "sh" => Sh!PromptReturns
    /\ job = "malloc" => Heap!CallsReturn
    /\ job = "primes" => Row!AllEnd
========================================================================
