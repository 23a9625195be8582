----------------------------- MODULE Shell -----------------------------
(***************************************************************************)
(* The shell (user/sh.c) and init (user/init.c): the parser of command     *)
(* lines; runcmd(), which forks processes, connects them with pipes and    *)
(* waits for them; and init, which reaps orphans and starts the shell      *)
(* again when it is gone.                                                  *)
(*                                                                         *)
(* A line is the sequence of tokens that gettoken() finds in it: words and *)
(* the symbols of the shell.  A command is a record with its type; of the  *)
(* words of an EXEC only the number is kept.  A process has a table of     *)
(* file descriptors: the console, a file, or an end of a pipe.             *)
(*                                                                         *)
(* External: the kernel's fork(), which fails when all slots are taken,    *)
(* exit(), wait(), pipe(), open(), dup() and close(); and the programs,    *)
(* which read a pipe they have as standard input to its end, and that      *)
(* comes when no process has the write end open.                           *)
(*                                                                         *)
(* The fields tree and path of a process are for the properties: the       *)
(* command its line stands for, and which part of it the process runs.     *)
(*                                                                         *)
(* Faulty variants of a definition stand right before it (such as          *)
(* afterWaitOnce); they only serve to show that a property can fail.       *)
(***************************************************************************)
EXTENDS Integers, Sequences, FiniteSets

CONSTANTS
    Sessions,       \* what may be typed: sequences of lines, each with the command
                    \* it stands for
    NSLOT,          \* processes there can be, init included
    NOFILE,         \* descriptors of a process
    MAXARGS

NoCmd == [type |-> "none"]
EXEC(argc) == [type |-> "EXEC", argc |-> argc]
REDIR(c, file, fd) == [type |-> "REDIR", cmd |-> c, file |-> file, fd |-> fd]
PIPE(l, r) == [type |-> "PIPE", left |-> l, right |-> r]
LIST(l, r) == [type |-> "LIST", left |-> l, right |-> r]
BACK(c) == [type |-> "BACK", cmd |-> c]
------------------------------------------------------------------------
\* The parser.  Each function takes the tokens that are left and gives the
\* command and the tokens after it; bad: it called panic().
symbols == {"<", ">", ">>", "|", "&", ";", "(", ")"}
Tok(s, k) == IF k <= Len(s) THEN s[k] ELSE "end"
IsWord(s, k) == Tok(s, k) \notin symbols \cup {"end"}
peek(s, toks) == Tok(s, 1) \in toks
Drop(s, k) == SubSeq(s, k + 1, Len(s))
Parsed(c, s) == [cmd |-> c, rest |-> s, bad |-> FALSE]
Bad == [cmd |-> NoCmd, rest |-> << >>, bad |-> TRUE]
\* Go on with the rest of a parse that did not fail.  (A set of one element, so
\* that TLC computes x once.)
Then(x, F(_, _)) ==
    CHOOSE y \in {IF z.bad THEN Bad ELSE F(z.cmd, z.rest) : z \in {x}} : TRUE

RECURSIVE parseredirs(_, _)
parseredirs(c, s) ==
    IF ~peek(s, {"<", ">", ">>"}) THEN Parsed(c, s)
    ELSE IF ~IsWord(s, 2) THEN Bad
    ELSE parseredirs(REDIR(c, s[2], IF s[1] = "<" THEN 0 ELSE 1), Drop(s, 2))

RECURSIVE withArgs(_, _)
\* The command inside any redirections gets one more word.
withArgs(c, argc) == IF c.type = "REDIR" THEN [c EXCEPT !.cmd = withArgs(c.cmd, argc)] ELSE EXEC(argc)

RECURSIVE parsewords(_, _, _)
parsewords(c, argc, s) ==
    IF s = << >> \/ peek(s, {"|", ")", "&", ";"}) THEN Parsed(withArgs(c, argc), s)
    ELSE IF ~IsWord(s, 1) \/ argc + 1 >= MAXARGS THEN Bad
    ELSE Then(parseredirs(c, Tail(s)), LAMBDA d, t : parsewords(d, argc + 1, t))

RECURSIVE parseline(_)
RECURSIVE parsepipe(_)
RECURSIVE parsebacks(_, _)

parseblock(s) ==
    Then(parseline(Tail(s)), LAMBDA c, t : IF peek(t, {")"}) THEN parseredirs(c, Tail(t)) ELSE Bad)

parseexec(s) ==
    IF peek(s, {"("}) THEN parseblock(s)
    ELSE Then(parseredirs(EXEC(0), s), LAMBDA c, t : parsewords(c, 0, t))

parsepipe(s) ==
    Then(parseexec(s), LAMBDA c, t :
      IF peek(t, {"|"}) THEN Then(parsepipe(Tail(t)), LAMBDA d, u : Parsed(PIPE(c, d), u))
      ELSE Parsed(c, t))

parsebacks(c, s) == IF peek(s, {"&"}) THEN parsebacks(BACK(c), Tail(s)) ELSE Parsed(c, s)

parseline(s) ==
    Then(parsepipe(s), LAMBDA c0, t0 :
      Then(parsebacks(c0, t0), LAMBDA c, t :
        IF peek(t, {";"}) THEN Then(parseline(Tail(t)), LAMBDA d, u : Parsed(LIST(c, d), u))
        ELSE Parsed(c, t)))

parsecmd(s) == Then(parseline(s), LAMBDA c, t : IF t = << >> THEN Parsed(c, t) ELSE Bad)
------------------------------------------------------------------------
VARIABLES
    session,   \* the lines still to come
    line,      \* the line the shell read last
    proc       \* the processes

svars == <<session, line, proc>>
input == <<session, line>>

Slot == 1 .. NSLOT
init == 1
Fd == 0 .. (NOFILE - 1)
closed == [what |-> "closed"]
console == [what |-> "console"]
file(name) == [what |-> "file", name |-> name]
end(e, k) == [what |-> e, pipe |-> k]

Free == [pc |-> "unused", cmd |-> NoCmd, fds |-> [f \in Fd |-> closed], p |-> NOFILE,
         parent |-> 0, child |-> 0, tree |-> NoCmd, path |-> << >>]
Stdio == [f \in Fd |-> IF f < 3 THEN console ELSE closed]

Init ==
    /\ session \in Sessions /\ line = << >>
    /\ proc = [i \in Slot |-> IF i = init THEN [Free EXCEPT !.pc = "init", !.fds = Stdio] ELSE Free]

At(i, l) == proc[i].pc = l
Set(i, r) == proc' = [proc EXCEPT ![i] = r]
Goto(i, l) == Set(i, [proc[i] EXCEPT !.pc = l])

Lowest(fds) == CHOOSE f \in Fd : fds[f] = closed /\ \A g \in 0 .. (f - 1) : fds[g] # closed
Close(fds, f) == [fds EXCEPT ![f] = closed]
Dup(fds, f) == [fds EXCEPT ![Lowest(fds)] = fds[f]]
Open(e, k) == \E i \in Slot, f \in Fd : proc[i].fds[f] = end(e, k)

\* The kernel's exit(): init takes the children over.
Exit(i) ==
    proc' = [j \in Slot |->
                IF j = i THEN [Free EXCEPT !.pc = "zombie", !.parent = proc[i].parent]
                ELSE IF proc[j].parent = i THEN [proc[j] EXCEPT !.parent = init]
                ELSE proc[j]]

\* fork1(): the child goes on at pcChild with command c, the parent at pcParent;
\* when there is no slot left the parent calls panic(), which is exit(1).
fork1(i, pcChild, c, dir, pcParent) ==
    IF \A q \in Slot : proc[q].pc # "unused" THEN Exit(i)
    ELSE LET q == CHOOSE q \in Slot : At(q, "unused") /\ \A r \in 1 .. (q - 1) : ~At(r, "unused")
         IN  proc' = [proc EXCEPT
                ![q] = [proc[i] EXCEPT !.pc = pcChild, !.cmd = c, !.parent = i, !.child = 0,
                                       !.path = @ \o dir],
                ![i] = [@ EXCEPT !.pc = pcParent, !.child = IF i = init THEN q ELSE 0]]

\* wait(): the process of a child that has exited; 0 (an error) without children.
Child(i) == {j \in Slot : proc[j].parent = i}
Reaps(i, j) == j \in Child(i) /\ At(j, "zombie")
------------------------------------------------------------------------
\* init: start a shell; wait; when it was the shell that exited, start it again.
init_fork == At(init, "init") /\ fork1(init, "prompt", NoCmd, << >>, "init wait") /\ UNCHANGED input

init_wait ==
    /\ At(init, "init wait")
    /\ \E j \in Slot :
         /\ Reaps(init, j)
         /\ proc' = [proc EXCEPT ![j] = Free,
                                 ![init].pc = IF j = proc[init].child THEN "init" ELSE "init wait"]
    /\ UNCHANGED input

\* main() of the shell: the end of the input, a cd, or a line for a child to run.
main(i) ==
    /\ At(i, "prompt")
    /\ \/ Exit(i) /\ UNCHANGED input
       \/ UNCHANGED svars
       \/ /\ session # << >> /\ line' = Head(session) /\ session' = Tail(session)
          /\ Goto(i, "fork")

main_fork(i) == At(i, "fork") /\ fork1(i, "parsecmd", NoCmd, << >>, "wait") /\ UNCHANGED input

child_parse(i) ==
    /\ At(i, "parsecmd")
    /\ LET x == parsecmd(line.line)
       IN  IF x.bad THEN Exit(i)
           ELSE Set(i, [proc[i] EXCEPT !.pc = "runcmd", !.cmd = x.cmd, !.tree = line.tree])
    /\ UNCHANGED input

\* Where a process goes on when wait() returns.
afterWaitOnce(i) ==
    CASE At(i, "wait") -> [proc[i] EXCEPT !.pc = "prompt"]
      [] At(i, "wait for left") ->
           [proc[i] EXCEPT !.pc = "runcmd", !.cmd = proc[i].cmd.right, !.path = Append(@, "right")]
      [] OTHER -> [proc[i] EXCEPT !.pc = "exit"]

afterWait(i) ==
    CASE At(i, "wait") -> [proc[i] EXCEPT !.pc = "prompt"]
      [] At(i, "wait for left") ->
           [proc[i] EXCEPT !.pc = "runcmd", !.cmd = proc[i].cmd.right, !.path = Append(@, "right")]
      [] At(i, "wait for two") -> [proc[i] EXCEPT !.pc = "wait for one"]
      [] At(i, "wait for one") -> [proc[i] EXCEPT !.pc = "exit"]

wait(i) ==
    /\ proc[i].pc \in {"wait", "wait for left", "wait for two", "wait for one"}
    /\ \E j \in Slot : Reaps(i, j) /\ proc' = [proc EXCEPT ![j] = Free, ![i] = afterWait(i)]
    /\ UNCHANGED input
------------------------------------------------------------------------
\* runcmd()
Runs(i, type) == At(i, "runcmd") /\ proc[i].cmd.type = type

\* An exec() that fails leads to exit() like an EXEC without words.
runcmd_exec(i) ==
    /\ Runs(i, "EXEC")
    /\ \/ proc[i].cmd.argc > 0 /\ Goto(i, "program")
       \/ Goto(i, "exit")
    /\ UNCHANGED input

runcmd_redir(i) ==
    /\ Runs(i, "REDIR")
    /\ \/ LET fds == Close(proc[i].fds, proc[i].cmd.fd)
          IN  Set(i, [proc[i] EXCEPT !.fds = [fds EXCEPT ![Lowest(fds)] = file(proc[i].cmd.file)],
                                     !.cmd = @.cmd, !.path = Append(@, "cmd")])
       \/ Goto(i, "exit")                              \* open() failed
    /\ UNCHANGED input

runcmd_list(i) ==
    /\ Runs(i, "LIST")
    /\ fork1(i, "runcmd", proc[i].cmd.left, <<"left">>, "wait for left")
    /\ UNCHANGED input

runcmd_back(i) ==
    Runs(i, "BACK") /\ fork1(i, "runcmd", proc[i].cmd.cmd, <<"cmd">>, "exit") /\ UNCHANGED input

\* pipe(p): the two lowest free descriptors; p is the first.  A pipe is known by
\* the part of the line it is for and a number.
runcmd_pipe(i) ==
    /\ Runs(i, "PIPE")
    /\ \/ LET k == CHOOSE n \in Slot :
                      /\ ~Open("r", <<proc[i].path, n>>) /\ ~Open("w", <<proc[i].path, n>>)
                      /\ \A m \in 1 .. (n - 1) : Open("r", <<proc[i].path, m>>) \/ Open("w", <<proc[i].path, m>>)
              p0 == Lowest(proc[i].fds)
              fds == [proc[i].fds EXCEPT ![p0] = end("r", <<proc[i].path, k>>)]
          IN  Set(i, [proc[i] EXCEPT !.pc = "fork left", !.p = p0,
                                     !.fds = [fds EXCEPT ![Lowest(fds)] = end("w", <<proc[i].path, k>>)]])
       \/ Exit(i)                                      \* panic("pipe")
    /\ UNCHANGED input

fork_left(i) ==
    At(i, "fork left") /\ fork1(i, "left", proc[i].cmd.left, <<"left">>, "fork right") /\ UNCHANGED input
fork_right(i) ==
    At(i, "fork right") /\ fork1(i, "right", proc[i].cmd.right, <<"right">>, "close") /\ UNCHANGED input

p1(i) == CHOOSE f \in Fd : proc[i].fds[f] = end("w", proc[i].fds[proc[i].p].pipe) /\ f > proc[i].p
\* close(p[0]), close(p[1])
ClosePipe(fds, i) == Close(Close(fds, proc[i].p), p1(i))

pipe_left(i) ==
    /\ At(i, "left")
    /\ Set(i, [proc[i] EXCEPT !.pc = "runcmd", !.p = NOFILE,
                              !.fds = ClosePipe(Dup(Close(@, 1), p1(i)), i)])
    /\ UNCHANGED input

pipe_right(i) ==
    /\ At(i, "right")
    /\ Set(i, [proc[i] EXCEPT !.pc = "runcmd", !.p = NOFILE,
                              !.fds = ClosePipe(Dup(Close(@, 0), proc[i].p), i)])
    /\ UNCHANGED input

pipe_parent(i) ==
    /\ At(i, "close")
    /\ Set(i, [proc[i] EXCEPT !.pc = "wait for two", !.p = NOFILE, !.fds = ClosePipe(@, i)])
    /\ UNCHANGED input

exit(i) == At(i, "exit") /\ Exit(i) /\ UNCHANGED input

\* A program ends, after its standard input when that is a pipe.
program(i) ==
    /\ At(i, "program")
    /\ LET in == proc[i].fds[0] IN in.what = "r" => ~Open("w", in.pipe)
    /\ Exit(i)
    /\ UNCHANGED input

step(i) ==
    \/ main_fork(i) \/ child_parse(i) \/ wait(i) \/ runcmd_exec(i) \/ runcmd_redir(i)
    \/ runcmd_list(i) \/ runcmd_back(i) \/ runcmd_pipe(i) \/ fork_left(i) \/ fork_right(i)
    \/ pipe_left(i) \/ pipe_right(i) \/ pipe_parent(i) \/ exit(i) \/ program(i)

\* Everything but what the user does at the prompt.  When init exits the kernel
\* panics.
running == ~At(init, "zombie") /\ (init_fork \/ init_wait \/ \E i \in Slot : step(i))

Next == running \/ (~At(init, "zombie") /\ \E i \in Slot : main(i))

Spec == Init /\ [][Next]_svars
------------------------------------------------------------------------
\* The standard input and output that each program of command c is to have, when c
\* has in and out: a pipeline connects its two sides, and of several redirections
\* of the same descriptor the one next to the program counts.
RECURSIVE Wiring(_, _, _, _)
Wiring(c, path, in, out) ==
    CASE c.type = "none" -> {}
      [] c.type = "EXEC" -> {<<path, in, out>>}
      [] c.type = "REDIR" -> Wiring(c.cmd, Append(path, "cmd"),
                                    IF c.fd = 0 THEN file(c.file) ELSE in,
                                    IF c.fd = 1 THEN file(c.file) ELSE out)
      [] c.type = "BACK" -> Wiring(c.cmd, Append(path, "cmd"), in, out)
      [] c.type = "LIST" -> Wiring(c.left, Append(path, "left"), in, out)
                              \cup Wiring(c.right, Append(path, "right"), in, out)
      [] c.type = "PIPE" -> Wiring(c.left, Append(path, "left"), in, end("w", path))
                              \cup Wiring(c.right, Append(path, "right"), end("r", path), out)

\* The part of the line a pipe is for, without its number.
Plain(d) == IF d.what \in {"r", "w"} THEN end(d.what, d.pipe[1]) ELSE d

\* A program that the shell starts is one of the line that was typed, its standard
\* input and output are those that its place in the line says, its standard error
\* is the console, and no other descriptor is open, in particular no end of a pipe.
\* What is run is the command that the line stands for, and nothing of a line
\* with a syntax error.
Connected ==
    /\ \A i \in Slot : At(i, "runcmd") /\ proc[i].path = << >> => proc[i].cmd = proc[i].tree
    /\ \A i \in Slot : At(i, "program") =>
          LET d == proc[i].fds
          IN  /\ <<proc[i].path, Plain(d[0]), Plain(d[1])>>
                     \in Wiring(proc[i].tree, << >>, console, console)
              /\ d[2] = console
              /\ \A f \in Fd : f > 2 => d[f] = closed

\* The shell prompts, a program starts and a part of a line ends only after
\* everything they come after has ended: a process there has no children, except
\* that a command in the background leaves its child to init.
Waited ==
    \A i, j \in Slot :
       proc[i].pc \in {"prompt", "program", "exit"} /\ proc[j].parent = i =>
          At(i, "exit") /\ proc[i].cmd.type = "BACK"

\* When the programs end, there is a prompt again and again, whatever is typed,
\* though slots run out and the shell itself may exit; unless init finds no slot
\* for a new shell and exits.
PromptReturns == []<>(\E i \in Slot : At(i, "prompt")) \/ <>At(init, "zombie")
========================================================================
