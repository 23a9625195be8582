---------------------------- MODULE Console ----------------------------
(***************************************************************************)
(* The console (kernel/console.c) on top of the serial port: the line      *)
(* discipline of consoleintr(), its echo, read() calls that wait for a     *)
(* line, kill(), and the interrupt handler uartintr() that serves input    *)
(* and output.  sleep(chan, lk) releases lk and sleeps in one step, which  *)
(* is what module Sched establishes for it.                                *)
(*                                                                         *)
(* External: the keyboard, which types at most MaxTyped keys, each once    *)
(* the one before has been taken from the UART.                            *)
(*                                                                         *)
(* Faulty variants of a definition stand right before it (such as          *)
(* killNoWake); they only serve to show that a property can fail.          *)
(***************************************************************************)
EXTENDS Uart

CONSTANTS
    Key,               \* typed: "cr" return, "D" "H" "U" "P" with control,
                       \* "nul", and any others
    Killable,          \* readers that somebody may kill
    INPUT_BUF_SIZE,
    UINT,              \* values of an unsigned int: 2^32 in the kernel
    MaxTyped,
    Loads              \* uses of the console: records of procs and keys

ASSUME ConsoleAssumption ==
    /\ Killable \subseteq Reader
    /\ INPUT_BUF_SIZE \in Nat \ {0} /\ UINT \in Nat /\ UINT % INPUT_BUF_SIZE = 0
    /\ INPUT_BUF_SIZE < UINT
    /\ MaxTyped \in Nat
    /\ \A l \in Loads : l.procs \subseteq Writer \cup Reader /\ l.keys \subseteq Key

VARIABLES
    buf, r, w, e,   \* cons
    cons_lk,        \* holder of cons.lock
    echo,           \* calls of uartputc_sync() that consoleintr() has still to make
    rx, typed,      \* characters the UART has received, keys typed so far
    target,         \* of each consoleread()
    killed,
    load            \* the use of the console in this behaviour

cons == <<buf, r, w, e, cons_lk, echo>>
keyboard == <<rx, typed>>
reads == <<target, killed, load>>
vars == <<uart, device, pc, left, cons, keyboard, reads>>

Char == (Key \ {"cr", "U", "H", "P", "nul"}) \cup {"nl"}

Init ==
    /\ InitUart
    /\ buf = [k \in 0 .. (INPUT_BUF_SIZE - 1) |-> "nul"]
    /\ r = 0 /\ w = 0 /\ e = 0
    /\ cons_lk = NoProc /\ echo = 0
    /\ rx = << >> /\ typed = 0
    /\ target = [p \in Reader |-> 0] /\ killed = {}
    /\ load \in Loads

type(k) ==
    /\ typed < MaxTyped /\ rx = << >>
    /\ rx' = Append(rx, k)
    /\ typed' = typed + 1
    /\ UNCHANGED <<uart, device, pc, left, cons, reads>>
------------------------------------------------------------------------
\* uartintr(), entered for a received character or an empty FIFO.
uartintr ==
    /\ pc[Intr] = "idle" /\ (irq \/ rx # << >>)
    /\ irq' = FALSE
    /\ Goto(Intr, "getc")
    /\ UNCHANGED <<uart, fifo, left, cons, keyboard, reads>>

\* uartgetc() has no more characters; send buffered characters.
uartintr_startNot ==
    /\ pc[Intr] = "getc" /\ rx = << >>
    /\ Goto(Intr, "idle")
    /\ UNCHANGED <<uart, device, left, cons, keyboard, reads>>

uartintr_start ==
    /\ pc[Intr] = "getc" /\ rx = << >> /\ tx_lk = NoProc
    /\ tx_lk' = Intr
    /\ Goto(Intr, "start")
    /\ UNCHANGED <<ring, thr, device, left, cons, keyboard, reads>>

Sub(x, y) == (x - y) % UINT
At(x) == x % INPUT_BUF_SIZE

\* consoleintr(c) with a character c from the UART.  It holds cons.lock while it
\* echoes: one call of uartputc_sync(), or three for BACKSPACE.
takes(c) ==
    /\ pc[Intr] = "getc" /\ rx # << >> /\ Head(rx) = c /\ cons_lk = NoProc
    /\ cons_lk' = Intr
    /\ rx' = Tail(rx)
    /\ UNCHANGED <<uart, device, left, r, typed, reads>>

\* procdump(): output only.
consoleintr_dump ==
    /\ takes("P")
    /\ echo' = 1
    /\ Goto(Intr, "echo")
    /\ UNCHANGED <<buf, w, e>>

\* The loop over the characters of the line, back to one that is a newline.
killTo ==
    LET Stops(k) == k = Sub(e, w) \/ buf[At(Sub(e, k + 1))] = "nl"
    IN  CHOOSE k \in 0 .. INPUT_BUF_SIZE : Stops(k) /\ \A j \in 0 .. (k - 1) : ~Stops(j)

consoleintr_kill ==
    /\ takes("U")
    /\ e' = Sub(e, killTo)
    /\ echo' = 3 * killTo
    /\ Goto(Intr, "echo")
    /\ UNCHANGED <<buf, w>>

eraseCommitted == e # r
erasable == e # w
consoleintr_erase ==
    /\ takes("H")
    /\ e' = IF erasable THEN Sub(e, 1) ELSE e
    /\ echo' = IF erasable THEN 3 ELSE 0
    /\ Goto(Intr, "echo")
    /\ UNCHANGED <<buf, w>>

\* A line is complete: after a newline, ^D, or when the buffer is full.
lineComplete(c, e2) == c \in {"nl", "D"} \/ Sub(e2, r) = INPUT_BUF_SIZE

consoleintr_store ==
    \E k \in Key \ {"P", "U", "H"} :
        LET c == IF k = "cr" THEN "nl" ELSE k
            e2 == (e + 1) % UINT
            stored == k # "nul" /\ Sub(e, r) < INPUT_BUF_SIZE
            complete == stored /\ lineComplete(c, e2)
        IN  /\ takes(k)
            /\ echo' = IF stored THEN 1 ELSE 0
            /\ buf' = IF stored THEN [buf EXCEPT ![At(e)] = c] ELSE buf
            /\ e' = IF stored THEN e2 ELSE e
            /\ w' = IF complete THEN e2 ELSE w
            /\ pc' = [a \in Actor |->
                        IF a = Intr THEN "echo"
                        ELSE IF complete /\ pc[a] = "sleep on r" THEN "acquire" ELSE pc[a]]

\* uartputc_sync(): wait until LSR says idle, then write THR.
uartputc_sync_wait ==
    /\ pc[Intr] = "echo" /\ echo > 0 /\ Idle
    /\ Goto(Intr, "sync")
    /\ UNCHANGED <<uart, device, left, cons, keyboard, reads>>

uartputc_sync ==
    /\ pc[Intr] = "sync"
    /\ WriteTHR(Echo)
    /\ echo' = echo - 1
    /\ Goto(Intr, "echo")
    /\ UNCHANGED <<uart, irq, left, buf, r, w, e, cons_lk, keyboard, reads>>

consoleintr_end ==
    /\ pc[Intr] = "echo" /\ echo = 0
    /\ cons_lk' = NoProc
    /\ Goto(Intr, "getc")
    /\ UNCHANGED <<uart, device, left, buf, r, w, e, echo, keyboard, reads>>

consoleintr ==
    \/ consoleintr_dump
    \/ consoleintr_kill
    \/ consoleintr_erase
    \/ consoleintr_store
    \/ uartputc_sync_wait
    \/ uartputc_sync
    \/ consoleintr_end
------------------------------------------------------------------------
consoleread(p, n) ==
    /\ pc[p] = "user" /\ p \notin killed
    /\ left' = [left EXCEPT ![p] = n]
    /\ target' = [target EXCEPT ![p] = n]
    /\ Goto(p, "acquire")
    /\ UNCHANGED <<uart, device, cons, keyboard, killed, load>>

\* acquire(&cons.lock), by consoleread() or on return from sleep()
acquire(p) ==
    /\ pc[p] = "acquire" /\ cons_lk = NoProc
    /\ cons_lk' = p
    /\ Goto(p, "read")
    /\ UNCHANGED <<uart, device, left, buf, r, w, e, echo, keyboard, reads>>

returns(p) ==
    /\ cons_lk' = NoProc
    /\ target' = [target EXCEPT ![p] = 0]
    /\ Goto(p, "user")

\* Nothing to read: a killed process gives up, others sleep.
consoleread_wait(p) ==
    /\ pc[p] = "read" /\ r = w
    /\ IF p \in killed
       THEN returns(p) /\ left' = [left EXCEPT ![p] = 0]
       ELSE Goto(p, "sleep on r") /\ cons_lk' = NoProc /\ UNCHANGED <<left, target>>
    /\ UNCHANGED <<uart, device, buf, r, w, e, echo, keyboard, killed, load>>

\* One character, unless copied is false: either_copyout() fails and ends the
\* call.  ^D ends the call too; it stays if the call has characters to return.
keepsD(p) == left[p] < target[p]
consoleread_get(p, copied) ==
    LET c == buf[At(r)] IN
    /\ pc[p] = "read" /\ r # w
    /\ r' = IF c = "D" /\ keepsD(p) THEN r ELSE (r + 1) % UINT
    /\ IF c \in {"D", "nl"} \/ ~copied \/ left[p] = 1
       THEN returns(p) /\ left' = [left EXCEPT ![p] = 0]
       ELSE left' = [left EXCEPT ![p] = @ - 1] /\ UNCHANGED <<cons_lk, target, pc>>
    /\ UNCHANGED <<uart, device, buf, w, e, echo, keyboard, killed, load>>

\* kill() of a reader, which wakes it if it sleeps.
killNoWake(p) ==
    /\ killed' = killed \cup {p}
    /\ UNCHANGED <<uart, device, pc, left, cons, keyboard, target, load>>

kill(p) ==
    /\ killed' = killed \cup {p}
    /\ pc' = [pc EXCEPT ![p] = IF @ = "sleep on r" THEN "acquire" ELSE @]
    /\ UNCHANGED <<uart, device, left, cons, keyboard, target, load>>

read(p) == acquire(p) \/ consoleread_wait(p) \/ \E copied \in BOOLEAN : consoleread_get(p, copied)
------------------------------------------------------------------------
intr == (uartstart(Intr) /\ UNCHANGED <<cons, keyboard, reads>>) \/ uartintr_start \/ consoleintr

Next ==
    \/ uartintr \/ intr
    \/ transmit /\ UNCHANGED <<cons, keyboard, reads>>
    \/ \E k \in load.keys : type(k)
    \/ \E p \in Writer \cap load.procs :
         /\ (\E n \in 1 .. MaxN : consolewrite(p, n)) \/ consolewrite_fault(p) \/ write(p)
         /\ UNCHANGED <<cons, keyboard, reads>>
    \/ \E p \in Reader \cap load.procs : (\E n \in 1 .. MaxN : consoleread(p, n)) \/ read(p)
    \/ \E p \in Killable \cap load.procs : kill(p)

Spec == Init /\ [][Next]_vars

\* The UART transmits, interrupts are taken, and a process inside a call goes on.
\* Nobody has to start a call, type a key, or be killed.
FairSpec ==
    /\ Spec
    /\ WF_vars(transmit /\ UNCHANGED <<cons, keyboard, reads>>)
    /\ WF_vars(uartintr \/ intr)
    /\ \A p \in Writer : WF_vars(write(p) /\ UNCHANGED <<cons, keyboard, reads>>)
    /\ \A p \in Reader : WF_vars(read(p))
------------------------------------------------------------------------
Slice(from, to) == [k \in 1 .. Sub(to, from) |-> buf[At(from + k - 1)]]

Lines == INSTANCE LineQueue WITH
    done <- Slice(r, w), edit <- Slice(w, e), Ends <- {"nl", "D"}, SIZE <- INPUT_BUF_SIZE

\* consoleintr() and consoleread() implement a queue of lines: erasing and
\* killing never reach what was handed to readers, every typed character that
\* is kept is read once and in order, and a line that fills the buffer is
\* handed over, across both wrap-arounds of the counters.
LinesKept == Lines!Spec

\* Nobody sleeps who has no reason to: a reader asleep on cons.r has nothing to
\* read and was not killed, a writer asleep on uart_tx_r finds the ring full.
SleepersMustWait ==
    /\ \A p \in Reader : pc[p] = "sleep on r" => r = w /\ p \notin killed
    /\ \A p \in Writer : pc[p] = "sleep on tx_r" => Full

\* Output never stalls: while the ring holds characters uart_tx_r moves on, even
\* if uartstart() found the UART busy with an echo and left it to the next
\* interrupt.  A writer asleep in uartputc() is therefore woken.
OutputMoves == \A k \in 0 .. (UINT64 - 1) : (tx_r = k /\ tx_w # k) ~> tx_r # k
========================================================================
