------------------------------ MODULE Uart ------------------------------
(***************************************************************************)
(* The output side of the serial port (kernel/uart.c, and consolewrite()   *)
(* of kernel/console.c): the ring of characters between write() calls and  *)
(* the UART, which uartstart() empties both from uartputc() and from the   *)
(* interrupt handler.  uartputc_sync() gives the UART characters without   *)
(* taking uart_tx_lock, so that reading LSR and writing THR are steps of   *)
(* their own.                                                              *)
(*                                                                         *)
(* External: the UART.  It reports LSR_TX_IDLE while its transmit FIFO is  *)
(* empty, loses what is written to a full FIFO, and raises an interrupt    *)
(* when the FIFO becomes empty.                                            *)
(*                                                                         *)
(* Faulty variants of a definition stand right before it (such as          *)
(* depthNoFifo); they only serve to show that a property can fail.         *)
(***************************************************************************)
EXTENDS Integers, Sequences, FiniteSets

CONSTANTS
    Writer,            \* processes that call write() on the console
    Reader,            \* processes that call read() on the console
    Intr,              \* the interrupt handler; the PLIC serves one at a time
    NoProc,
    Byte,
    Echo,              \* a character given to the UART by uartputc_sync()
    NoByte,
    UART_TX_BUF_SIZE,
    UINT64,            \* values of a uint64: 2^64 in the kernel
    FIFO,              \* characters the UART's FIFO takes: 16
    MaxN               \* bound on the bytes asked for by one call

ASSUME UartAssumption ==
    /\ Intr \notin Writer \cup Reader /\ NoProc \notin Writer \cup Reader \cup {Intr}
    /\ Echo \notin Byte /\ NoByte \notin Byte \cup {Echo}
    /\ UART_TX_BUF_SIZE \in Nat \ {0} /\ UINT64 \in Nat /\ UINT64 % UART_TX_BUF_SIZE = 0
    /\ UART_TX_BUF_SIZE < UINT64 /\ FIFO \in Nat \ {0} /\ MaxN \in Nat \ {0}

Actor == Writer \cup Reader \cup {Intr}

VARIABLES
    tx_buf, tx_r, tx_w,  \* uart_tx_buf and its counters
    tx_lk,               \* holder of uart_tx_lock
    thr,                 \* c of uartstart(), between uart_tx_r += 1 and WriteReg
    fifo, irq,           \* the UART: its transmit FIFO, its interrupt request
    pc, left             \* where everybody is, the bytes left of its call

ring == <<tx_buf, tx_r, tx_w>>
uart == <<ring, tx_lk, thr>>
device == <<fifo, irq>>

InitUart ==
    /\ tx_buf = [k \in 0 .. (UART_TX_BUF_SIZE - 1) |-> NoByte]
    /\ tx_r = 0 /\ tx_w = 0
    /\ tx_lk = NoProc
    /\ thr = NoByte
    /\ fifo = << >> /\ irq = FALSE
    /\ pc = [a \in Actor |-> IF a = Intr THEN "idle" ELSE "user"]
    /\ left = [a \in Actor |-> 0]

Goto(a, l) == pc' = [pc EXCEPT ![a] = l]
Idle == fifo = << >>
Full == tx_w = (tx_r + UART_TX_BUF_SIZE) % UINT64

\* uartinit() enables the FIFOs; without them the UART has one register.
depthNoFifo == 1
depth == FIFO
WriteTHR(c) == fifo' = IF Len(fifo) < depth THEN Append(fifo, c) ELSE fifo

\* The device puts a character on the wire.
transmit ==
    /\ fifo # << >>
    /\ fifo' = Tail(fifo)
    /\ irq' = (irq \/ Tail(fifo) = << >>)
    /\ UNCHANGED <<uart, pc, left>>
------------------------------------------------------------------------
consolewrite(p, n) ==
    /\ pc[p] = "user"
    /\ left' = [left EXCEPT ![p] = n]
    /\ Goto(p, "putc")
    /\ UNCHANGED <<uart, device>>

\* either_copyin() fails and ends the call.
consolewrite_fault(p) ==
    /\ pc[p] = "putc"
    /\ left' = [left EXCEPT ![p] = 0]
    /\ Goto(p, "user")
    /\ UNCHANGED <<uart, device>>

\* uartputc(), before uartstart(): wait for room, store the character.
uartputc_full(p) ==
    /\ pc[p] = "putc" /\ tx_lk = NoProc /\ Full
    /\ Goto(p, "sleep on tx_r")
    /\ UNCHANGED <<uart, device, left>>

uartputc(p, c) ==
    /\ pc[p] = "putc" /\ tx_lk = NoProc /\ ~Full
    /\ tx_lk' = p
    /\ tx_buf' = [tx_buf EXCEPT ![tx_w % UART_TX_BUF_SIZE] = c]
    /\ tx_w' = (tx_w + 1) % UINT64
    /\ left' = [left EXCEPT ![p] = @ - 1]
    /\ Goto(p, "start")
    /\ UNCHANGED <<tx_r, thr, device>>

\* One turn of uartstart(), run by the holder a of uart_tx_lock.
uartstart_return(a) ==
    /\ pc[a] = "start"
    /\ tx_w = tx_r \/ ~Idle
    /\ tx_lk' = NoProc
    /\ Goto(a, IF a = Intr THEN "idle" ELSE IF left[a] > 0 THEN "putc" ELSE "user")
    /\ UNCHANGED <<ring, thr, device, left>>

\* wakeup(&uart_tx_r) makes the writers that sleep try again.
uartstart_take(a) ==
    /\ pc[a] = "start" /\ tx_w # tx_r /\ Idle
    /\ thr' = tx_buf[tx_r % UART_TX_BUF_SIZE]
    /\ tx_r' = (tx_r + 1) % UINT64
    /\ pc' = [b \in Actor |-> IF b = a THEN "WriteReg"
                              ELSE IF pc[b] = "sleep on tx_r" THEN "putc" ELSE pc[b]]
    /\ UNCHANGED <<tx_buf, tx_w, tx_lk, device, left>>

uartstart_write(a) ==
    /\ pc[a] = "WriteReg"
    /\ WriteTHR(thr)
    /\ thr' = NoByte
    /\ Goto(a, "start")
    /\ UNCHANGED <<ring, tx_lk, irq, left>>

uartstart(a) == uartstart_return(a) \/ uartstart_take(a) \/ uartstart_write(a)

write(p) ==
    \/ uartputc_full(p)
    \/ \E c \in Byte : uartputc(p, c)
    \/ uartstart(p)
------------------------------------------------------------------------
\* The characters of write() calls that are on their way, oldest first: in the
\* UART, in the hands of uartstart(), in the ring.
Ring == [k \in 1 .. (tx_w - tx_r) % UINT64 |-> tx_buf[(tx_r + k - 1) % UART_TX_BUF_SIZE]]
Written(s) ==
    LET K == {k \in DOMAIN s : s[k] # Echo}
        Nth(n) == CHOOSE k \in K : Cardinality({j \in K : j <= k}) = n
    IN  [n \in 1 .. Cardinality(K) |-> s[Nth(n)]]
Underway == Written(fifo) \o (IF thr = NoByte THEN << >> ELSE <<thr>>) \o Ring

Output == INSTANCE ByteQueue WITH
    q <- Underway, readopen <- TRUE, writeopen <- TRUE, PIPESIZE <- UART_TX_BUF_SIZE + 2

\* A character leaves the queue only by being transmitted, never by being lost.
NoneLost == Len(Underway') < Len(Underway) => fifo # << >> /\ fifo' = Tail(fifo)

\* What write() calls put on the wire is a first-in first-out queue: every
\* character is transmitted once and in the order of the calls to uartputc(),
\* although the handler and the writers both feed the UART and the echo of
\* typed characters is written to THR without uart_tx_lock.
OutputInOrder == Output!Spec /\ [][NoneLost]_<<uart, fifo>>
========================================================================
