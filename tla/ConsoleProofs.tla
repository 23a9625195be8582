------------------------- MODULE ConsoleProofs -------------------------
(***************************************************************************)
(* Proofs about Console and Uart, for any number of readers and writers,   *)
(* any keys, and any sizes of the two rings and of their counters: nobody  *)
(* sleeps who has no reason to, the input ring with its three counters is  *)
(* a queue of lines, and what write() calls put on the wire is a first-in  *)
(* first-out queue although echo goes to the UART without uart_tx_lock.    *)
(***************************************************************************)
EXTENDS Console, Rings

\* Where a process or the interrupt handler is.
Place == {"user", "putc", "sleep on tx_r", "start", "WriteReg", "acquire", "read", "sleep on r",
          "idle", "getc", "echo", "sync"}

\* Everybody is somewhere, and nobody sleeps without reason.
WaitInv == pc \in [Actor -> Place] /\ SleepersMustWait

\* The counters of the input ring follow one another, no more than its size
\* apart, and a newline is never left in the line that can be edited.
LineInv ==
    /\ r \in 0 .. (UINT - 1) /\ w \in 0 .. (UINT - 1) /\ e \in 0 .. (UINT - 1)
    /\ DOMAIN buf = 0 .. (INPUT_BUF_SIZE - 1)
    /\ Sub(e, r) = Sub(w, r) + Sub(e, w)
    /\ Sub(e, r) <= INPUT_BUF_SIZE
    /\ Slice(w, e) \in Seq(Char \ {"nl"})

\* uart_tx_lock is held by whoever is inside uartstart(), and a character is in
\* the hands of uartstart() exactly at its WriteReg().
HoldInv ==
    /\ pc \in [Actor -> Place]
    /\ \A a \in Actor : tx_lk = a <=> pc[a] \in {"start", "WriteReg"}
    /\ \A a \in Actor : pc[a] = "WriteReg" => thr \in Byte
    /\ thr # NoByte => \E a \in Actor : pc[a] = "WriteReg"

\* The ring holds no more than its size, all of it characters of write() calls.
RingInv ==
    /\ tx_r \in 0 .. (UINT64 - 1) /\ tx_w \in 0 .. (UINT64 - 1)
    /\ DOMAIN tx_buf = 0 .. (UART_TX_BUF_SIZE - 1)
    /\ (tx_w - tx_r) % UINT64 <= UART_TX_BUF_SIZE
    /\ Ring \in Seq(Byte)

\* What the UART may hold: a character of write(), an echo, or one of each.
Quiet == {<< >>, <<Echo>>}
Single == {<<b>> : b \in Byte}
Double == {<<b, Echo>> : b \in Byte} \cup {<<Echo, b>> : b \in Byte}

\* Whoever has seen the UART idle finds in it at most what the other one wrote
\* since, so that there is room for two.
FifoInv ==
    /\ fifo \in Quiet \cup Single \cup Double
    /\ thr # NoByte => fifo \in Quiet
    /\ pc[Intr] = "sync" => fifo \in {<< >>} \cup Single
    /\ pc[Intr] = "sync" /\ thr # NoByte => fifo = << >>

OutInv == HoldInv /\ RingInv /\ FifoInv
------------------------------------------------------------------------
\* What the proofs use of the constants.
LEMMA Sizes ==
  /\ UINT \in Nat \ {0} /\ INPUT_BUF_SIZE \in Nat \ {0}
  /\ UINT % INPUT_BUF_SIZE = 0 /\ INPUT_BUF_SIZE < UINT
  /\ UINT64 \in Nat \ {0} /\ UART_TX_BUF_SIZE \in Nat \ {0}
  /\ UINT64 % UART_TX_BUF_SIZE = 0 /\ UART_TX_BUF_SIZE < UINT64
BY UartAssumption, ConsoleAssumption

\* The part of it that is about sizes alone.
LEMMA Ranges ==
  /\ UINT \in Nat \ {0} /\ INPUT_BUF_SIZE \in Nat \ {0} /\ INPUT_BUF_SIZE < UINT
  /\ UINT64 \in Nat \ {0} /\ UART_TX_BUF_SIZE \in Nat \ {0} /\ UART_TX_BUF_SIZE < UINT64
BY Sizes

\* Nobody but the handler is the handler.
LEMMA Actors ==
  /\ Writer \subseteq Actor /\ Reader \subseteq Actor /\ Intr \in Actor /\ NoProc \notin Actor
  /\ Intr \notin Writer /\ Intr \notin Reader /\ Killable \subseteq Reader
BY Zenon, UartAssumption, ConsoleAssumption DEF Actor

USE DEF uart, ring, device, cons, keyboard, reads, Goto

\* The use of the console decides who acts and which keys are typed; the proofs
\* hold for all of them.
LEMMA Steps ==
  ASSUME Next
  PROVE  \/ uartintr \/ uartintr_start \/ consoleintr
         \/ transmit /\ UNCHANGED <<cons, keyboard, reads>>
         \/ \E k : type(k)
         \/ \E a \in Writer \cup {Intr} : uartstart(a) /\ UNCHANGED <<cons, keyboard, reads>>
         \/ \E p \in Writer :
              /\ (\E n : consolewrite(p, n)) \/ consolewrite_fault(p) \/ uartputc_full(p)
                   \/ \E c \in Byte : uartputc(p, c)
              /\ UNCHANGED <<cons, keyboard, reads>>
         \/ \E p \in Reader : (\E n : consoleread(p, n)) \/ read(p)
         \/ \E p \in Reader : kill(p)
BY Zenon, Actors DEF Next, intr, write
------------------------------------------------------------------------
\* At first nobody sleeps.
LEMMA InitWait == Init => WaitInv
<1> SUFFICES ASSUME Init PROVE WaitInv
  OBVIOUS
<1>1. \A a \in Actor : pc[a] = "idle" \/ pc[a] = "user"
  BY Zenon DEF Init, InitUart
<1>2. pc \in [Actor -> Place]
  BY Zenon DEF Init, InitUart, Place
<1>3. SleepersMustWait
  BY Zenon, <1>1, Actors DEF SleepersMustWait
<1> QED
  BY <1>2, <1>3 DEF WaitInv

\* A reader goes to sleep when it finds nothing to read and was not killed; it is
\* woken by the line that comes next or by kill().  A writer goes to sleep when it
\* finds the ring full, and is woken by whoever takes a character out.
LEMMA NextWait == WaitInv /\ [Next]_vars => WaitInv'
<1> SUFFICES ASSUME WaitInv, [Next]_vars PROVE WaitInv'
  OBVIOUS
<1> USE Actors DEF WaitInv, SleepersMustWait, Full
<1>1. CASE uartintr
  BY Zenon, <1>1 DEF uartintr, Place
<1>2. CASE uartintr_start
  BY Zenon, <1>2 DEF uartintr_start, Place
<1>3. CASE consoleintr_dump
  BY Zenon, <1>3 DEF consoleintr_dump, takes, Place
<1>4. CASE consoleintr_kill
  BY Zenon, <1>4 DEF consoleintr_kill, takes, Place
<1>5. CASE consoleintr_erase
  BY Zenon, <1>5 DEF consoleintr_erase, takes, Place
<1>6. CASE consoleintr_store
  <2>1. PICK complete \in BOOLEAN :
          /\ ~complete => w' = w
          /\ pc' = [a \in Actor |->
                      IF a = Intr THEN "echo"
                      ELSE IF complete /\ pc[a] = "sleep on r" THEN "acquire" ELSE pc[a]]
          /\ UNCHANGED <<r, killed, tx_r, tx_w>>
    BY <1>6 DEF consoleintr_store, takes
  <2>2. pc' \in [Actor -> Place]
    BY Zenon, <2>1 DEF Place
  <2> QED
    BY Zenon, <2>1, <2>2
<1>7. CASE uartputc_sync_wait
  BY Zenon, <1>7 DEF uartputc_sync_wait, Place
<1>8. CASE uartputc_sync
  BY Zenon, <1>8 DEF uartputc_sync, Place
<1>9. CASE consoleintr_end
  BY Zenon, <1>9 DEF consoleintr_end, Place
<1>10. CASE transmit /\ UNCHANGED <<cons, keyboard, reads>>
  BY Zenon, <1>10 DEF transmit
<1>11. ASSUME NEW k, type(k) PROVE WaitInv'
  BY Zenon, <1>11 DEF type
<1>12. ASSUME NEW a \in Writer \cup {Intr}, uartstart(a), UNCHANGED <<cons, keyboard, reads>>
       PROVE  WaitInv'
  <2>1. CASE uartstart_return(a)
    BY Zenon, <1>12, <2>1 DEF uartstart_return, Place
  <2>2. CASE uartstart_take(a)
    <3>1. pc' \in [Actor -> Place]
      BY Zenon, <1>12, <2>2 DEF uartstart_take, Place
    <3>2. \A b \in Actor : pc'[b] = "sleep on r" => pc[b] = "sleep on r"
      BY Zenon, <1>12, <2>2 DEF uartstart_take, Place
    <3>3. \A b \in Actor : pc'[b] # "sleep on tx_r"
      BY Zenon, <1>12, <2>2 DEF uartstart_take, Place
    <3> QED
      BY Zenon, <1>12, <2>2, <3>1, <3>2, <3>3
  <2>3. CASE uartstart_write(a)
    BY Zenon, <1>12, <2>3 DEF uartstart_write, Place
  <2> QED
    BY Zenon, <1>12, <2>1, <2>2, <2>3 DEF uartstart
<1>13. ASSUME NEW p \in Writer, NEW n, consolewrite(p, n), UNCHANGED <<cons, keyboard, reads>>
       PROVE  WaitInv'
  BY Zenon, <1>13 DEF consolewrite, Place
<1>14. ASSUME NEW p \in Writer, consolewrite_fault(p), UNCHANGED <<cons, keyboard, reads>>
       PROVE  WaitInv'
  BY Zenon, <1>14 DEF consolewrite_fault, Place
<1>15. ASSUME NEW p \in Writer, uartputc_full(p), UNCHANGED <<cons, keyboard, reads>>
       PROVE  WaitInv'
  BY Zenon, <1>15 DEF uartputc_full, Place
<1>16. ASSUME NEW p \in Writer, NEW c \in Byte, uartputc(p, c), UNCHANGED <<cons, keyboard, reads>>
       PROVE  WaitInv'
  BY Zenon, <1>16 DEF uartputc, Place
<1>17. ASSUME NEW p \in Reader, NEW n, consoleread(p, n) PROVE WaitInv'
  BY Zenon, <1>17 DEF consoleread, Place
<1>18. ASSUME NEW p \in Reader, acquire(p) PROVE WaitInv'
  BY Zenon, <1>18 DEF acquire, Place
<1>19. ASSUME NEW p \in Reader, consoleread_wait(p) PROVE WaitInv'
  BY Zenon, <1>19 DEF consoleread_wait, returns, Place
<1>20. ASSUME NEW p \in Reader, NEW copied \in BOOLEAN, consoleread_get(p, copied) PROVE WaitInv'
  <2>1. /\ r # w /\ UNCHANGED <<w, killed, tx_r, tx_w>>
        /\ pc' = pc \/ pc' = [pc EXCEPT ![p] = "user"]
    BY Zenon, <1>20 DEF consoleread_get, returns
  <2> QED
    BY Zenon, <2>1 DEF Place
<1>21. ASSUME NEW p \in Reader, kill(p) PROVE WaitInv'
  BY Zenon, <1>21 DEF kill, Place
<1>22. CASE UNCHANGED vars
  BY Zenon, <1>22 DEF vars
<1>23. ASSUME consoleintr PROVE WaitInv'
  BY Zenon, <1>3, <1>4, <1>5, <1>6, <1>7, <1>8, <1>9, <1>23 DEF consoleintr
<1>24. ASSUME NEW p \in Reader, read(p) PROVE WaitInv'
  BY Zenon, <1>18, <1>19, <1>20, <1>24 DEF read
<1> QED
  BY Zenon, <1>1, <1>2, <1>10, <1>11, <1>12, <1>13, <1>14, <1>15, <1>16, <1>17, <1>21, <1>22,
     <1>23, <1>24, Steps

\* SleepersMustWait holds in every reachable state: no reader sleeps through the
\* line it waits for or its own death, no writer past a free place in the ring.
THEOREM NobodySleepsInVain == Spec => []SleepersMustWait
<1>1. Spec => []WaitInv
  BY InitWait, NextWait, PTL DEF Spec
<1>2. WaitInv => SleepersMustWait
  BY DEF WaitInv
<1> QED
  BY <1>1, <1>2, PTL
------------------------------------------------------------------------
\* The steps that touch the input ring, with what they do to it.
Stored(c) ==
    /\ Sub(e, r) < INPUT_BUF_SIZE
    /\ buf' = [buf EXCEPT ![At(e)] = c]
    /\ e' = (e + 1) % UINT
    /\ w' = IF c \in {"nl", "D"} \/ Sub(e', r) = INPUT_BUF_SIZE THEN e' ELSE w
    /\ r' = r
Killed == e' = Sub(e, killTo) /\ UNCHANGED <<buf, r, w>>
Erased == e # w /\ e' = Sub(e, 1) /\ UNCHANGED <<buf, r, w>>
Taken == r # w /\ r' = (r + 1) % UINT /\ UNCHANGED <<buf, w, e>>

\* No other step touches it.
LEMMA LineSteps ==
  ASSUME [Next]_vars
  PROVE  (\E c \in Char : Stored(c)) \/ Killed \/ Erased \/ Taken \/ UNCHANGED <<buf, r, w, e>>
<1>1. CASE uartintr \/ uartintr_start \/ uartputc_sync_wait \/ uartputc_sync \/ consoleintr_end
  BY Zenon, <1>1 DEF uartintr, uartintr_start, uartputc_sync_wait, uartputc_sync, consoleintr_end
<1>2. CASE consoleintr_dump
  BY Zenon, <1>2 DEF consoleintr_dump, takes
<1>3. CASE consoleintr_kill
  BY Zenon, <1>3 DEF consoleintr_kill, takes, Killed
<1>4. CASE consoleintr_erase
  BY Zenon, <1>4 DEF consoleintr_erase, takes, erasable, Erased
<1>5. CASE consoleintr_store
  <2>1. PICK k \in Key \ {"P", "U", "H"} :
          LET c == IF k = "cr" THEN "nl" ELSE k
              e2 == (e + 1) % UINT
              stored == k # "nul" /\ Sub(e, r) < INPUT_BUF_SIZE
              complete == stored /\ lineComplete(c, e2)
          IN  /\ takes(k)
              /\ buf' = IF stored THEN [buf EXCEPT ![At(e)] = c] ELSE buf
              /\ e' = IF stored THEN e2 ELSE e
              /\ w' = IF complete THEN e2 ELSE w
    BY Zenon, <1>5 DEF consoleintr_store
  <2>2. r' = r
    BY Zenon, <2>1 DEF takes
  <2>3. CASE k # "nul" /\ Sub(e, r) < INPUT_BUF_SIZE
    <3>1. PICK c \in Char : c = IF k = "cr" THEN "nl" ELSE k
      BY <2>3 DEF Char
    <3>2. Stored(c)
      BY <2>1, <2>2, <2>3, <3>1 DEF Stored, lineComplete
    <3> QED
      BY Zenon, <3>2
  <2>4. CASE ~(k # "nul" /\ Sub(e, r) < INPUT_BUF_SIZE)
    BY Zenon, <2>1, <2>2, <2>4
  <2> QED
    BY Zenon, <2>3, <2>4
<1>6. CASE transmit /\ UNCHANGED <<cons, keyboard, reads>>
  BY Zenon, <1>6
<1>7. ASSUME NEW k, type(k) PROVE UNCHANGED <<buf, r, w, e>>
  BY Zenon, <1>7 DEF type
<1>8. ASSUME NEW p \in Reader, NEW n, consoleread(p, n) PROVE UNCHANGED <<buf, r, w, e>>
  BY Zenon, <1>8 DEF consoleread
<1>9. ASSUME NEW p \in Reader, acquire(p) \/ consoleread_wait(p) \/ kill(p)
      PROVE  UNCHANGED <<buf, r, w, e>>
  BY Zenon, <1>9 DEF acquire, consoleread_wait, kill
<1>10. ASSUME NEW p \in Reader, NEW copied \in BOOLEAN, consoleread_get(p, copied)
       PROVE  Taken \/ UNCHANGED <<buf, r, w, e>>
  BY Zenon, <1>10 DEF consoleread_get, Taken
<1>11. CASE UNCHANGED vars
  BY Zenon, <1>11 DEF vars
<1> QED
  BY Zenon, <1>1, <1>2, <1>3, <1>4, <1>5, <1>6, <1>7, <1>8, <1>9, <1>10, <1>11, Steps
     DEF consoleintr, read
------------------------------------------------------------------------
\* A difference of counters of cons says how far apart they are.
LEMMA SubApart ==
  ASSUME NEW x \in 0 .. (UINT - 1), NEW y \in 0 .. (UINT - 1)
  PROVE  Apart(UINT, x, y, Sub(y, x))
<1>1. Apart(UINT, x, y, Ahead(UINT, x, y))
  BY Zenon, Sizes, AheadValue
<1> QED
  BY Zenon, <1>1 DEF Ahead, Sub

\* The parts of the input ring, before and after a step.
LEMMA Slices ==
  /\ Slice(r, w) = Cells(UINT, INPUT_BUF_SIZE, buf, r, w)
  /\ Slice(w, e) = Cells(UINT, INPUT_BUF_SIZE, buf, w, e)
  /\ Slice(r, w)' = Cells(UINT, INPUT_BUF_SIZE, buf', r', w')
  /\ Slice(w, e)' = Cells(UINT, INPUT_BUF_SIZE, buf', w', e')
BY Zenon DEF Slice, Cells, Sub, At, Ahead

\* The distances between the counters.
LEMMA LineCounts ==
  ASSUME LineInv
  PROVE  /\ Apart(UINT, r, w, Sub(w, r)) /\ Apart(UINT, w, e, Sub(e, w))
         /\ Apart(UINT, r, e, Sub(w, r) + Sub(e, w))
         /\ Sub(w, r) \in Nat /\ Sub(e, w) \in Nat /\ Sub(w, r) + Sub(e, w) <= INPUT_BUF_SIZE
<1>1. Apart(UINT, r, w, Sub(w, r)) /\ Apart(UINT, w, e, Sub(e, w)) /\ Apart(UINT, r, e, Sub(e, r))
  BY Zenon, SubApart DEF LineInv
<1>2. Sub(w, r) \in Nat /\ Sub(e, w) \in Nat
  BY <1>1 DEF Apart
<1> QED
  BY Zenon, <1>1, <1>2 DEF LineInv

\* The invariant, in terms of the distances.
LEMMA LineInvBy ==
  ASSUME r' \in 0 .. (UINT - 1), w' \in 0 .. (UINT - 1), e' \in 0 .. (UINT - 1),
         DOMAIN buf' = 0 .. (INPUT_BUF_SIZE - 1),
         NEW n \in Nat, NEW m \in Nat, n + m <= INPUT_BUF_SIZE,
         Apart(UINT, r', w', n), Apart(UINT, w', e', m), Apart(UINT, r', e', n + m),
         Slice(w, e)' \in Seq(Char \ {"nl"})
  PROVE  LineInv'
<1>1. /\ Apart(UINT, r', w', Sub(w', r')) /\ Apart(UINT, w', e', Sub(e', w'))
      /\ Apart(UINT, r', e', Sub(e', r'))
  BY Zenon, SubApart
<1>2. Same(Sub(w', r'), n)
  BY Zenon, <1>1, Sizes, ApartOnce
<1>3. Same(Sub(e', w'), m)
  BY Zenon, <1>1, Sizes, ApartOnce
<1>4. Same(Sub(e', r'), n + m)
  BY Zenon, <1>1, Sizes, ApartOnce
<1> QED
  BY Zenon, <1>2, <1>3, <1>4 DEF LineInv, Same

\* The parts of the input ring are as long as the counters are apart.
LEMMA SliceLens ==
  ASSUME LineInv
  PROVE  /\ Len(Slice(r, w)) = Sub(w, r) /\ Len(Slice(w, e)) = Sub(e, w)
         /\ \A k \in 1 .. Sub(e, w) : Slice(w, e)[k] = buf[(w + k - 1) % INPUT_BUF_SIZE]
<1>1. PICK S : \A i \in 0 .. (INPUT_BUF_SIZE - 1) : buf[i] \in S
  <2> WITNESS {buf[i] : i \in 0 .. (INPUT_BUF_SIZE - 1)}
  <2> QED
    BY Zenon
<1>2. r \in 0 .. (UINT - 1) /\ w \in 0 .. (UINT - 1) /\ e \in 0 .. (UINT - 1)
  BY Zenon DEF LineInv
<1>3. Apart(UINT, r, w, Sub(w, r)) /\ Apart(UINT, w, e, Sub(e, w))
  BY Zenon, LineCounts
<1>4. Lists(Cells(UINT, INPUT_BUF_SIZE, buf, r, w), S, Sub(w, r), INPUT_BUF_SIZE, buf, r)
  BY Zenon, Sizes, <1>1, <1>2, <1>3, CellsList
<1>5. Lists(Cells(UINT, INPUT_BUF_SIZE, buf, w, e), S, Sub(e, w), INPUT_BUF_SIZE, buf, w)
  BY Zenon, Sizes, <1>1, <1>2, <1>3, CellsList
<1> QED
  BY Zenon, <1>4, <1>5, Slices DEF Lists

\* ^U kills the whole line: its loop meets no newline before cons.w.
LEMMA KillsLine ==
  ASSUME LineInv
  PROVE  killTo = Sub(e, w)
<1> DEFINE Stops(k) == k = Sub(e, w) \/ buf[At(Sub(e, k + 1))] = "nl"
           First(k) == Stops(k) /\ \A j \in 0 .. (k - 1) : ~Stops(j)
<1>1. PICK m \in Nat : m = Sub(e, w) /\ m <= INPUT_BUF_SIZE /\ Apart(UINT, w, e, m)
  <2>1. Sub(e, w) \in Nat /\ Sub(w, r) \in Nat /\ Sub(w, r) + Sub(e, w) <= INPUT_BUF_SIZE
    BY Zenon, LineCounts
  <2>2. Sub(e, w) <= INPUT_BUF_SIZE
    BY <2>1, Ranges
  <2> QED
    BY Zenon, <2>1, <2>2, LineCounts
<1>2. w \in 0 .. (UINT - 1) /\ e \in 0 .. (UINT - 1)
  BY Zenon DEF LineInv
<1>3. ASSUME NEW j \in 0 .. (m - 1) PROVE buf[At(Sub(e, j + 1))] # "nl"
  <2>1. j + 1 \in 0 .. (UINT - 1) /\ j + 1 \in 0 .. m /\ 0 \in Int /\ m - j \in 1 .. m
    BY <1>1, Ranges
  <2>2. PICK x : x = Sub(e, j + 1) /\ Apart(UINT, j + 1, e, x)
    BY Zenon, <1>2, <2>1, SubApart
  <2>3. x \in 0 .. (UINT - 1)
    BY Zenon, <2>2 DEF Apart
  <2>4. Apart(UINT, w, x, m - (j + 1))
    BY Zenon, <1>1, <1>2, <2>1, <2>2, Sizes, AheadBack
  <2>5. SameCell(INPUT_BUF_SIZE, w + (m - (j + 1)) + 0, x + 0)
    BY Zenon, <1>2, <2>1, <2>3, <2>4, Sizes, CellAhead
  <2>6. w + (m - (j + 1)) + 0 = w + (m - j) - 1 /\ x + 0 = x
    BY <1>1, <1>2, <2>3, Ranges
  <2>7. (w + (m - j) - 1) % INPUT_BUF_SIZE = x % INPUT_BUF_SIZE
    BY Zenon, <2>5, <2>6 DEF SameCell
  <2>8. Slice(w, e)[m - j] = buf[(w + (m - j) - 1) % INPUT_BUF_SIZE]
    BY Zenon, <1>1, <2>1, SliceLens
  <2>9. Slice(w, e)[m - j] \in Char \ {"nl"}
    <3>1. Slice(w, e) \in Seq(Char \ {"nl"}) /\ Len(Slice(w, e)) = m
      BY Zenon, <1>1, SliceLens DEF LineInv
    <3> QED
      BY <2>1, <3>1
  <2> QED
    BY Zenon, <2>2, <2>7, <2>8, <2>9 DEF At
<1>4. \A j \in 0 .. (m - 1) : ~Stops(j)
  BY <1>1, <1>3
<1>5. m \in 0 .. INPUT_BUF_SIZE /\ First(m)
  BY <1>1, <1>4, Ranges
<1>6. ASSUME NEW k \in 0 .. INPUT_BUF_SIZE, First(k) PROVE k = m
  <2>1. ~(k < m)
    BY <1>1, <1>4, <1>6, Ranges
  <2>2. ~(m < k)
    <3>1. Stops(m)
      BY Zenon, <1>1
    <3>2. m < k => m \in 0 .. (k - 1)
      BY <1>1, Ranges
    <3> QED
      BY Zenon, <3>1, <3>2, <1>6
  <2> QED
    BY <1>1, <2>1, <2>2, Ranges
<1>7. killTo = CHOOSE k \in 0 .. INPUT_BUF_SIZE : First(k)
  BY Zenon DEF killTo
<1> HIDE DEF First
<1>8. killTo = m
  BY Zenon, <1>5, <1>6, <1>7
<1> QED
  BY Zenon, <1>1, <1>8

\* A character typed goes behind the line, and finishes it if it is a newline,
\* ^D, or the last one that the ring takes.
LEMMA StoreLine ==
  ASSUME LineInv, NEW c \in Char, Stored(c)
  PROVE  LineInv' /\ Lines!Type(c)
<1>1. PICK n \in Nat : n = Sub(w, r) /\ Apart(UINT, r, w, n)
  BY Zenon, LineCounts
<1>2. PICK m \in Nat : m = Sub(e, w) /\ Apart(UINT, w, e, m)
  BY Zenon, LineCounts
<1>3. Apart(UINT, r, e, n + m) /\ Sub(e, r) = n + m
  BY Zenon, <1>1, <1>2, LineCounts DEF LineInv
<1>4. n + m < INPUT_BUF_SIZE
  BY Zenon, <1>3 DEF Stored
<1>5. r \in 0 .. (UINT - 1) /\ w \in 0 .. (UINT - 1) /\ e \in 0 .. (UINT - 1)
  BY Zenon DEF LineInv
<1>6. n < UINT - 1 /\ m < UINT - 1 /\ n + m < UINT - 1 /\ n <= n + m /\ m < INPUT_BUF_SIZE
  BY <1>1, <1>2, <1>4, Ranges
<1>7. Follows(UINT, e, e')
  BY Zenon, <1>5, Sizes, CounterNext DEF Stored
<1>8. e' \in 0 .. (UINT - 1) /\ Apart(UINT, w, e', m + 1) /\ Apart(UINT, r, e', n + m + 1)
  <2>1. e' \in 0 .. (UINT - 1)
    BY Zenon, <1>7 DEF Follows
  <2>2. Apart(UINT, w, e', m + 1)
    BY Zenon, <1>2, <1>5, <1>6, <1>7, Sizes, AheadNext
  <2>3. Apart(UINT, r, e', n + m + 1)
    BY Zenon, <1>3, <1>5, <1>6, <1>7, Sizes, AheadNext
  <2> QED
    BY Zenon, <2>1, <2>2, <2>3
<1>9. /\ DOMAIN buf' = 0 .. (INPUT_BUF_SIZE - 1) /\ buf'[e % INPUT_BUF_SIZE] = c
      /\ \A i \in 0 .. (INPUT_BUF_SIZE - 1) : i # e % INPUT_BUF_SIZE => buf'[i] = buf[i]
  <2>1. e \in Int
    BY <1>5, Ranges
  <2>2. e % INPUT_BUF_SIZE \in 0 .. (INPUT_BUF_SIZE - 1)
    BY Zenon, <2>1, Sizes, ModBase
  <2>3. DOMAIN buf = 0 .. (INPUT_BUF_SIZE - 1) /\ buf' = [buf EXCEPT ![e % INPUT_BUF_SIZE] = c]
    BY Zenon DEF LineInv, Stored, At
  <2> QED
    BY Zenon, <2>2, <2>3
<1> DEFINE Now(x, y) == Cells(UINT, INPUT_BUF_SIZE, buf, x, y)
           Then(x, y) == Cells(UINT, INPUT_BUF_SIZE, buf', x, y)
<1>10. Then(r, w) = Now(r, w)
  <2>1. Same(Then(r, w), Now(r, w))
    BY Zenon, <1>1, <1>3, <1>4, <1>5, <1>6, <1>9, Sizes, CellsKept
  <2> QED
    BY Zenon, <2>1 DEF Same
<1>11. Then(w, e') = Append(Now(w, e), c)
  <2>1. Same(Then(w, e'), Append(Now(w, e), buf'[e % INPUT_BUF_SIZE]))
    BY Zenon, <1>2, <1>5, <1>6, <1>7, <1>9, Sizes, CellsPut
  <2> QED
    BY Zenon, <1>9, <2>1 DEF Same
<1>12. /\ Slice(r, w) = Now(r, w) /\ Slice(w, e) = Now(w, e)
       /\ Slice(r, w)' = Then(r', w') /\ Slice(w, e)' = Then(w', e')
  BY Zenon, Slices
<1>13. Len(Now(r, w)) = n /\ Len(Now(w, e)) = m /\ Now(w, e) \in Seq(Char \ {"nl"})
  BY Zenon, <1>1, <1>2, <1>12, SliceLens DEF LineInv
<1>14. r' = r /\ (Sub(e', r) = INPUT_BUF_SIZE <=> n + m = INPUT_BUF_SIZE - 1)
  <2>1. Apart(UINT, r, e', Sub(e', r))
    BY Zenon, <1>5, <1>8, SubApart
  <2>2. Same(Sub(e', r), n + m + 1)
    BY Zenon, <1>5, <1>8, <2>1, Sizes, ApartOnce
  <2>3. n + m + 1 = INPUT_BUF_SIZE <=> n + m = INPUT_BUF_SIZE - 1
    BY <1>1, <1>2, Ranges
  <2> QED
    BY Zenon, <2>2, <2>3 DEF Stored, Same
<1> HIDE DEF Now, Then
<1>15. CASE c \in {"nl", "D"} \/ n + m = INPUT_BUF_SIZE - 1
  <2>1. w' = e'
    BY Zenon, <1>14, <1>15 DEF Stored
  <2>2. Then(w', e') = << >>
    <3>1. Same(Then(e', e'), << >>)
      BY Zenon, <1>8, Sizes, CellsNone DEF Then
    <3> QED
      BY Zenon, <2>1, <3>1 DEF Same
  <2>3. Then(r', w') = Now(r, w) \o Append(Now(w, e), c)
    <3>1. n + (m + 1) = n + m + 1
      BY <1>1, <1>2
    <3>2. Apart(UINT, r, e', n + (m + 1))
      BY Zenon, <1>8, <3>1
    <3>3. Same(Then(r, w) \o Then(w, e'), Then(r, e'))
      BY Zenon, <1>1, <1>5, <1>8, <3>2, Sizes, CellsJoin DEF Then
    <3> QED
      BY Zenon, <1>10, <1>11, <1>14, <2>1, <3>3 DEF Same
  <2>4. LineInv'
    <3>1. n + m + 1 \in Nat /\ n + m + 1 + 0 = n + m + 1 /\ n + m + 1 + 0 <= INPUT_BUF_SIZE
          /\ 0 \in Nat
      BY <1>1, <1>2, <1>4, Ranges
    <3>2. Apart(UINT, e', e', 0)
      BY Zenon, <1>8, Sizes, ApartSelf
    <3>3. Slice(w, e)' \in Seq(Char \ {"nl"})
      BY <1>12, <2>2
    <3> QED
      BY Zenon, <1>5, <1>8, <1>9, <1>14, <2>1, <3>1, <3>2, <3>3, LineInvBy
  <2>5. Lines!Type(c)
    <3>1. Len(Slice(r, w)) + Len(Slice(w, e)) = n + m
      BY Zenon, <1>12, <1>13
    <3>2. Slice(r, w)' = Slice(r, w) \o Append(Slice(w, e), c) /\ Slice(w, e)' = << >>
      BY Zenon, <1>12, <2>2, <2>3
    <3> QED
      BY Zenon, <1>4, <1>15, <3>1, <3>2 DEF Lines!Type
  <2> QED
    BY Zenon, <2>4, <2>5
<1>16. CASE ~(c \in {"nl", "D"} \/ n + m = INPUT_BUF_SIZE - 1)
  <2>1. w' = w
    BY Zenon, <1>14, <1>16 DEF Stored
  <2>2. Append(Now(w, e), c) \in Seq(Char \ {"nl"})
    <3>1. c \in Char \ {"nl"}
      BY Zenon, <1>16
    <3> QED
      BY <1>13, <3>1
  <2>3. LineInv'
    <3>1. n + (m + 1) = n + m + 1 /\ n + (m + 1) <= INPUT_BUF_SIZE /\ m + 1 \in Nat
      BY <1>1, <1>2, <1>4, Ranges
    <3>2. Slice(w, e)' \in Seq(Char \ {"nl"})
      BY Zenon, <1>11, <1>12, <2>1, <2>2
    <3> QED
      BY Zenon, <1>1, <1>5, <1>8, <1>9, <1>14, <2>1, <3>1, <3>2, LineInvBy
  <2>4. Lines!Type(c)
    <3>1. Len(Slice(r, w)) + Len(Slice(w, e)) = n + m
      BY Zenon, <1>12, <1>13
    <3>2. Slice(r, w)' = Slice(r, w) /\ Slice(w, e)' = Append(Slice(w, e), c)
      BY Zenon, <1>10, <1>11, <1>12, <1>14, <2>1
    <3> QED
      BY Zenon, <1>4, <1>16, <3>1, <3>2 DEF Lines!Type
  <2> QED
    BY Zenon, <2>3, <2>4
<1> QED
  BY Zenon, <1>15, <1>16

\* ^H takes the newest character of the line, and only if there is one.
LEMMA EraseLine ==
  ASSUME LineInv, Erased
  PROVE  LineInv' /\ Lines!Erase
<1>1. PICK n \in Nat : n = Sub(w, r) /\ Apart(UINT, r, w, n)
  BY Zenon, LineCounts
<1>2. PICK m \in Nat : m = Sub(e, w) /\ Apart(UINT, w, e, m)
  BY Zenon, LineCounts
<1>3. Apart(UINT, r, e, n + m) /\ n + m <= INPUT_BUF_SIZE
  BY Zenon, <1>1, <1>2, LineCounts
<1>4. r \in 0 .. (UINT - 1) /\ w \in 0 .. (UINT - 1) /\ e \in 0 .. (UINT - 1)
  BY Zenon DEF LineInv
<1>5. e # w /\ e' = Sub(e, 1) /\ buf' = buf /\ r' = r /\ w' = w
  BY Zenon DEF Erased
<1>6. m # 0
  BY <1>2, <1>4, <1>5, Ranges DEF Apart
<1>7. 1 \in 0 .. (UINT - 1) /\ 1 \in 0 .. m /\ 1 \in 0 .. (n + m) /\ m - 1 \in Nat
  BY <1>1, <1>2, <1>3, <1>6, Ranges
<1>8. Apart(UINT, 1, e, e')
  BY Zenon, <1>4, <1>5, <1>7, SubApart
<1>9. e' \in 0 .. (UINT - 1)
  BY Zenon, <1>8 DEF Apart
<1>10. Apart(UINT, w, e', m - 1) /\ Apart(UINT, r, e', (n + m) - 1)
  BY Zenon, <1>2, <1>3, <1>4, <1>7, <1>8, Sizes, AheadBack
<1>11. Slice(w, e)' = SubSeq(Slice(w, e), 1, Len(Slice(w, e)) - 1) /\ Slice(r, w)' = Slice(r, w)
  <2> DEFINE Now(x, y) == Cells(UINT, INPUT_BUF_SIZE, buf, x, y)
  <2>1. Same(Now(w, e'), SubSeq(Now(w, e), 1, Len(Now(w, e)) - 1))
    BY Zenon, <1>4, <1>5, <1>8, Sizes, CellsDrop
  <2>2. /\ Slice(r, w) = Now(r, w) /\ Slice(w, e) = Now(w, e)
        /\ Slice(r, w)' = Now(r, w) /\ Slice(w, e)' = Now(w, e')
    BY Zenon, <1>5, Slices
  <2> QED
    BY Zenon, <2>1, <2>2 DEF Same
<1>12. Slice(w, e) \in Seq(Char \ {"nl"}) /\ Len(Slice(w, e)) = m
  BY Zenon, <1>2, SliceLens DEF LineInv
<1>13. Slice(w, e)' \in Seq(Char \ {"nl"})
  <2>1. SubSeq(Slice(w, e), 1, m - 1) \in Seq(Char \ {"nl"})
    <3>1. PICK s \in Seq(Char \ {"nl"}) : s = Slice(w, e) /\ Len(s) = m
      BY Zenon, <1>12
    <3>2. SubSeq(s, 1, m - 1) \in Seq(Char \ {"nl"})
      BY <1>7, <3>1
    <3> QED
      BY Zenon, <3>1, <3>2
  <2> QED
    BY Zenon, <1>11, <1>12, <2>1
<1>14. LineInv'
  <2>1. n + (m - 1) = (n + m) - 1 /\ n + (m - 1) <= INPUT_BUF_SIZE
    BY <1>1, <1>2, <1>3, Ranges
  <2> QED
    BY Zenon, <1>1, <1>4, <1>5, <1>7, <1>9, <1>10, <1>13, <2>1, LineInvBy DEF LineInv
<1>15. Slice(w, e) # << >>
  <2>1. PICK s \in Seq(Char \ {"nl"}) : s = Slice(w, e) /\ Len(s) = m
    BY Zenon, <1>12
  <2> QED
    BY <1>6, <2>1
<1> QED
  BY Zenon, <1>11, <1>14, <1>15 DEF Lines!Erase

\* ^U empties the line, back to what was handed to readers.
LEMMA KillLine ==
  ASSUME LineInv, Killed
  PROVE  LineInv' /\ Lines!Kill
<1>1. PICK n \in Nat : n = Sub(w, r) /\ Apart(UINT, r, w, n)
  BY Zenon, LineCounts
<1>2. PICK m \in Nat : m = Sub(e, w) /\ Apart(UINT, w, e, m)
  BY Zenon, LineCounts
<1>3. n + m <= INPUT_BUF_SIZE
  BY Zenon, <1>1, <1>2, LineCounts
<1>4. r \in 0 .. (UINT - 1) /\ w \in 0 .. (UINT - 1) /\ e \in 0 .. (UINT - 1)
  BY Zenon DEF LineInv
<1>5. e' = Sub(e, m) /\ buf' = buf /\ r' = r /\ w' = w
  BY Zenon, <1>2, KillsLine DEF Killed
<1>6. e' = w
  <2>1. m \in 0 .. (UINT - 1) /\ m \in 0 .. m
    BY <1>1, <1>2, <1>3, Ranges
  <2>2. Apart(UINT, m, e, e')
    BY Zenon, <1>4, <1>5, <2>1, SubApart
  <2> QED
    BY <1>2, <1>4, <2>1, <2>2, Ranges DEF Apart
<1>7. Slice(w, e)' = << >> /\ Slice(r, w)' = Slice(r, w)
  <2>1. Same(Cells(UINT, INPUT_BUF_SIZE, buf, w, w), << >>)
    BY Zenon, <1>4, Sizes, CellsNone
  <2> QED
    BY Zenon, <1>5, <1>6, <2>1, Slices DEF Same
<1>8. LineInv'
  <2>1. 0 \in Nat /\ n + 0 = n /\ n + 0 <= INPUT_BUF_SIZE
    BY <1>1, <1>2, <1>3, Ranges
  <2>2. Apart(UINT, w, w, 0)
    BY Zenon, <1>4, Sizes, ApartSelf
  <2>3. Slice(w, e)' \in Seq(Char \ {"nl"})
    BY <1>7
  <2> QED
    BY Zenon, <1>1, <1>4, <1>5, <1>6, <2>1, <2>2, <2>3, LineInvBy DEF LineInv
<1> QED
  BY Zenon, <1>7, <1>8 DEF Lines!Kill

\* consoleread() takes the oldest character of those handed over.
LEMMA TakeLine ==
  ASSUME LineInv, Taken
  PROVE  LineInv' /\ Lines!Take
<1>1. PICK n \in Nat : n = Sub(w, r) /\ Apart(UINT, r, w, n)
  BY Zenon, LineCounts
<1>2. PICK m \in Nat : m = Sub(e, w) /\ Apart(UINT, w, e, m)
  BY Zenon, LineCounts
<1>3. Apart(UINT, r, e, n + m) /\ n + m <= INPUT_BUF_SIZE
  BY Zenon, <1>1, <1>2, LineCounts
<1>4. r \in 0 .. (UINT - 1) /\ w \in 0 .. (UINT - 1) /\ e \in 0 .. (UINT - 1)
  BY Zenon DEF LineInv
<1>5. r # w /\ buf' = buf /\ w' = w /\ e' = e
  BY Zenon DEF Taken
<1>6. Follows(UINT, r, r')
  BY Zenon, <1>4, Sizes, CounterNext DEF Taken
<1>7. n # 0 /\ r # e /\ r' \in 0 .. (UINT - 1)
  BY <1>1, <1>2, <1>3, <1>4, <1>5, <1>6, Ranges DEF Apart, Follows
<1>8. Apart(UINT, r', w, n - 1) /\ Apart(UINT, r', e, (n + m) - 1)
  BY Zenon, <1>1, <1>3, <1>4, <1>5, <1>6, <1>7, Sizes, AheadLess
<1>9. Slice(r, w) # << >> /\ Slice(r, w)' = Tail(Slice(r, w)) /\ Slice(w, e)' = Slice(w, e)
  <2> DEFINE Now(x, y) == Cells(UINT, INPUT_BUF_SIZE, buf, x, y)
  <2>1. Now(r, w) # << >> /\ Same(Now(r', w), Tail(Now(r, w)))
    BY Zenon, <1>4, <1>5, <1>6, Sizes, CellsGet
  <2>2. /\ Slice(r, w) = Now(r, w) /\ Slice(w, e) = Now(w, e)
        /\ Slice(r, w)' = Now(r', w) /\ Slice(w, e)' = Now(w, e)
    BY Zenon, <1>5, Slices
  <2> QED
    BY Zenon, <2>1, <2>2 DEF Same
<1>10. LineInv'
  <2>1. n - 1 \in Nat /\ (n - 1) + m = (n + m) - 1 /\ (n - 1) + m <= INPUT_BUF_SIZE
    BY <1>1, <1>2, <1>3, <1>7, Ranges
  <2>2. Slice(w, e)' \in Seq(Char \ {"nl"})
    BY Zenon, <1>9 DEF LineInv
  <2> QED
    BY Zenon, <1>2, <1>4, <1>5, <1>7, <1>8, <2>1, <2>2, LineInvBy DEF LineInv
<1> QED
  BY Zenon, <1>9, <1>10 DEF Lines!Take

\* At first there is nothing typed.
LEMMA InitLine == Init => LineInv /\ Lines!Init
<1> SUFFICES ASSUME Init PROVE LineInv /\ Lines!Init
  OBVIOUS
<1>1. r = 0 /\ w = 0 /\ e = 0 /\ DOMAIN buf = 0 .. (INPUT_BUF_SIZE - 1) /\ 0 \in 0 .. (UINT - 1)
  BY Ranges DEF Init
<1>2. Same(Cells(UINT, INPUT_BUF_SIZE, buf, 0, 0), << >>)
  BY Zenon, <1>1, Sizes, CellsNone
<1>3. Slice(r, w) = << >> /\ Slice(w, e) = << >>
  BY Zenon, <1>1, <1>2, Slices DEF Same
<1>4. Sub(0, 0) = 0
  <2>1. Apart(UINT, 0, 0, Sub(0, 0)) /\ Apart(UINT, 0, 0, 0)
    BY Zenon, <1>1, Sizes, SubApart, ApartSelf
  <2> QED
    BY <2>1, Ranges DEF Apart
<1>5. LineInv
  <2>1. Slice(w, e) \in Seq(Char \ {"nl"})
    BY <1>3
  <2>2. Sub(e, r) = Sub(w, r) + Sub(e, w) /\ Sub(e, r) <= INPUT_BUF_SIZE
    BY <1>1, <1>4, Ranges
  <2> QED
    BY Zenon, <1>1, <2>1, <2>2 DEF LineInv
<1> QED
  BY Zenon, <1>3, <1>5 DEF Lines!Init

\* Every step keeps the invariant and is a step of the queue of lines.
LEMMA NextLine == LineInv /\ [Next]_vars => LineInv' /\ [Lines!Next]_Lines!vars
<1> SUFFICES ASSUME LineInv, [Next]_vars PROVE LineInv' /\ [Lines!Next]_Lines!vars
  OBVIOUS
<1>1. ASSUME NEW c \in Char, Stored(c) PROVE LineInv' /\ Lines!Next
  BY Zenon, <1>1, StoreLine DEF Lines!Next
<1>2. CASE Killed
  BY Zenon, <1>2, KillLine DEF Lines!Next
<1>3. CASE Erased
  BY Zenon, <1>3, EraseLine DEF Lines!Next
<1>4. CASE Taken
  BY Zenon, <1>4, TakeLine DEF Lines!Next
<1>5. CASE UNCHANGED <<buf, r, w, e>>
  BY Zenon, <1>5 DEF LineInv, Slice, Lines!vars
<1> QED
  BY Zenon, <1>1, <1>2, <1>3, <1>4, <1>5, LineSteps

\* LinesKept holds for every size of the ring and of its counters: consoleintr()
\* and consoleread() implement the queue of lines of LineQueue.
THEOREM ConsoleIsLineQueue == Spec => LinesKept
<1>1. Spec => []LineInv
  BY InitLine, NextLine, PTL DEF Spec
<1> QED
  BY <1>1, InitLine, NextLine, PTL DEF Spec, LinesKept, Lines!Spec
------------------------------------------------------------------------
\* Sequences of one and two characters, which is what the UART holds.
LEMMA Short ==
  ASSUME NEW b, NEW c
  PROVE  /\ Len(<< >>) = 0 /\ Len(<<b>>) = 1 /\ <<b>> # << >> /\ <<b, c>> # << >>
         /\ Append(<< >>, b) = <<b>> /\ Append(<<b>>, c) = <<b, c>>
         /\ Tail(<<b>>) = << >> /\ Tail(<<b, c>>) = <<c>>
<1>1. Len(<< >>) = 0 /\ Len(<<b>>) = 1 /\ <<b>> # << >> /\ <<b, c>> # << >>
  OBVIOUS
<1>2. Append(<< >>, b) = <<b>>
  OBVIOUS
<1>3. Append(<<b>>, c) = <<b, c>>
  <2>1. <<b>> \in Seq({b, c}) /\ <<b, c>> \in Seq({b, c}) /\ c \in {b, c}
    <3>1. b \in {b, c} /\ c \in {b, c}
      OBVIOUS
    <3> QED
      BY <3>1
  <2>2. PICK s : s = Append(<<b>>, c)
    BY Zenon
  <2>3. s \in Seq({b, c}) /\ Len(s) = 2 /\ s[1] = b /\ s[2] = c
    BY <2>1, <2>2
  <2>4. s = <<b, c>>
    BY <2>1, <2>3
  <2> QED
    BY Zenon, <2>2, <2>4
<1>4. Tail(<<b>>) = << >>
  OBVIOUS
<1>5. Tail(<<b, c>>) = <<c>>
  OBVIOUS
<1> QED
  BY Zenon, <1>1, <1>2, <1>3, <1>4, <1>5

\* A UART that holds at most one character has room for another.
LEMMA Room ==
  ASSUME FIFO >= 2, NEW c, fifo \in Quiet \cup Single, WriteTHR(c)
  PROVE  fifo' = Append(fifo, c)
<1>1. Len(fifo) \in {0, 1}
  <2>1. CASE fifo = << >>
    BY <2>1
  <2>2. ASSUME NEW b, fifo = <<b>> PROVE Len(fifo) \in {0, 1}
    BY <2>2
  <2> QED
    BY Zenon, <2>1, <2>2 DEF Quiet, Single
<1>2. FIFO \in Nat
  BY Zenon, UartAssumption
<1>3. Len(fifo) < FIFO
  BY <1>1, <1>2
<1> QED
  BY Zenon, <1>3 DEF WriteTHR, depth

\* A step of somebody who has no business with the output.
Elsewhere ==
    /\ UNCHANGED <<tx_buf, tx_r, tx_w, tx_lk, thr, fifo>>
    /\ pc' \in [Actor -> Place]
    /\ \A a \in Actor : \A l \in {"start", "WriteReg", "sync"} : pc'[a] = l <=> pc[a] = l

\* Such a step leaves the invariant alone.
LEMMA ElsewhereOut == OutInv /\ Elsewhere => OutInv' /\ Underway' = Underway
<1> SUFFICES ASSUME OutInv, Elsewhere PROVE OutInv' /\ Underway' = Underway
  OBVIOUS
<1>1. UNCHANGED <<tx_buf, tx_r, tx_w, tx_lk, thr, fifo>>
  BY Zenon DEF Elsewhere
<1>2. \A a \in Actor : /\ pc'[a] = "start" <=> pc[a] = "start"
                       /\ pc'[a] = "WriteReg" <=> pc[a] = "WriteReg"
                       /\ pc'[a] = "sync" <=> pc[a] = "sync"
  BY Zenon DEF Elsewhere
<1>3. HoldInv'
  BY Zenon, <1>1, <1>2 DEF Elsewhere, OutInv, HoldInv
<1>4. RingInv' /\ Underway' = Underway
  BY Zenon, <1>1 DEF OutInv, RingInv, Ring, Underway
<1>5. FifoInv'
  BY Zenon, <1>1, <1>2, Actors DEF OutInv, FifoInv, Quiet, Single, Double
<1> QED
  BY Zenon, <1>3, <1>4, <1>5 DEF OutInv

\* A character typed into the line is no output, its echo comes later.
LEMMA StoreElsewhere ==
  ASSUME pc \in [Actor -> Place], consoleintr_store
  PROVE  Elsewhere
<1>1. PICK complete \in BOOLEAN :
        /\ pc' = [a \in Actor |->
                    IF a = Intr THEN "echo"
                    ELSE IF complete /\ pc[a] = "sleep on r" THEN "acquire" ELSE pc[a]]
        /\ pc[Intr] = "getc"
        /\ UNCHANGED <<tx_buf, tx_r, tx_w, tx_lk, thr, fifo>>
  BY Zenon DEF consoleintr_store, takes
<1>2. pc' \in [Actor -> Place]
  BY Zenon, <1>1 DEF Place
<1>3. ASSUME NEW a \in Actor, NEW l \in {"start", "WriteReg", "sync"}
      PROVE  pc'[a] = l <=> pc[a] = l
  <2>1. l # "echo" /\ l # "acquire" /\ l # "getc" /\ l # "sleep on r"
    BY Zenon, <1>3
  <2>2. pc'[a] = IF a = Intr THEN "echo"
                 ELSE IF complete /\ pc[a] = "sleep on r" THEN "acquire" ELSE pc[a]
    BY Zenon, <1>1, <1>3
  <2> QED
    BY Zenon, <1>1, <2>1, <2>2
<1> QED
  BY Zenon, <1>1, <1>2, <1>3 DEF Elsewhere

\* The steps that have to do with the output; the others are Elsewhere.
LEMMA OutSteps ==
  ASSUME OutInv, [Next]_vars
  PROVE  \/ Elsewhere
         \/ uartintr_start \/ uartputc_sync_wait \/ uartputc_sync
         \/ transmit
         \/ \E p \in Writer : \E c \in Byte : uartputc(p, c)
         \/ \E a \in Actor : uartstart(a)
<1>0. pc \in [Actor -> Place]
  BY Zenon DEF OutInv, HoldInv
<1>1. CASE uartintr
  BY Zenon, <1>0, <1>1, Actors DEF uartintr, Elsewhere, Place
<1>2. CASE consoleintr_dump
  BY Zenon, <1>0, <1>2, Actors DEF consoleintr_dump, takes, Elsewhere, Place
<1>3. CASE consoleintr_kill
  BY Zenon, <1>0, <1>3, Actors DEF consoleintr_kill, takes, Elsewhere, Place
<1>4. CASE consoleintr_erase
  BY Zenon, <1>0, <1>4, Actors DEF consoleintr_erase, takes, Elsewhere, Place
<1>5. CASE consoleintr_store
  BY Zenon, <1>0, <1>5, StoreElsewhere
<1>6. CASE consoleintr_end
  BY Zenon, <1>0, <1>6, Actors DEF consoleintr_end, Elsewhere, Place
<1>7. ASSUME NEW k, type(k) PROVE Elsewhere
  BY Zenon, <1>0, <1>7 DEF type, Elsewhere
<1>8. ASSUME NEW p \in Writer, NEW n, consolewrite(p, n) PROVE Elsewhere
  BY Zenon, <1>0, <1>8, Actors DEF consolewrite, Elsewhere, Place
<1>9. ASSUME NEW p \in Writer, consolewrite_fault(p) \/ uartputc_full(p) PROVE Elsewhere
  BY Zenon, <1>0, <1>9, Actors DEF consolewrite_fault, uartputc_full, Elsewhere, Place
<1>10. ASSUME NEW p \in Reader, NEW n, consoleread(p, n) PROVE Elsewhere
  BY Zenon, <1>0, <1>10, Actors DEF consoleread, Elsewhere, Place
<1>11. ASSUME NEW p \in Reader, acquire(p) PROVE Elsewhere
  BY Zenon, <1>0, <1>11, Actors DEF acquire, Elsewhere, Place
<1>12. ASSUME NEW p \in Reader, consoleread_wait(p) PROVE Elsewhere
  BY Zenon, <1>0, <1>12, Actors DEF consoleread_wait, returns, Elsewhere, Place
<1>13. ASSUME NEW p \in Reader, NEW copied \in BOOLEAN, consoleread_get(p, copied) PROVE Elsewhere
  BY Zenon, <1>0, <1>13, Actors DEF consoleread_get, returns, Elsewhere, Place
<1>14. ASSUME NEW p \in Reader, kill(p) PROVE Elsewhere
  BY Zenon, <1>0, <1>14, Actors DEF kill, Elsewhere, Place
<1>15. CASE UNCHANGED vars
  BY Zenon, <1>0, <1>15 DEF vars, Elsewhere
<1> QED
  BY Zenon, <1>1, <1>2, <1>3, <1>4, <1>5, <1>6, <1>7, <1>8, <1>9, <1>10, <1>11, <1>12, <1>13,
     <1>14, <1>15, Steps, Actors DEF consoleintr, read
------------------------------------------------------------------------
\* At first there is no output, and nobody is inside uartstart().
LEMMA InitOut == Init => OutInv
<1> SUFFICES ASSUME Init PROVE OutInv
  OBVIOUS
<1>1. \A a \in Actor : pc[a] = "idle" \/ pc[a] = "user"
  BY Zenon DEF Init, InitUart
<1>2. pc \in [Actor -> Place]
  BY Zenon DEF Init, InitUart, Place
<1>3. HoldInv
  BY Zenon, <1>1, <1>2, Actors DEF HoldInv, Init, InitUart
<1>4. tx_r = 0 /\ tx_w = 0 /\ 0 \in 0 .. (UINT64 - 1) /\ DOMAIN tx_buf = 0 .. (UART_TX_BUF_SIZE - 1)
  BY Ranges DEF Init, InitUart
<1>5. RingInv
  <2>1. Apart(UINT64, tx_r, tx_w, (tx_w - tx_r) % UINT64) /\ Apart(UINT64, tx_r, tx_w, 0)
    BY Zenon, <1>4, Sizes, AheadValue, ApartSelf DEF Ahead
  <2>2. (tx_w - tx_r) % UINT64 <= UART_TX_BUF_SIZE
    BY <1>4, <2>1, Ranges DEF Apart
  <2>3. Same(Cells(UINT64, UART_TX_BUF_SIZE, tx_buf, 0, 0), << >>)
    BY Zenon, <1>4, Sizes, CellsNone
  <2>4. Ring = << >>
    BY Zenon, <1>4, <2>3 DEF Same, Ring, Cells, Ahead
  <2>5. Ring \in Seq(Byte)
    BY <2>4
  <2> QED
    BY Zenon, <1>4, <2>2, <2>5 DEF RingInv
<1>6. FifoInv
  BY Zenon, <1>1, Actors DEF FifoInv, Quiet, Init, InitUart
<1> QED
  BY Zenon, <1>3, <1>5, <1>6 DEF OutInv

\* Nobody is at WriteReg() while somebody else holds the lock, or nobody does.
LEMMA EmptyHanded ==
  ASSUME HoldInv, \A a \in Actor : pc[a] # "WriteReg"
  PROVE  thr = NoByte
BY Zenon DEF HoldInv

\* There is one holder of uart_tx_lock.
LEMMA OneHolder ==
  ASSUME HoldInv, NEW a \in Actor, NEW b \in Actor,
         pc[a] \in {"start", "WriteReg"}, pc[b] \in {"start", "WriteReg"}
  PROVE  a = b
BY Zenon DEF HoldInv

\* The steps of the invariant that leave the ring alone.
LEMMA RingStays ==
  ASSUME RingInv, UNCHANGED <<tx_buf, tx_r, tx_w>>
  PROVE  RingInv' /\ Ring' = Ring
BY Zenon DEF RingInv, Ring

\* uartintr() calls uartstart() with uart_tx_lock held.
LEMMA IntrOut == OutInv /\ uartintr_start => OutInv' /\ Underway' = Underway
<1> SUFFICES ASSUME OutInv, uartintr_start PROVE OutInv' /\ Underway' = Underway
  OBVIOUS
<1>0. UNCHANGED <<tx_buf, tx_r, tx_w, thr, fifo>> /\ tx_lk = NoProc /\ tx_lk' = Intr
      /\ pc' = [pc EXCEPT ![Intr] = "start"] /\ pc[Intr] = "getc"
  BY Zenon DEF uartintr_start
<1>1. HoldInv'
  BY Zenon, <1>0, Actors DEF OutInv, HoldInv, Place
<1>2. RingInv' /\ Underway' = Underway
  BY Zenon, <1>0 DEF OutInv, RingInv, Ring, Underway
<1>3. FifoInv'
  BY Zenon, <1>0, Actors DEF OutInv, HoldInv, FifoInv, Quiet, Single, Double
<1> QED
  BY Zenon, <1>1, <1>2, <1>3 DEF OutInv

\* uartputc_sync() finds the UART idle.
LEMMA SyncWaitOut == OutInv /\ uartputc_sync_wait => OutInv' /\ Underway' = Underway
<1> SUFFICES ASSUME OutInv, uartputc_sync_wait PROVE OutInv' /\ Underway' = Underway
  OBVIOUS
<1>0. /\ UNCHANGED <<tx_buf, tx_r, tx_w, tx_lk, thr, fifo>> /\ fifo = << >>
      /\ pc' = [pc EXCEPT ![Intr] = "sync"] /\ pc[Intr] = "echo"
  BY Zenon DEF uartputc_sync_wait, Idle
<1>1. HoldInv'
  BY Zenon, <1>0, Actors DEF OutInv, HoldInv, Place
<1>2. RingInv' /\ Underway' = Underway
  BY Zenon, <1>0 DEF OutInv, RingInv, Ring, Underway
<1>3. FifoInv'
  BY Zenon, <1>0 DEF FifoInv, Quiet
<1> QED
  BY Zenon, <1>1, <1>2, <1>3 DEF OutInv

\* uartstart() returns and gives up the lock.
LEMMA ReturnOut ==
  ASSUME OutInv, NEW a \in Actor, uartstart_return(a)
  PROVE  OutInv' /\ Underway' = Underway
<1>0. PICK l \in {"idle", "putc", "user"} :
        /\ UNCHANGED <<tx_buf, tx_r, tx_w, thr, fifo>> /\ tx_lk' = NoProc
        /\ pc' = [pc EXCEPT ![a] = l] /\ pc[a] = "start"
  BY Zenon DEF uartstart_return
<1>1. HoldInv'
  <2>1. pc' \in [Actor -> Place]
    BY Zenon, <1>0 DEF OutInv, HoldInv, Place
  <2>2. l \notin {"start", "WriteReg", "sync"}
    BY Zenon, <1>0
  <2>3. \A b \in Actor : pc[b] # "WriteReg"
    BY Zenon, <1>0, OneHolder DEF OutInv
  <2> QED
    BY Zenon, <1>0, <2>1, <2>2, <2>3, Actors, EmptyHanded, OneHolder DEF OutInv, HoldInv
<1>2. RingInv' /\ Underway' = Underway
  BY Zenon, <1>0 DEF OutInv, RingInv, Ring, Underway
<1>3. FifoInv'
  BY Zenon, <1>0, Actors DEF OutInv, HoldInv, FifoInv, Quiet, Single, Double
<1> QED
  BY Zenon, <1>1, <1>2, <1>3 DEF OutInv
------------------------------------------------------------------------
\* The empty set has no elements to count.
LEMMA CountNone == Cardinality({}) = 0
<1> DEFINE Count(f) == [T \in SUBSET {} |-> IF T = {} THEN 0 ELSE 1 + f[T \ {CHOOSE x : x \in T}]]
           C == CHOOSE f : f = Count(f)
<1>1. Cardinality({}) = C[{}]
  BY DEF Cardinality
<1>2. \E f : f = Count(f)
  <2> WITNESS [T \in SUBSET {} |-> 0]
  <2> QED
    OBVIOUS
<1>3. C = Count(C)
  BY Zenon, <1>2
<1> QED
  BY Zenon, <1>1, <1>3

\* The same for a set of one.
LEMMA CountOne ==
  ASSUME NEW i
  PROVE  Cardinality({i}) = 1
<1> DEFINE Count(f) == [T \in SUBSET {i} |-> IF T = {} THEN 0 ELSE 1 + f[T \ {CHOOSE x : x \in T}]]
           C == CHOOSE f : f = Count(f)
<1>1. Cardinality({i}) = C[{i}]
  BY DEF Cardinality
<1>2. \A T \in SUBSET {i} : T = {} \/ (T = {i} /\ T \ {CHOOSE x : x \in T} = {})
  OBVIOUS
<1>3. \E f : f = Count(f)
  <2>1. PICK f : f = [T \in SUBSET {i} |-> IF T = {} THEN 0 ELSE 1]
    BY Zenon
  <2>2. f = Count(f)
    BY <1>2, <2>1
  <2> QED
    BY Zenon, <2>2
<1>4. C = Count(C)
  BY Zenon, <1>3
<1> HIDE DEF C
<1>5. {} \in SUBSET {i} /\ {i} \in SUBSET {i} /\ {i} # {} /\ {i} \ {CHOOSE x : x \in {i}} = {}
  BY Zenon, <1>2
<1>6. C[{}] = 0 /\ C[{i}] = 1 + C[{}]
  BY Zenon, <1>4, <1>5
<1> QED
  BY <1>1, <1>6

\* What is left of a sequence without characters of write() calls.
LEMMA WrittenNone ==
  ASSUME NEW s, \A k \in DOMAIN s : s[k] = Echo
  PROVE  Written(s) = << >>
<1> DEFINE K == {k \in DOMAIN s : s[k] # Echo}
<1>1. K = {}
  BY Zenon
<1>2. Cardinality(K) = 0
  BY Zenon, <1>1, CountNone
<1>3. 1 .. 0 = {}
  OBVIOUS
<1>4. Written(s) = [n \in {} |-> s[CHOOSE k \in K : Cardinality({j \in K : j <= k}) = n]]
  BY Zenon, <1>2, <1>3 DEF Written
<1>5. \A F : F = [n \in {} |-> F[n]] => F = << >>
  OBVIOUS
<1> QED
  BY Zenon, <1>4, <1>5

\* What is left of a sequence with one such character.
LEMMA WrittenOne ==
  ASSUME NEW s, NEW i \in Nat, {k \in DOMAIN s : s[k] # Echo} = {i}
  PROVE  Written(s) = <<s[i]>>
<1> DEFINE K == {k \in DOMAIN s : s[k] # Echo}
           Nth(n) == CHOOSE k \in K : Cardinality({j \in K : j <= k}) = n
<1>1. K = {i} /\ Cardinality(K) = 1
  BY Zenon, CountOne
<1>2. {j \in K : j <= i} = {i}
  BY <1>1
<1>3. Cardinality({j \in K : j <= i}) = 1
  BY Zenon, <1>1, <1>2
<1>4. Nth(1) = i
  BY Zenon, <1>1, <1>3
<1>5. Written(s) = [n \in 1 .. 1 |-> s[Nth(n)]]
  BY Zenon, <1>1 DEF Written
<1> HIDE DEF Nth
<1>6. PICK t : t = [n \in 1 .. 1 |-> s[Nth(n)]]
  BY Zenon
<1>7. t = <<s[i]>>
  BY <1>4, <1>6
<1> QED
  BY Zenon, <1>5, <1>6, <1>7

\* An echo is none.
LEMMA WrittenEcho == Written(<< >>) = << >> /\ Written(<<Echo>>) = << >>
<1>1. Written(<< >>) = << >>
  <2>1. \A k \in DOMAIN << >> : << >>[k] = Echo
    OBVIOUS
  <2> QED
    BY Zenon, <2>1, WrittenNone
<1>2. Written(<<Echo>>) = << >>
  <2>1. \A k \in DOMAIN <<Echo>> : <<Echo>>[k] = Echo
    OBVIOUS
  <2> QED
    BY Zenon, <2>1, WrittenNone
<1> QED
  BY Zenon, <1>1, <1>2

\* What the UART may hold of write() calls.
LEMMA WrittenIs ==
  ASSUME NEW b \in Byte
  PROVE  /\ Written(<<b>>) = <<b>>
         /\ Written(<<b, Echo>>) = <<b>> /\ Written(<<Echo, b>>) = <<b>>
<1>0. b # Echo
  BY Zenon, UartAssumption
<1>1. Written(<<b>>) = <<b>>
  <2>1. {k \in DOMAIN <<b>> : <<b>>[k] # Echo} = {1} /\ 1 \in Nat /\ <<b>>[1] = b
    BY <1>0
  <2> QED
    BY Zenon, <2>1, WrittenOne
<1>2. Written(<<b, Echo>>) = <<b>>
  <2>1. {k \in DOMAIN <<b, Echo>> : <<b, Echo>>[k] # Echo} = {1} /\ 1 \in Nat /\ <<b, Echo>>[1] = b
    BY <1>0
  <2> QED
    BY Zenon, <2>1, WrittenOne
<1>3. Written(<<Echo, b>>) = <<b>>
  <2>1. {k \in DOMAIN <<Echo, b>> : <<Echo, b>>[k] # Echo} = {2} /\ 2 \in Nat /\ <<Echo, b>>[2] = b
    BY <1>0
  <2> QED
    BY Zenon, <2>1, WrittenOne
<1> QED
  BY Zenon, <1>1, <1>2, <1>3

\* Putting together what is on its way.
LEMMA Joins ==
  ASSUME NEW q \in Seq(Byte), NEW b \in Byte
  PROVE  /\ << >> \o << >> \o q = q
         /\ <<b>> \o << >> \o q = <<b>> \o q
         /\ << >> \o <<b>> \o q = <<b>> \o q
         /\ <<b>> \o q \in Seq(Byte) /\ <<b>> \o q # << >>
         /\ Tail(<<b>> \o q) = q /\ Len(<<b>> \o q) = Len(q) + 1
<1>1. << >> \in Seq(Byte) /\ <<b>> \in Seq(Byte) /\ Len(<<b>>) = 1 /\ Len(<< >>) = 0
  OBVIOUS
<1>2. << >> \o << >> = << >> /\ <<b>> \o << >> = <<b>> /\ << >> \o <<b>> = <<b>> /\ << >> \o q = q
  BY <1>1
<1>3. /\ <<b>> \o q \in Seq(Byte) /\ Len(<<b>> \o q) = Len(<<b>>) + Len(q)
      /\ \A i \in 1 .. Len(<<b>>) + Len(q) :
           (<<b>> \o q)[i] = IF i <= Len(<<b>>) THEN <<b>>[i] ELSE q[i - Len(<<b>>)]
  BY <1>1
<1>4. PICK t : t = <<b>> \o q
  BY Zenon
<1>5. /\ t \in Seq(Byte) /\ Len(t) = Len(q) + 1 /\ Len(q) \in Nat
      /\ \A i \in 1 .. Len(q) : t[i + 1] = q[i]
  BY <1>1, <1>3, <1>4
<1>6. t # << >>
  BY <1>5
<1>7. Tail(t) \in Seq(Byte) /\ Len(Tail(t)) = Len(q) /\ \A i \in 1 .. Len(q) : Tail(t)[i] = q[i]
  BY <1>5, <1>6
<1>8. Tail(t) = q
  BY <1>7
<1> QED
  BY Zenon, <1>2, <1>3, <1>4, <1>5, <1>6, <1>8

\* The first character and the rest.
LEMMA JoinsAgain ==
  ASSUME NEW q \in Seq(Byte), q # << >>
  PROVE  Head(q) \in Byte /\ Tail(q) \in Seq(Byte) /\ <<Head(q)>> \o Tail(q) = q
<1>0. /\ Head(q) \in Byte /\ Tail(q) \in Seq(Byte) /\ Len(Tail(q)) = Len(q) - 1
      /\ \A i \in 1 .. Len(Tail(q)) : Tail(q)[i] = q[i + 1]
  OBVIOUS
<1>1. PICK b \in Byte, t \in Seq(Byte) :
        /\ b = Head(q) /\ t = Tail(q)
        /\ Len(t) = Len(q) - 1 /\ \A i \in 1 .. Len(t) : t[i] = q[i + 1]
  BY Zenon, <1>0
<1>2. <<b>> \in Seq(Byte) /\ Len(<<b>>) = 1
  OBVIOUS
<1>3. PICK s : s = <<b>> \o t
  BY Zenon
<1>4. /\ s \in Seq(Byte) /\ Len(s) = Len(q)
      /\ \A i \in 1 .. Len(q) : s[i] = IF i <= 1 THEN <<b>>[i] ELSE t[i - 1]
  BY <1>1, <1>2, <1>3
<1>5. ASSUME NEW i \in 1 .. Len(q) PROVE s[i] = q[i]
  <2>1. CASE i = 1
    BY <1>1, <1>4, <2>1
  <2>2. CASE i # 1
    BY <1>1, <1>4, <2>2
  <2> QED
    BY Zenon, <2>1, <2>2
<1>6. s = q
  BY <1>4, <1>5
<1> QED
  BY Zenon, <1>1, <1>3, <1>6

\* A character put behind them.
LEMMA JoinsLonger ==
  ASSUME NEW q \in Seq(Byte), NEW b \in Byte, NEW c \in Byte
  PROVE  <<b>> \o Append(q, c) = Append(<<b>> \o q, c)
<1>1. <<b>> \in Seq(Byte) /\ <<c>> \in Seq(Byte) /\ <<b>> \o q \in Seq(Byte)
  BY Joins
<1>2. Append(q, c) = q \o <<c>> /\ Append(<<b>> \o q, c) = (<<b>> \o q) \o <<c>>
  <2>1. PICK p \in Seq(Byte) : p = <<b>> \o q
    BY Zenon, <1>1
  <2>2. Append(q, c) = q \o <<c>> /\ Append(p, c) = p \o <<c>>
    OBVIOUS
  <2> QED
    BY Zenon, <2>1, <2>2
<1>3. (<<b>> \o q) \o <<c>> = <<b>> \o (q \o <<c>>)
  BY <1>1
<1> QED
  BY Zenon, <1>2, <1>3

\* What is on its way: u in the UART, t at WriteReg(), q in the ring.
Joint(u, t, q) == u \o (IF t = NoByte THEN << >> ELSE <<t>>) \o q

\* No more than one of them is outside the ring.
LEMMA JointIs ==
  ASSUME NEW q \in Seq(Byte), NEW b \in Byte
  PROVE  /\ Joint(<< >>, NoByte, q) = q
         /\ Joint(<<b>>, NoByte, q) = <<b>> \o q
         /\ Joint(<< >>, b, q) = <<b>> \o q
<1>1. NoByte # b
  BY Zenon, UartAssumption
<1> QED
  BY Zenon, <1>1, Joins DEF Joint

\* Before and after a step.
LEMMA UnderwayIs ==
  /\ Underway = Joint(Written(fifo), thr, Ring)
  /\ Underway' = Joint(Written(fifo'), thr', Ring')
BY Zenon DEF Underway, Joint, Written
------------------------------------------------------------------------
\* The UART transmits: an echo, which is not output of a write() call, or the
\* oldest character that is on its way.
LEMMA TransmitOut ==
  ASSUME OutInv, transmit
  PROVE  /\ OutInv'
         /\ Underway' = Underway \/ (Underway # << >> /\ Underway' = Tail(Underway))
<1>0. /\ UNCHANGED <<tx_buf, tx_r, tx_w, tx_lk, thr, pc>>
      /\ fifo # << >> /\ fifo' = Tail(fifo)
  BY Zenon DEF transmit
<1>1. HoldInv' /\ RingInv' /\ Ring' = Ring
  BY Zenon, <1>0, RingStays DEF OutInv, HoldInv
<1>2. PICK q \in Seq(Byte) : Ring = q
  BY Zenon DEF OutInv, RingInv
<1>3. Echo \notin Byte /\ NoByte \notin Byte
  BY Zenon, UartAssumption
<1>4. CASE fifo = <<Echo>>
  <2>1. fifo' = << >> /\ Written(fifo') = Written(fifo)
    <3>1. Tail(<<Echo>>) = << >>
      BY Zenon, Short
    <3> QED
      BY Zenon, <1>0, <1>4, <3>1, WrittenEcho
  <2>2. FifoInv'
    BY <2>1 DEF FifoInv, Quiet
  <2> QED
    BY Zenon, <1>0, <1>1, <2>1, <2>2, UnderwayIs DEF OutInv
<1>5. ASSUME NEW b \in Byte, fifo \in {<<b>>, <<b, Echo>>, <<Echo, b>>}
      PROVE  /\ FifoInv'
             /\ Underway' = Underway \/ (Underway # << >> /\ Underway' = Tail(Underway))
  <2>0. b # Echo
    BY Zenon, <1>3
  <2>1. fifo \notin Quiet
    BY <1>5, <2>0 DEF Quiet
  <2>2. thr = NoByte /\ thr' = NoByte
    BY Zenon, <1>0, <2>1 DEF OutInv, FifoInv
  <2>3. Written(fifo) = <<b>>
    BY Zenon, <1>5, WrittenIs
  <2>4. Underway = <<b>> \o q
    BY Zenon, <1>2, <2>2, <2>3, UnderwayIs, JointIs
  <2>5. CASE fifo \in {<<b>>, <<b, Echo>>}
    <3>1. fifo' \in Quiet
      BY Zenon, <1>0, <2>5, Short DEF Quiet
    <3>2. Written(fifo') = << >>
      BY Zenon, <3>1, WrittenEcho DEF Quiet
    <3>3. Underway' = q
      BY Zenon, <1>1, <1>2, <2>2, <3>2, UnderwayIs, JointIs
    <3>4. pc[Intr] = "sync" => fifo' = << >>
      <4>1. <<b, Echo>> \notin {<< >>} \cup Single
        BY DEF Single
      <4>2. pc[Intr] = "sync" => fifo = <<b>>
        BY Zenon, <2>5, <4>1 DEF OutInv, FifoInv
      <4> QED
        BY Zenon, <1>0, <4>2, Short
    <3>5. FifoInv'
      BY Zenon, <1>0, <2>2, <3>1, <3>4 DEF FifoInv, Quiet
    <3> QED
      BY Zenon, <2>4, <3>3, <3>5, Joins
  <2>6. CASE fifo = <<Echo, b>>
    <3>1. fifo' = <<b>>
      BY Zenon, <1>0, <2>6, Short
    <3>2. Underway' = Underway
      BY Zenon, <1>0, <1>1, <2>3, <3>1, UnderwayIs, WrittenIs
    <3>3. FifoInv'
      BY <2>2, <3>1 DEF FifoInv, Single
    <3> QED
      BY Zenon, <3>2, <3>3
  <2> QED
    BY Zenon, <1>5, <2>5, <2>6
<1>6. fifo = <<Echo>> \/ \E b \in Byte : fifo \in {<<b>>, <<b, Echo>>, <<Echo, b>>}
  BY Zenon, <1>0 DEF OutInv, FifoInv, Quiet, Single, Double
<1> QED
  BY Zenon, <1>1, <1>4, <1>5, <1>6 DEF OutInv

\* uartputc_sync() writes an echo behind what uartstart() wrote since it looked.
LEMMA SyncOut ==
  ASSUME FIFO >= 2, OutInv, uartputc_sync
  PROVE  OutInv' /\ Underway' = Underway
<1>0. /\ UNCHANGED <<tx_buf, tx_r, tx_w, tx_lk, thr>> /\ WriteTHR(Echo)
      /\ pc' = [pc EXCEPT ![Intr] = "echo"] /\ pc[Intr] = "sync"
  BY Zenon DEF uartputc_sync
<1>1. HoldInv' /\ RingInv' /\ Ring' = Ring
  <2>1. HoldInv'
    BY Zenon, <1>0, Actors DEF OutInv, HoldInv, Place
  <2> QED
    BY Zenon, <1>0, <2>1, RingStays DEF OutInv
<1>2. fifo \in {<< >>} \cup Single /\ (thr # NoByte => fifo = << >>)
  BY Zenon, <1>0 DEF OutInv, FifoInv
<1>3. fifo' = Append(fifo, Echo)
  BY Zenon, <1>0, <1>2, Room DEF Quiet
<1>4. pc'[Intr] # "sync"
  BY Zenon, <1>0, Actors DEF OutInv, HoldInv
<1>5. Written(fifo') = Written(fifo) /\ FifoInv'
  <2>1. CASE fifo = << >>
    <3>1. fifo' = <<Echo>>
      BY Zenon, <1>3, <2>1, Short
    <3> QED
      BY Zenon, <1>4, <2>1, <3>1, WrittenEcho DEF FifoInv, Quiet
  <2>2. ASSUME NEW b \in Byte, fifo = <<b>> PROVE Written(fifo') = Written(fifo) /\ FifoInv'
    <3>1. fifo' = <<b, Echo>> /\ fifo # << >>
      BY Zenon, <1>3, <2>2, Short
    <3>2. thr' = NoByte
      BY Zenon, <1>0, <1>2, <3>1
    <3> QED
      BY Zenon, <1>4, <2>2, <3>1, <3>2, WrittenIs DEF FifoInv, Double
  <2> QED
    BY Zenon, <1>2, <2>1, <2>2 DEF Single
<1> QED
  BY Zenon, <1>0, <1>1, <1>5, UnderwayIs DEF OutInv

\* uartstart() writes its character behind an echo at most.
LEMMA WriteOut ==
  ASSUME FIFO >= 2, OutInv, NEW a \in Actor, uartstart_write(a)
  PROVE  OutInv' /\ Underway' = Underway
<1>0. /\ UNCHANGED <<tx_buf, tx_r, tx_w, tx_lk>> /\ WriteTHR(thr) /\ thr' = NoByte
      /\ pc' = [pc EXCEPT ![a] = "start"] /\ pc[a] = "WriteReg"
  BY Zenon DEF uartstart_write
<1>1. PICK b \in Byte : thr = b
  BY Zenon, <1>0 DEF OutInv, HoldInv
<1>2. NoByte \notin Byte
  BY Zenon, UartAssumption
<1>3. RingInv' /\ Ring' = Ring
  BY Zenon, <1>0, RingStays DEF OutInv
<1>4. HoldInv'
  <2>1. pc' \in [Actor -> Place]
    BY Zenon, <1>0 DEF OutInv, HoldInv, Place
  <2>2. \A c \in Actor : pc'[c] # "WriteReg"
    BY Zenon, <1>0, OneHolder DEF OutInv, HoldInv
  <2> QED
    BY Zenon, <1>0, <2>1, <2>2 DEF OutInv, HoldInv
<1>5. PICK q \in Seq(Byte) : Ring = q
  BY Zenon DEF OutInv, RingInv
<1>6. fifo \in Quiet /\ (pc[Intr] = "sync" => fifo = << >>)
  BY Zenon, <1>1, <1>2 DEF OutInv, FifoInv
<1>7. fifo' = Append(fifo, b)
  BY Zenon, <1>0, <1>1, <1>6, Room
<1>8. Written(fifo) = << >>
  BY Zenon, <1>6, WrittenEcho DEF Quiet
<1>9. Written(fifo') = <<b>> /\ FifoInv'
  <2>0. pc'[Intr] = "sync" => pc[Intr] = "sync"
    BY Zenon, <1>0, Actors DEF OutInv, HoldInv
  <2>1. CASE fifo = << >>
    <3>1. fifo' = <<b>>
      BY Zenon, <1>7, <2>1, Short
    <3>2. fifo' \in Single
      BY Zenon, <3>1 DEF Single
    <3> QED
      BY Zenon, <1>0, <3>1, <3>2, WrittenIs DEF FifoInv, Single
  <2>2. CASE fifo = <<Echo>>
    <3>1. fifo' = <<Echo, b>> /\ fifo # << >>
      BY Zenon, <1>7, <2>2, Short
    <3>2. fifo' \in Double
      BY Zenon, <3>1 DEF Double
    <3> QED
      BY Zenon, <1>0, <1>6, <2>0, <3>1, <3>2, WrittenIs DEF FifoInv, Double
  <2> QED
    BY Zenon, <1>6, <2>1, <2>2 DEF Quiet
<1>10. Underway = <<b>> \o q /\ Underway' = <<b>> \o q
  BY Zenon, <1>0, <1>1, <1>3, <1>5, <1>8, <1>9, UnderwayIs, JointIs
<1> QED
  BY Zenon, <1>3, <1>4, <1>9, <1>10 DEF OutInv

\* The ring, before and after a step.
LEMMA Rungs ==
  /\ Ring = Cells(UINT64, UART_TX_BUF_SIZE, tx_buf, tx_r, tx_w)
  /\ Ring' = Cells(UINT64, UART_TX_BUF_SIZE, tx_buf', tx_r', tx_w')
BY Zenon DEF Ring, Cells, Ahead

\* How far its counters are apart.
LEMMA RingCount ==
  ASSUME RingInv
  PROVE  \E n \in Nat : /\ Apart(UINT64, tx_r, tx_w, n) /\ n <= UART_TX_BUF_SIZE
                        /\ n = Len(Ring) /\ (n = UART_TX_BUF_SIZE => Full)
<1>1. PICK n : n = (tx_w - tx_r) % UINT64
  BY Zenon
<1>2. Apart(UINT64, tx_r, tx_w, n) /\ n <= UART_TX_BUF_SIZE
  BY Zenon, <1>1, Sizes, AheadValue DEF RingInv, Ahead
<1>3. n \in Nat
  BY <1>2 DEF Apart
<1>4. n = Len(Ring)
  <2>1. PICK s \in Seq(Byte) : s = Ring
    BY Zenon DEF RingInv
  <2>2. DOMAIN s = 1 .. n
    BY Zenon, <1>1, <2>1 DEF Ring
  <2>3. Len(s) = n
    BY <1>3, <2>2
  <2> QED
    BY Zenon, <2>1, <2>3
<1>5. n = UART_TX_BUF_SIZE => Full
  BY Zenon, <1>2, Sizes, CounterAhead DEF RingInv, Full, Same
<1> QED
  BY Zenon, <1>2, <1>3, <1>4, <1>5

\* The invariant of the ring, in terms of the distance.
LEMMA RingInvBy ==
  ASSUME tx_r' \in 0 .. (UINT64 - 1), tx_w' \in 0 .. (UINT64 - 1),
         DOMAIN tx_buf' = 0 .. (UART_TX_BUF_SIZE - 1),
         NEW n \in Nat, n <= UART_TX_BUF_SIZE, Apart(UINT64, tx_r', tx_w', n),
         Ring' \in Seq(Byte)
  PROVE  RingInv'
<1>1. Apart(UINT64, tx_r', tx_w', (tx_w' - tx_r') % UINT64)
  BY Zenon, Sizes, AheadValue DEF Ahead
<1>2. Same((tx_w' - tx_r') % UINT64, n)
  BY Zenon, <1>1, Sizes, ApartOnce
<1> QED
  BY Zenon, <1>2 DEF RingInv, Same

\* uartstart() takes the oldest character of the ring into its hands.
LEMMA TakeOut ==
  ASSUME OutInv, NEW a \in Actor, uartstart_take(a)
  PROVE  OutInv' /\ Underway' = Underway
<1>0. /\ tx_w # tx_r /\ thr' = tx_buf[tx_r % UART_TX_BUF_SIZE] /\ tx_r' = (tx_r + 1) % UINT64
      /\ UNCHANGED <<tx_buf, tx_w, tx_lk, fifo>> /\ fifo = << >> /\ pc[a] = "start"
      /\ pc' = [b \in Actor |-> IF b = a THEN "WriteReg"
                                ELSE IF pc[b] = "sleep on tx_r" THEN "putc" ELSE pc[b]]
  BY Zenon DEF uartstart_take, Idle
<1>1. RingInv
  BY Zenon DEF OutInv
<1>2. PICK q \in Seq(Byte) : Ring = q
  BY Zenon, <1>1 DEF RingInv
<1>3. Follows(UINT64, tx_r, tx_r')
  BY Zenon, <1>0, <1>1, Sizes, CounterNext DEF RingInv
<1>4. q # << >> /\ Ring' = Tail(q) /\ thr' = Head(q)
  <2> DEFINE Now(x, y) == Cells(UINT64, UART_TX_BUF_SIZE, tx_buf, x, y)
  <2>1. Now(tx_r, tx_w) # << >> /\ Same(Now(tx_r', tx_w), Tail(Now(tx_r, tx_w)))
    BY Zenon, <1>0, <1>1, <1>3, Sizes, CellsGet DEF RingInv
  <2>2. Same(Head(Now(tx_r, tx_w)), tx_buf[tx_r % UART_TX_BUF_SIZE])
    BY Zenon, <1>0, <1>1, Sizes, CellsFirst DEF RingInv
  <2>3. q = Now(tx_r, tx_w) /\ Ring' = Now(tx_r', tx_w)
    BY Zenon, <1>0, <1>2, Rungs
  <2> QED
    BY Zenon, <1>0, <2>1, <2>2, <2>3 DEF Same
<1>5. thr' \in Byte /\ Ring' \in Seq(Byte) /\ <<thr'>> \o Ring' = q
  BY Zenon, <1>4, JoinsAgain
<1>6. RingInv'
  <2>1. PICK n \in Nat : Apart(UINT64, tx_r, tx_w, n) /\ n <= UART_TX_BUF_SIZE
    BY Zenon, <1>1, RingCount
  <2>2. Apart(UINT64, tx_r', tx_w', n - 1)
    BY Zenon, <1>0, <1>1, <1>3, <2>1, Sizes, AheadLess DEF RingInv
  <2>3. n - 1 \in Nat /\ n - 1 <= UART_TX_BUF_SIZE /\ tx_r' \in 0 .. (UINT64 - 1)
    BY <1>3, <2>1, <2>2, Ranges DEF Apart, Follows
  <2> QED
    BY Zenon, <1>0, <1>1, <1>5, <2>2, <2>3, RingInvBy DEF RingInv
<1>7. thr = NoByte
  <2>1. \A b \in Actor : pc[b] # "WriteReg"
    BY Zenon, <1>0, OneHolder DEF OutInv
  <2> QED
    BY Zenon, <2>1, EmptyHanded DEF OutInv
<1>8. HoldInv'
  <2>1. pc' \in [Actor -> Place]
    BY Zenon, <1>0 DEF OutInv, HoldInv, Place
  <2>2. \A b \in Actor : (pc'[b] \in {"start", "WriteReg"}) <=> (pc[b] \in {"start", "WriteReg"})
    BY Zenon, <1>0
  <2>3. pc'[a] = "WriteReg"
    BY Zenon, <1>0
  <2> QED
    BY Zenon, <1>0, <1>5, <2>1, <2>2, <2>3 DEF OutInv, HoldInv
<1>9. FifoInv'
  BY Zenon, <1>0 DEF FifoInv, Quiet
<1>10. Underway = q
  BY Zenon, <1>0, <1>2, <1>5, <1>7, UnderwayIs, JointIs, WrittenEcho
<1>11. Underway' = q
  <2>1. PICK b \in Byte, t \in Seq(Byte) : b = thr' /\ t = Ring' /\ <<b>> \o t = q
    BY Zenon, <1>5
  <2>2. Joint(<< >>, b, t) = <<b>> \o t
    BY Zenon, JointIs
  <2> QED
    BY Zenon, <1>0, <2>1, <2>2, UnderwayIs, WrittenEcho
<1> QED
  BY Zenon, <1>6, <1>8, <1>9, <1>10, <1>11 DEF OutInv

\* What is on its way is what the ring holds, and one character more at most.
LEMMA UnderwayType ==
  ASSUME OutInv
  PROVE  /\ Underway \in Seq(Byte) /\ Len(Underway) <= Len(Ring) + 1
         /\ Written(fifo) = << >> \/ \E b \in Byte : Written(fifo) = <<b>>
<1>1. PICK q \in Seq(Byte) : Ring = q
  BY Zenon DEF OutInv, RingInv
<1>2. Len(q) \in Nat /\ Len(q) <= Len(q) + 1 /\ Len(q) + 1 <= Len(q) + 1
  OBVIOUS
<1>3. \A b \in Byte : <<b>> \o q \in Seq(Byte) /\ Len(<<b>> \o q) = Len(q) + 1
  BY Zenon, Joins
<1>4. CASE thr # NoByte
  <2>1. PICK b \in Byte : thr = b
    BY Zenon, <1>4 DEF OutInv, HoldInv
  <2>2. Written(fifo) = << >>
    BY Zenon, <1>4, WrittenEcho DEF OutInv, FifoInv, Quiet
  <2>3. Underway = <<b>> \o q
    BY Zenon, <1>1, <2>1, <2>2, UnderwayIs, JointIs
  <2> QED
    BY Zenon, <1>1, <1>2, <1>3, <2>2, <2>3
<1>5. CASE thr = NoByte
  <2>1. Written(fifo) = << >> \/ \E b \in Byte : Written(fifo) = <<b>>
    BY Zenon, WrittenEcho, WrittenIs DEF OutInv, FifoInv, Quiet, Single, Double
  <2>2. CASE Written(fifo) = << >>
    <3>1. Underway = q
      BY <1>1, <1>5, <2>2, UnderwayIs DEF Joint
    <3> QED
      BY Zenon, <1>1, <1>2, <2>1, <3>1
  <2>3. ASSUME NEW b \in Byte, Written(fifo) = <<b>>
        PROVE  Underway \in Seq(Byte) /\ Len(Underway) <= Len(Ring) + 1
    <3>1. Underway = <<b>> \o q
      BY Zenon, <1>1, <1>5, <2>3, UnderwayIs, JointIs
    <3> QED
      BY Zenon, <1>1, <1>2, <1>3, <3>1
  <2> QED
    BY Zenon, <2>1, <2>2, <2>3
<1> QED
  BY Zenon, <1>4, <1>5

\* uartputc() stores a character, when it has the lock and there is room.
LEMMA PutOut ==
  ASSUME OutInv, NEW p \in Writer, NEW c \in Byte, uartputc(p, c)
  PROVE  OutInv' /\ Underway' = Append(Underway, c) /\ Len(Underway) < UART_TX_BUF_SIZE + 2
<1>0. /\ UNCHANGED <<tx_r, thr, fifo>> /\ tx_lk = NoProc /\ tx_lk' = p
      /\ tx_buf' = [tx_buf EXCEPT ![tx_w % UART_TX_BUF_SIZE] = c]
      /\ tx_w' = (tx_w + 1) % UINT64 /\ ~Full
      /\ pc' = [pc EXCEPT ![p] = "start"] /\ pc[p] = "putc"
  BY Zenon DEF uartputc
<1>1. RingInv
  BY Zenon DEF OutInv
<1>2. PICK q \in Seq(Byte) : Ring = q
  BY Zenon, <1>1 DEF RingInv
<1>3. PICK n \in Nat : /\ Apart(UINT64, tx_r, tx_w, n) /\ n <= UART_TX_BUF_SIZE
                       /\ n = Len(Ring) /\ (n = UART_TX_BUF_SIZE => Full)
  BY Zenon, <1>1, RingCount
<1>4. n < UART_TX_BUF_SIZE /\ n < UINT64 - 1 /\ n + 1 \in Nat /\ n + 1 <= UART_TX_BUF_SIZE
  BY <1>0, <1>3, Ranges
<1>5. Follows(UINT64, tx_w, tx_w')
  BY Zenon, <1>0, <1>1, Sizes, CounterNext DEF RingInv
<1>6. Apart(UINT64, tx_r', tx_w', n + 1) /\ tx_w' \in 0 .. (UINT64 - 1)
  BY Zenon, <1>0, <1>1, <1>3, <1>4, <1>5, Sizes, AheadNext DEF RingInv, Follows
<1>7. Ring' = Append(q, c)
  <2>1. PICK g : g = tx_buf'
    BY Zenon
  <2>2. tx_w % UART_TX_BUF_SIZE \in 0 .. (UART_TX_BUF_SIZE - 1)
    BY <1>1, Ranges DEF RingInv
  <2>3. /\ g[tx_w % UART_TX_BUF_SIZE] = c
        /\ \A i \in 0 .. (UART_TX_BUF_SIZE - 1) : i # tx_w % UART_TX_BUF_SIZE => g[i] = tx_buf[i]
    BY Zenon, <1>0, <1>1, <2>1, <2>2 DEF RingInv
  <2>4. Same(Cells(UINT64, UART_TX_BUF_SIZE, g, tx_r, tx_w'),
             Append(Cells(UINT64, UART_TX_BUF_SIZE, tx_buf, tx_r, tx_w), g[tx_w % UART_TX_BUF_SIZE]))
    BY Zenon, <1>1, <1>3, <1>4, <1>5, <2>3, Sizes, CellsPut DEF RingInv
  <2> QED
    BY Zenon, <1>0, <1>2, <2>1, <2>3, <2>4, Rungs DEF Same
<1>8. Append(q, c) \in Seq(Byte)
  OBVIOUS
<1>9. RingInv'
  BY Zenon, <1>0, <1>1, <1>4, <1>6, <1>7, <1>8, RingInvBy DEF RingInv
<1>10. HoldInv'
  BY Zenon, <1>0, Actors DEF OutInv, HoldInv, Place
<1>11. FifoInv'
  <2>1. pc'[Intr] = pc[Intr]
    BY Zenon, <1>0, Actors DEF OutInv, HoldInv
  <2> QED
    BY Zenon, <1>0, <2>1 DEF OutInv, FifoInv, Quiet, Single, Double
<1>12. thr = NoByte
  BY Zenon, <1>0, Actors, EmptyHanded DEF OutInv, HoldInv
<1>13. Underway' = Append(Underway, c)
  <2>1. CASE Written(fifo) = << >>
    BY Zenon, <1>0, <1>2, <1>7, <1>8, <1>12, <2>1, UnderwayIs, JointIs
  <2>2. ASSUME NEW b \in Byte, Written(fifo) = <<b>> PROVE Underway' = Append(Underway, c)
    <3>1. Underway = <<b>> \o q
      BY Zenon, <1>2, <1>12, <2>2, UnderwayIs, JointIs
    <3>2. Underway' = <<b>> \o Append(q, c)
      BY Zenon, <1>0, <1>7, <1>8, <1>12, <2>2, UnderwayIs, JointIs
    <3> QED
      BY Zenon, <3>1, <3>2, JoinsLonger
  <2> QED
    BY Zenon, <2>1, <2>2, UnderwayType
<1>14. Len(Underway) < UART_TX_BUF_SIZE + 2
  <2>1. PICK s \in Seq(Byte) : s = Underway /\ Len(s) <= n + 1
    BY Zenon, <1>3, UnderwayType
  <2>2. Len(s) < UART_TX_BUF_SIZE + 2
    BY <1>4, <2>1, Ranges
  <2> QED
    BY Zenon, <2>1, <2>2
<1> QED
  BY Zenon, <1>9, <1>10, <1>11, <1>13, <1>14 DEF OutInv
------------------------------------------------------------------------
\* Every step keeps the invariant, and puts a character in, takes the oldest out
\* by transmitting it, or leaves the queue alone.
LEMMA NextOut ==
  ASSUME FIFO >= 2, OutInv, [Next]_vars
  PROVE  /\ OutInv'
         /\ \/ Underway' = Underway
            \/ \E c \in Byte : Len(Underway) < UART_TX_BUF_SIZE + 2 /\ Underway' = Append(Underway, c)
            \/ /\ Underway # << >> /\ Underway' = Tail(Underway)
               /\ fifo # << >> /\ fifo' = Tail(fifo)
<1>1. CASE Elsewhere
  BY Zenon, <1>1, ElsewhereOut
<1>2. CASE uartintr_start \/ uartputc_sync_wait \/ uartputc_sync
  BY Zenon, <1>2, IntrOut, SyncWaitOut, SyncOut
<1>3. CASE transmit
  BY Zenon, <1>3, TransmitOut DEF transmit
<1>4. ASSUME NEW p \in Writer, NEW c \in Byte, uartputc(p, c)
      PROVE  /\ OutInv' /\ Len(Underway) < UART_TX_BUF_SIZE + 2
             /\ Underway' = Append(Underway, c)
  BY Zenon, <1>4, PutOut
<1>5. ASSUME NEW a \in Actor, uartstart(a) PROVE OutInv' /\ Underway' = Underway
  BY Zenon, <1>5, ReturnOut, TakeOut, WriteOut DEF uartstart
<1> QED
  BY Zenon, <1>1, <1>2, <1>3, <1>4, <1>5, OutSteps

\* What that is for the queue.
LEMMA NextOutput ==
  ASSUME FIFO >= 2, OutInv, [Next]_vars
  PROVE  [Output!Next]_Output!vars /\ NoneLost
<1>1. PICK s \in Seq(Byte) : s = Underway
  BY Zenon, UnderwayType
<1>2. CASE Underway' = Underway
  <2>1. ~(Len(s) < Len(s))
    OBVIOUS
  <2> QED
    BY Zenon, <1>1, <1>2, <2>1 DEF Output!vars, NoneLost
<1>3. ASSUME NEW c \in Byte,
             Len(Underway) < UART_TX_BUF_SIZE + 2, Underway' = Append(Underway, c)
      PROVE  Output!Next /\ NoneLost
  <2>1. ~(Len(Append(s, c)) < Len(s))
    OBVIOUS
  <2> QED
    BY Zenon, <1>1, <1>3, <2>1 DEF Output!Next, Output!Put, NoneLost
<1>4. CASE /\ Underway # << >> /\ Underway' = Tail(Underway)
           /\ fifo # << >> /\ fifo' = Tail(fifo)
  BY Zenon, <1>4 DEF Output!Next, Output!Get, NoneLost
<1> QED
  BY Zenon, <1>2, <1>3, <1>4, NextOut

\* At first nothing is on its way.
LEMMA InitOutput == Init => Output!Init
<1> SUFFICES ASSUME Init PROVE Output!Init
  OBVIOUS
<1>1. thr = NoByte /\ fifo = << >> /\ tx_r = 0 /\ tx_w = 0
  BY Zenon DEF Init, InitUart
<1>2. 0 \in 0 .. (UINT64 - 1)
  BY Ranges
<1>3. Ring = << >>
  BY Zenon, <1>1, <1>2, Sizes, CellsNone, Rungs DEF Same
<1>4. << >> \o << >> \o << >> = << >>
  OBVIOUS
<1> QED
  BY Zenon, <1>1, <1>3, <1>4, WrittenEcho, UnderwayIs DEF Joint, Output!Init

\* OutputInOrder holds for every size of the ring and of its counters and for any
\* FIFO of two characters or more: uartputc(), uartstart() and the UART implement
\* a first-in first-out queue, and nothing that was written is lost to echo.
THEOREM OutputIsQueue ==
  ASSUME FIFO >= 2
  PROVE  Spec => OutputInOrder
<1>1. OutInv /\ [Next]_vars => OutInv' /\ [Output!Next]_Output!vars /\ [NoneLost]_<<uart, fifo>>
  BY Zenon, NextOut, NextOutput
<1>2. Spec => []OutInv
  BY <1>1, InitOut, PTL DEF Spec
<1> QED
  BY <1>1, <1>2, InitOut, InitOutput, PTL DEF Spec, OutputInOrder, Output!Spec
========================================================================
