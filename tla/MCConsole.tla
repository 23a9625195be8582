--------------------------- MODULE MCConsole ---------------------------
\* Small instances of module Console: a reader and every key, two readers,
\* or two writers and echo.  Readers and writers meet only
\* in the interrupt handler and the UART.
EXTENDS Console

CONSTANTS w1, w2, r1, r2

Uses == {[procs |-> {r1}, keys |-> Key],
         [procs |-> {r1, r2}, keys |-> {"x", "cr"}],
         [procs |-> {w1, w2}, keys |-> {"x"}]}
========================================================================
