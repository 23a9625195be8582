--------------------------- MODULE LineQueue ---------------------------
(***************************************************************************)
(* What the console promises its readers: typed characters collect in a    *)
(* line that can still be edited, a finished line is handed over as a      *)
(* whole, and what was handed over is read once, in order and unedited.    *)
(***************************************************************************)
EXTENDS Integers, Sequences

CONSTANTS Char, Ends, SIZE   \* Ends: the characters that finish a line

VARIABLES done, edit

vars == <<done, edit>>

Init == done = << >> /\ edit = << >>

\* A line that fills the buffer is handed over too: it could not grow any more.
Type(c) ==
    /\ Len(done) + Len(edit) < SIZE
    /\ IF c \in Ends \/ Len(done) + Len(edit) = SIZE - 1
       THEN done' = done \o Append(edit, c) /\ edit' = << >>
       ELSE done' = done /\ edit' = Append(edit, c)

Erase == edit # << >> /\ edit' = SubSeq(edit, 1, Len(edit) - 1) /\ done' = done

Kill == edit' = << >> /\ done' = done

Take == done # << >> /\ done' = Tail(done) /\ edit' = edit

Next == (\E c \in Char : Type(c)) \/ Erase \/ Kill \/ Take

Spec == Init /\ [][Next]_vars
========================================================================
