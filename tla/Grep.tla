------------------------------ MODULE Grep ------------------------------
(***************************************************************************)
(* user/grep.c: the buffer that collects what read() returns, in pieces of *)
(* any size, until there are whole lines to match, and the matcher of      *)
(* patterns with ^ . * $.                                                  *)
(*                                                                         *)
(* Faulty variants of a definition stand right before it (such as          *)
(* keepNothing); they only serve to show that a property can fail.         *)
(***************************************************************************)
EXTENDS Integers, Sequences

CONSTANTS
    Patterns,    \* sequences of letters and "^", ".", "*", "$"
    Inputs,      \* sequences of letters and "nl"
    BUFSIZE      \* sizeof(buf): 1024

VARIABLES
    pattern, file,   \* the argument and the file, which never change
    input,           \* what has not been read yet
    buf, out,        \* the m characters in buf; the lines written
    done

gvars == <<pattern, file, input, buf, out, done>>
------------------------------------------------------------------------
\* Strings end in NUL: the character after the last one.
At(s, k) == IF k <= Len(s) THEN s[k] ELSE "nul"
From(s, k) == SubSeq(s, k, Len(s))
Same(c, x) == c = "." \/ c = x

RECURSIVE matchhere(_, _)
RECURSIVE matchstar(_, _, _)

matchhere(re, text) ==
    IF re = << >> THEN TRUE
    ELSE IF At(re, 2) = "*" THEN matchstar(re[1], From(re, 3), text)
    ELSE IF re = <<"$">> THEN text = << >>
    ELSE text # << >> /\ Same(re[1], text[1]) /\ matchhere(Tail(re), Tail(text))

matchstar(c, re, text) ==
    matchhere(re, text) \/ (text # << >> /\ Same(c, text[1]) /\ matchstar(c, re, Tail(text)))

match(re, text) ==
    IF At(re, 1) = "^" THEN matchhere(Tail(re), text)
    ELSE \E k \in 1 .. (Len(text) + 1) : matchhere(re, From(text, k))
------------------------------------------------------------------------
\* The lines of s that end in a newline.
RECURSIVE Lines(_)
Lines(s) ==
    LET ends == {k \in 1 .. Len(s) : s[k] = "nl"}
        k == CHOOSE k \in ends : \A j \in ends : k <= j
    IN  IF ends = {} THEN << >> ELSE <<SubSeq(s, 1, k - 1)>> \o Lines(From(s, k + 1))

Init ==
    /\ pattern \in Patterns /\ file \in Inputs
    /\ input = file
    /\ buf = << >> /\ out = << >> /\ done = FALSE

\* What stays in buf: the part after the last newline.
keepNothing(s) == << >>
rest(s) ==
    LET ends == {k \in 1 .. Len(s) : s[k] = "nl"} \cup {0}
    IN  From(s, (CHOOSE k \in ends : \A j \in ends : j <= k) + 1)

\* One turn of the loop: read() of at most sizeof(buf)-m-1 characters.
grep(n) ==
    LET s == buf \o SubSeq(input, 1, n) IN
    /\ ~done /\ n > 0 /\ n <= Len(input) /\ n <= BUFSIZE - Len(buf) - 1
    /\ input' = From(input, n + 1)
    /\ buf' = rest(s)
    /\ out' = out \o SelectSeq(Lines(s), LAMBDA l : match(pattern, l))
    /\ UNCHANGED <<pattern, file, done>>

\* read() returns 0 at the end of the file, and when buf is full.
grep_end ==
    /\ ~done /\ (input = << >> \/ Len(buf) = BUFSIZE - 1)
    /\ done' = TRUE
    /\ UNCHANGED <<pattern, file, input, buf, out>>

Next == (\E n \in 1 .. (BUFSIZE - 1) : grep(n)) \/ grep_end

Spec == Init /\ [][Next]_gvars
------------------------------------------------------------------------
\* The reference: a pattern is a sequence of items, a letter with or without a
\* star, between anchors, and it matches if the text can be cut to fit them.
RECURSIVE Fits(_, _)
Fits(re, text) ==
    CASE re = << >> -> TRUE
      [] re # << >> /\ At(re, 2) = "*" ->
           \E k \in 0 .. Len(text) : /\ \A j \in 1 .. k : Same(re[1], text[j])
                                     /\ Fits(From(re, 3), From(text, k + 1))
      [] re # << >> /\ At(re, 2) # "*" ->
           IF re = <<"$">> THEN text = << >>
           ELSE text # << >> /\ Same(re[1], text[1]) /\ Fits(Tail(re), Tail(text))

Matches(re, text) ==
    IF At(re, 1) = "^" THEN Fits(Tail(re), text)
    ELSE \E k \in 1 .. (Len(text) + 1) : Fits(re, From(text, k))

\* grep prints exactly the lines that match, in order, however read() cuts the
\* file into pieces, if every line fits in buf.
GrepPrintsMatches ==
    done /\ (\A k \in DOMAIN Lines(file) : Len(Lines(file)[k]) < BUFSIZE - 1) /\ Len(rest(file)) < BUFSIZE - 1
        => out = SelectSeq(Lines(file), LAMBDA l : Matches(pattern, l))
========================================================================
