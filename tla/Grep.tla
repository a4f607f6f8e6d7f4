-------------------------------- MODULE Grep --------------------------------
(***************************************************************************)
(* The user program grep (user/grep.c): lines are cut out of a buffer that *)
(* read fills in pieces of any size, the unfinished line is moved to the   *)
(* front, and each whole line is tried against the pattern by backtracking.*)
(* A character is a member of a small set, "nl" the end of a line.         *)
(***************************************************************************)
EXTENDS Integers, Sequences, SequencesExt

CONSTANTS BUFSIZE,   \* sizeof(buf)
          Patterns, Files

VARIABLES pattern, file,
          rest,      \* what read has not returned yet
          buf,       \* the m characters of buf in use
          out, done

vars == <<pattern, file, rest, buf, out, done>>

Init ==
    /\ pattern \in Patterns /\ file \in Files
    /\ rest = file /\ buf = <<>> /\ out = <<>> /\ done = FALSE

-----------------------------------------------------------------------------
RECURSIVE matchhere(_, _), matchstar(_, _, _), matchfrom(_, _)

(* matchhere: search for re at beginning of text *)
matchhere(re, text) ==
    IF re = <<>> THEN TRUE
    ELSE IF Len(re) > 1 /\ re[2] = "*"
         THEN matchstar(re[1], Tail(Tail(re)), text)
    ELSE IF re = <<"$">> THEN text = <<>>
    ELSE /\ text # <<>>
         /\ re[1] \in {".", Head(text)}
         /\ matchhere(Tail(re), Tail(text))

(* matchstar: search for c*re at beginning of text *)
matchstar(c, re, text) ==
    \/ matchhere(re, text)
    \/ /\ text # <<>>
       /\ c \in {".", Head(text)}
       /\ matchstar(c, re, Tail(text))

matchfrom(re, text) ==
    matchhere(re, text) \/ (text # <<>> /\ matchfrom(re, Tail(text)))

match(re, text) ==
    IF re # <<>> /\ re[1] = "^" THEN matchhere(Tail(re), text)
    ELSE matchfrom(re, text)

-----------------------------------------------------------------------------
(* The lines in b, one after the other: those that match go to the output, *)
(* and what follows the last end of line is kept.                          *)
RECURSIVE Scan(_, _)
Scan(b, o) ==
    IF "nl" \notin ToSet(b) THEN [buf |-> b, out |-> o]
    ELSE LET q    == SelectInSeq(b, LAMBDA c : c = "nl")
             line == SubSeq(b, 1, q - 1)
         IN  Scan(SubSeq(b, q + 1, Len(b)),
                  IF match(pattern, line) THEN o \o Append(line, "nl") ELSE o)

Room == BUFSIZE - Len(buf) - 1

\* Mutant: what follows the last end of line is not kept.
grep_drops(n) ==
    /\ ~done
    /\ n <= Room /\ n <= Len(rest)
    /\ LET r == Scan(buf \o SubSeq(rest, 1, n), out)
       IN  buf' = <<>> /\ out' = r.out
    /\ rest' = SubSeq(rest, n + 1, Len(rest))
    /\ UNCHANGED <<pattern, file, done>>

grep(n) ==
    /\ ~done
    /\ n <= Room /\ n <= Len(rest)
    /\ LET r == Scan(buf \o SubSeq(rest, 1, n), out)
       IN  buf' = r.buf /\ out' = r.out
    /\ rest' = SubSeq(rest, n + 1, Len(rest))
    /\ UNCHANGED <<pattern, file, done>>

(* read returns 0: at the end of the file, or because there is no room.    *)
grep_ends ==
    /\ ~done
    /\ Room = 0 \/ rest = <<>>
    /\ done' = TRUE
    /\ UNCHANGED <<pattern, file, rest, buf, out>>

Next == (\E n \in 1 .. BUFSIZE : grep(n)) \/ grep_ends

Spec == Init /\ [][Next]_vars

-----------------------------------------------------------------------------
(* What a pattern means, without backtracking: the places of the text that *)
(* each item (a character, or a starred character) can lead to.            *)
Fits(c, text, i) == i < Len(text) /\ c \in {".", text[i + 1]}

RECURSIVE Places(_, _, _)
Places(re, text, from) ==
    IF re = <<>> THEN from
    ELSE IF Len(re) > 1 /\ re[2] = "*"
         THEN Places(Tail(Tail(re)), text,
                     {j \in 0 .. Len(text) : \E i \in from :
                         i <= j /\ \A k \in i .. j - 1 : Fits(re[1], text, k)})
    ELSE IF re = <<"$">> THEN from \cap {Len(text)}
    ELSE Places(Tail(re), text, {i + 1 : i \in {i \in from : Fits(re[1], text, i)}})

Means(re, text) ==
    IF re # <<>> /\ re[1] = "^" THEN Places(Tail(re), text, {0}) # {}
    ELSE Places(re, text, 0 .. Len(text)) # {}

(* Where the lines of the file end, and the line that ends at q.           *)
LineEnds == {q \in 1 .. Len(file) : file[q] = "nl"}
LineAt(q) ==
    LET p == {e \in LineEnds : e < q}
    IN  SubSeq(file, IF p = {} THEN 1 ELSE 1 + CHOOSE e \in p : \A x \in p : x <= e, q)
FitsBuffer == \A i \in 1 .. Len(file) - BUFSIZE + 2 :
                 \E q \in LineEnds : i <= q /\ q <= i + BUFSIZE - 2

(* However read cuts the file into pieces, grep writes exactly the lines   *)
(* that match the pattern, whole and in order: no line is lost, written    *)
(* twice, or tried in two halves where one read ends and the next begins   *)
(* (grep's memmove of the rest of the buffer).  The pattern's stars and    *)
(* anchors mean what they say.  A file with a line as long as the buffer   *)
(* is left out: there grep stops reading.                                  *)
GrepExact ==
    done /\ FitsBuffer =>
        out = FlattenSeq([i \in 1 .. Len(file) |->
                            IF i \in LineEnds /\ Means(pattern, Front(LineAt(i)))
                            THEN LineAt(i) ELSE <<>>])
=============================================================================
