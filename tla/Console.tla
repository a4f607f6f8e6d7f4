------------------------------ MODULE Console ------------------------------
(***************************************************************************)
(* Console input of xv6 (kernel/console.c): the interrupt handler edits    *)
(* and commits lines in a ring, processes read them. A step is one key in  *)
(* consoleintr() or one round of consoleread()'s loop, under cons.lock.    *)
(* The indices r, w and e are unsigned and wrap around. The echo is the    *)
(* business of UartIrq.                                                    *)
(***************************************************************************)
EXTENDS Naturals, Sequences

CONSTANTS Procs,            \* processes that read
          Letters,          \* keys with no special meaning
          INPUT_BUF_SIZE,
          WRAP,             \* the indices count modulo WRAP (2^32), a multiple of
                            \* INPUT_BUF_SIZE
          MaxN,             \* most bytes asked for in one read
          None

\* nl stands for '\n', cr for '\r', eof for ^D, kill for ^U, erase for ^H and
\* Delete, nul for 0 and ^P, which store nothing.
Keys == Letters \cup {"nl", "cr", "eof", "kill", "erase", "nul"}
Stored == Letters \cup {"nl", "eof"}

VARIABLES
    buf, r, w, e,   \* cons
    lock,           \* the process that holds cons.lock, or None
    pc,             \* where each process is
    n, target,      \* bytes its read still wants, and wanted at first
    killed          \* p->killed

cons == <<buf, r, w, e>>
vars == <<buf, r, w, e, lock, pc, n, target, killed>>

TypeOK ==
    /\ buf \in [0 .. INPUT_BUF_SIZE - 1 -> Stored \cup {None}]
    /\ r \in 0 .. WRAP - 1 /\ w \in 0 .. WRAP - 1 /\ e \in 0 .. WRAP - 1
    /\ lock \in Procs \cup {None}
    /\ pc \in [Procs -> {"out", "acquire", "loop", "asleep"}]
    /\ n \in [Procs -> 0 .. MaxN] /\ target \in [Procs -> 0 .. MaxN]
    /\ killed \in [Procs -> BOOLEAN]

Init ==
    /\ buf = [i \in 0 .. INPUT_BUF_SIZE - 1 |-> None]
    /\ r = 0 /\ w = 0 /\ e = 0
    /\ lock = None
    /\ pc = [p \in Procs |-> "out"]
    /\ n = [p \in Procs |-> 0] /\ target = [p \in Procs |-> 0]
    /\ killed = [p \in Procs |-> FALSE]

\* Unsigned arithmetic on the indices.
Plus(i, k) == (i + k) % WRAP
Minus(i, k) == (i + WRAP - k) % WRAP
At(i) == buf[i % INPUT_BUF_SIZE]

\* Mutant: nobody is woken.
wakeup_none(f) == [p \in Procs |-> IF f[p] = "asleep" THEN "asleep" ELSE f[p]]

wakeup(f) == [p \in Procs |-> IF f[p] = "asleep" THEN "acquire" ELSE f[p]]

-----------------------------------------------------------------------------
\* Mutant: ^U forgets where the committed input ends.
kill_line_past_w ==
    LET back(i) == \A k \in 1 .. i : Minus(e, k - 1) # r /\ At(Minus(e, k)) # "nl"
        Longest == CHOOSE i \in 0 .. INPUT_BUF_SIZE :
                       back(i) /\ (i < INPUT_BUF_SIZE => ~back(i + 1))
    IN  /\ e' = Minus(e, Longest)
        /\ UNCHANGED <<buf, r, w, pc>>

\* consoleintr(c): ^U drops the line that is being edited. The loop stops at
\* cons.w or behind a newline.
kill_line ==
    LET back(i) == \A k \in 1 .. i : Minus(e, k - 1) # w /\ At(Minus(e, k)) # "nl"
        Longest == CHOOSE i \in 0 .. INPUT_BUF_SIZE :
                       back(i) /\ (i < INPUT_BUF_SIZE => ~back(i + 1))
    IN  /\ e' = Minus(e, Longest)
        /\ UNCHANGED <<buf, r, w, pc>>

erase ==
    /\ e' = IF e # w THEN Minus(e, 1) ELSE e
    /\ UNCHANGED <<buf, r, w, pc>>

store(c) ==
    LET k == IF c = "cr" THEN "nl" ELSE c
    IN  IF c # "nul" /\ Minus(e, r) < INPUT_BUF_SIZE
        THEN /\ buf' = [buf EXCEPT ![e % INPUT_BUF_SIZE] = k]
             /\ e' = Plus(e, 1)
             /\ IF k \in {"nl", "eof"} \/ Minus(e', r) = INPUT_BUF_SIZE
                  THEN w' = e' /\ pc' = wakeup(pc)
                  ELSE UNCHANGED <<w, pc>>
             /\ UNCHANGED r
        ELSE UNCHANGED <<cons, pc>>

consoleintr(c) ==
    /\ lock = None
    /\ CASE c = "kill" -> kill_line
         [] c = "erase" -> erase
         [] OTHER -> store(c)
    /\ UNCHANGED <<lock, n, target, killed>>

-----------------------------------------------------------------------------
\* read(): a killed process makes no call, it exits.
call(p) ==
    /\ pc[p] = "out" /\ ~killed[p]
    /\ \E k \in 0 .. MaxN :
          n' = [n EXCEPT ![p] = k] /\ target' = [target EXCEPT ![p] = k]
    /\ pc' = [pc EXCEPT ![p] = "acquire"]
    /\ UNCHANGED <<cons, lock, killed>>

\* acquire(&cons.lock), at the start and again in sleep().
acquire(p) ==
    /\ pc[p] = "acquire" /\ lock = None
    /\ lock' = p
    /\ pc' = [pc EXCEPT ![p] = "loop"]
    /\ UNCHANGED <<cons, n, target, killed>>

\* Leave the loop: release() and return.
Return(p) == lock' = None /\ pc' = [pc EXCEPT ![p] = "out"]

read_done(p) ==
    /\ pc[p] = "loop" /\ n[p] = 0
    /\ Return(p)
    /\ UNCHANGED <<cons, n, target, killed>>

read_wait(p) ==
    /\ pc[p] = "loop" /\ n[p] > 0 /\ r = w
    /\ lock' = None
    /\ pc' = [pc EXCEPT ![p] = IF killed[p] THEN "out" ELSE "asleep"]
    /\ UNCHANGED <<cons, n, target, killed>>

\* Mutant: ^D is always consumed.
read_eof_eats(p) ==
    /\ pc[p] = "loop" /\ n[p] > 0 /\ r # w /\ At(r) = "eof"
    /\ r' = Plus(r, 1)
    /\ Return(p)
    /\ UNCHANGED <<buf, w, e, n, target, killed>>

\* ^D ends the read; it stays for the next read unless it is all there is.
read_eof(p) ==
    /\ pc[p] = "loop" /\ n[p] > 0 /\ r # w /\ At(r) = "eof"
    /\ r' = IF n[p] < target[p] THEN r ELSE Plus(r, 1)
    /\ Return(p)
    /\ UNCHANGED <<buf, w, e, n, target, killed>>

\* One byte to the user; either_copyout() may fail, which ends the call.
read_byte(p) ==
    /\ pc[p] = "loop" /\ n[p] > 0 /\ r # w /\ At(r) # "eof"
    /\ r' = Plus(r, 1)
    /\ \/ /\ Return(p)
          /\ UNCHANGED n
       \/ /\ n' = [n EXCEPT ![p] = @ - 1]
          /\ IF At(r) = "nl" THEN Return(p) ELSE UNCHANGED <<lock, pc>>
    /\ UNCHANGED <<buf, w, e, target, killed>>

consoleread(p) == read_done(p) \/ read_wait(p) \/ read_eof(p) \/ read_byte(p)

\* kkill(p), by a process that runs on this CPU.
kkill(p) ==
    /\ lock = None /\ ~killed[p]
    /\ killed' = [killed EXCEPT ![p] = TRUE]
    /\ pc' = [pc EXCEPT ![p] = IF @ = "asleep" THEN "acquire" ELSE @]
    /\ UNCHANGED <<cons, lock, n, target>>

Next == \/ \E c \in Keys : consoleintr(c)
        \/ \E p \in Procs : call(p) \/ acquire(p) \/ consoleread(p) \/ kkill(p)

Spec == Init /\ [][Next]_vars

-----------------------------------------------------------------------------
Run(i, j) == [k \in 1 .. Minus(j, i) |-> At(Plus(i, k - 1))]
Committed == Run(r, w)
Editing == Run(w, e)

L == INSTANCE LineInput WITH Keys <- Stored, Enders <- {"nl", "eof"},
       Capacity <- INPUT_BUF_SIZE, committed <- Committed, editing <- Editing

\* The ring is a line editor (console.c:95-111, 148-177): erase and kill never
\* reach committed input, reads take it in order, keys are dropped only when
\* INPUT_BUF_SIZE keys are held, also where the indices wrap.
EditsLines == L!LSpec

\* Nobody sleeps beside committed input, or after a kill (console.c:95-100).
SleepJustified ==
    lock = None => \A p \in Procs : pc[p] = "asleep" => r = w /\ ~killed[p]

\* A ring that refuses keys always has something to read: the console never
\* wedges on a full line (console.c:163, 172).
FullIsReadable == Minus(e, r) = INPUT_BUF_SIZE => Committed # <<>>

\* "make sure caller gets a 0-byte result" (console.c:107-108): the read that
\* takes ^D out of the ring returns 0 bytes.
EofAlone ==
    [][\A p \in Procs :
         lock = p /\ r' # r /\ At(r) = "eof" => pc'[p] = "out" /\ n'[p] = target[p]]_vars
=============================================================================
