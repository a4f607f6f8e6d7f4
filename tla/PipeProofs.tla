----------------------------- MODULE PipeProofs -----------------------------
(***************************************************************************)
(* Proofs about Pipe: the ring is a bounded queue, and nobody sleeps on a  *)
(* condition that has come true, for every number of processes, every size *)
(* of the ring and every width of the counters.                            *)
(***************************************************************************)
EXTENDS Pipe, SequenceTheorems, TLAPS

-----------------------------------------------------------------------------
(* Arithmetic modulo the size of the ring and the width of the counters.   *)

\* The sizes as natural numbers.
LEMMA Sizes ==
    PIPESIZE \in Nat \ {0} /\ WRAP \in Nat \ {0} /\ PIPESIZE < WRAP /\ MaxN \in Nat
BY PipeAssumption

\* A number is its quotient and its remainder put together, and only these.
LEMMA Divide ==
    ASSUME NEW m \in Nat \ {0}, NEW x \in Nat
    PROVE  /\ x \div m \in Nat /\ x % m \in 0 .. m - 1
           /\ x = m * (x \div m) + (x % m)
OBVIOUS

\* A quotient and a remainder determine the number they come from.
LEMMA Remainder ==
    ASSUME NEW m \in Nat \ {0}, NEW q \in Nat, NEW r \in 0 .. m - 1
    PROVE  (m * q + r) % m = r
OBVIOUS

\* What overflows a counter lands in the same slot (pipe.c:95, 122): WRAP is a
\* multiple of PIPESIZE.
LEMMA Shift ==
    ASSUME NEW x \in Nat
    PROVE  (x + WRAP) % PIPESIZE = x % PIPESIZE
<1> DEFINE q == x \div PIPESIZE
           r == x % PIPESIZE
           k == WRAP \div PIPESIZE
<1>1. q \in Nat /\ r \in 0 .. PIPESIZE - 1 /\ x = PIPESIZE * q + r
    BY Divide, Sizes, Zenon
<1>2. k \in Nat /\ WRAP = PIPESIZE * k
    BY Divide, Sizes, PipeAssumption
<1>3. PIPESIZE * q + PIPESIZE * k = PIPESIZE * (q + k)
    BY <1>1, <1>2, Sizes
<1>4. x + WRAP = PIPESIZE * (q + k) + r
    BY <1>1, <1>2, <1>3, Sizes
<1> HIDE DEF q, r, k
<1>5. (PIPESIZE * (q + k) + r) % PIPESIZE = r
    BY <1>1, <1>2, Remainder, Sizes
<1>6. QED
    BY <1>4, <1>5 DEF r

\* Numbers less than PIPESIZE apart have different slots.
LEMMA Apart ==
    ASSUME NEW x \in Nat, NEW y \in Nat, x < y, y < x + PIPESIZE
    PROVE  x % PIPESIZE # y % PIPESIZE
<1> DEFINE q == x \div PIPESIZE
           t == y \div PIPESIZE
           r == x % PIPESIZE
<1>1. SUFFICES ASSUME r = y % PIPESIZE
               PROVE  FALSE
    OBVIOUS
<1>2. /\ q \in Nat /\ t \in Nat /\ r \in 0 .. PIPESIZE - 1
      /\ x = PIPESIZE * q + r /\ y = PIPESIZE * t + r
    BY <1>1, Divide, Sizes, Zenon
<1> HIDE DEF q, t, r
<1>3. t > q
    BY <1>2, Sizes
<1>4. PICK d \in Nat : t = q + 1 + d
    BY <1>2, <1>3
<1>5. PIPESIZE * t = PIPESIZE * q + PIPESIZE + PIPESIZE * d /\ PIPESIZE * d \in Nat
    BY <1>2, <1>4, Sizes
<1>6. QED
    BY <1>2, <1>5, Sizes

\* The operations on the counters without the remainder.
LEMMA Counters ==
    ASSUME NEW r \in 0 .. WRAP - 1, NEW w \in 0 .. WRAP - 1
    PROVE  /\ (w + WRAP - r) % WRAP = IF r <= w THEN w - r ELSE w + WRAP - r
           /\ (r + PIPESIZE) % WRAP = IF r + PIPESIZE < WRAP THEN r + PIPESIZE
                                      ELSE r + PIPESIZE - WRAP
           /\ Inc(r) = IF r = WRAP - 1 THEN 0 ELSE r + 1
<1>1. \A x \in 0 .. WRAP - 1 : x % WRAP = x
    BY Sizes
<1>2. \A x \in WRAP .. 2 * WRAP - 1 : x % WRAP = x - WRAP
    BY Sizes
<1>3. (w + WRAP - r) % WRAP = IF r <= w THEN w - r ELSE w + WRAP - r
    BY <1>1, <1>2, Sizes
<1>4. (r + PIPESIZE) % WRAP = IF r + PIPESIZE < WRAP THEN r + PIPESIZE
                              ELSE r + PIPESIZE - WRAP
    BY <1>1, <1>2, Sizes
<1>5. Inc(r) = IF r = WRAP - 1 THEN 0 ELSE r + 1
    BY <1>1, <1>2, Sizes DEF Inc
<1>6. QED
    BY <1>3, <1>4, <1>5

\* The counters tell how many bytes there are, empty from full included.
LEMMA Lengths ==
    ASSUME nread \in 0 .. WRAP - 1, nwrite \in 0 .. WRAP - 1
    PROVE  /\ Length = IF nread <= nwrite THEN nwrite - nread ELSE nwrite + WRAP - nread
           /\ Length \in 0 .. WRAP - 1
           /\ Empty <=> Length = 0
           /\ Full <=> Length = PIPESIZE
<1>1. Length = IF nread <= nwrite THEN nwrite - nread ELSE nwrite + WRAP - nread
    BY Counters DEF Length
<1>2. Full <=> nwrite = IF nread + PIPESIZE < WRAP THEN nread + PIPESIZE
                        ELSE nread + PIPESIZE - WRAP
    BY Counters DEF Full
<1>3. QED
    BY <1>1, <1>2, Sizes DEF Empty

-----------------------------------------------------------------------------
(* The inductive invariant.                                                *)

\* Who is inside the loops holds pi->lock.
Locked ==
    /\ \A p \in Callers : lock = p <=> pc[p] \in {"loop", "copy"}
    /\ \A p \in Writers : pc[p] # "copy"

\* A reader sleeps beside an empty pipe, or a writer that has put a byte in is
\* still in its loop and must call wakeup() before it lets go of the lock.
ReadersSleep ==
    \A p \in Readers : pc[p] = "asleep" =>
        /\ writeopen /\ ~killed[p]
        /\ \/ Empty
           \/ lock \in Writers /\ readopen /\ ~killed[lock]

\* A writer sleeps beside a full pipe, or a reader is taking bytes out.
WritersSleep ==
    \A p \in Writers : pc[p] = "asleep" =>
        /\ readopen /\ ~killed[p]
        /\ \/ Full
           \/ lock \in Readers /\ pc[lock] = "copy"

\* The ring never holds more than it has room for.
Fits == Length <= PIPESIZE

IInv == TypeOK /\ Locked /\ ReadersSleep /\ WritersSleep /\ Fits

\* pipealloc() (pipe.c:22-56) leaves an empty pipe that nobody waits for.
LEMMA InitIInv == Init => IInv
<1> SUFFICES ASSUME Init PROVE IInv
    OBVIOUS
<1> USE DEF Init
<1>1. TypeOK
    BY Sizes DEF TypeOK
<1>2. Locked
    BY PipeAssumption DEF Locked, Callers
<1>3. ReadersSleep /\ WritersSleep
    BY DEF ReadersSleep, WritersSleep, Callers
<1>4. Fits
    BY <1>1, Lengths, Sizes DEF TypeOK, Fits
<1>5. QED
    BY <1>1, <1>2, <1>3, <1>4 DEF IInv

-----------------------------------------------------------------------------
\* What a wakeup does to where a process is.
LEMMA Woken ==
    ASSUME TypeOK, NEW ps
    PROVE  /\ wakeup(pc, ps) \in [Callers -> {"out", "acquire", "loop", "copy", "asleep"}]
           /\ \A q \in Callers : wakeup(pc, ps)[q] = IF q \in ps /\ pc[q] = "asleep"
                                                     THEN "acquire" ELSE pc[q]
BY DEF wakeup, TypeOK

\* A step that moves no byte and closes no end keeps what is said of the bytes.
LEMMA SamePipe ==
    ASSUME Fits, UNCHANGED pipe
    PROVE  Fits' /\ Empty' = Empty /\ Full' = Full
BY DEF Fits, Length, Empty, Full, pipe

\* A call starts (pipe.c:76, 105).
LEMMA CallStep == ASSUME IInv, NEW p \in Callers, call(p) PROVE IInv'
<1> USE DEF IInv, call
<1>1. TypeOK'
    BY Sizes DEF TypeOK, pipe
<1>2. Locked'
    BY DEF TypeOK, Locked, Callers
<1>3. Fits' /\ Empty' = Empty /\ Full' = Full
    BY SamePipe
<1>4. ReadersSleep'
    BY <1>3 DEF TypeOK, ReadersSleep, Callers
<1>5. WritersSleep'
    BY <1>3 DEF TypeOK, WritersSleep, Callers
<1>6. QED
    BY <1>1, <1>2, <1>3, <1>4, <1>5, Zenon

\* acquire(&pi->lock) makes the process the only one inside (pipe.c:82, 112).
LEMMA AcquireStep == ASSUME IInv, NEW p \in Callers, acquire(p) PROVE IInv'
<1> USE DEF IInv, acquire
<1>1. TypeOK'
    BY Sizes DEF TypeOK, pipe
<1>2. Locked'
    BY PipeAssumption DEF TypeOK, Locked, Callers
<1>3. Fits' /\ Empty' = Empty /\ Full' = Full
    BY SamePipe
<1>4. None \notin Callers
    BY PipeAssumption
<1>5. ReadersSleep'
    BY <1>3, <1>4 DEF TypeOK, ReadersSleep, Callers
<1>6. WritersSleep'
    BY <1>3, <1>4 DEF TypeOK, WritersSleep, Callers
<1>7. QED
    BY <1>1, <1>2, <1>3, <1>5, <1>6

\* A writer has the lock, so no writer sleeps unless the pipe is full.
LEMMA WriterHolds ==
    ASSUME IInv, NEW p \in Writers, pc[p] = "loop"
    PROVE  /\ lock = p /\ p \notin Readers /\ p \in Callers
           /\ \A q \in Writers : pc[q] = "asleep" => Full
BY PipeAssumption DEF IInv, Locked, WritersSleep, Callers

\* pipewrite() gives up when the read end is closed or it is killed (pipe.c:84-87).
LEMMA WriteAbortStep == ASSUME IInv, NEW p \in Writers, write_abort(p) PROVE IInv'
<1> USE DEF IInv, write_abort
<1>0. /\ lock = p /\ p \notin Readers /\ p \in Callers
      /\ \A q \in Writers : pc[q] = "asleep" => Full
    BY WriterHolds
<1>1. TypeOK'
    BY <1>0, Sizes DEF TypeOK, pipe
<1>2. Locked'
    BY <1>0, PipeAssumption DEF TypeOK, Locked, Callers
<1>3. Fits' /\ Empty' = Empty /\ Full' = Full
    BY SamePipe
<1>4. ReadersSleep'
    BY <1>0, <1>3 DEF TypeOK, ReadersSleep, Callers
<1>5. WritersSleep'
    BY <1>0, <1>3 DEF TypeOK, WritersSleep, Callers
<1>6. QED
    BY <1>1, <1>2, <1>3, <1>4, <1>5, Zenon

\* A writer that finds the ring full wakes the readers before it sleeps (pipe.c:88-90).
LEMMA WriteFullStep == ASSUME IInv, NEW p \in Writers, write_full(p) PROVE IInv'
<1> USE DEF IInv, write_full
<1>0. /\ lock = p /\ p \notin Readers /\ p \in Callers
      /\ \A q \in Writers : pc[q] = "asleep" => Full
    BY WriterHolds
<1>1. TypeOK'
    BY <1>0, Woken, Sizes, SMTT(30) DEF TypeOK, pipe
<1>2. \A q \in Callers : pc'[q] = IF q = p THEN "asleep"
                                  ELSE IF q \in Readers /\ pc[q] = "asleep" THEN "acquire"
                                  ELSE pc[q]
    BY Woken
<1>3. Locked'
    BY <1>0, <1>2, PipeAssumption DEF Locked, Callers
<1>4. Fits' /\ Empty' = Empty /\ Full' = Full
    BY SamePipe
<1>5. ReadersSleep'
    BY <1>0, <1>2 DEF ReadersSleep, Callers
<1>6. WritersSleep'
    BY <1>0, <1>2, <1>4 DEF WritersSleep, Callers
<1>7. QED
    BY <1>1, <1>3, <1>4, <1>5, <1>6

\* pipewrite() wakes the readers on its way out (pipe.c:99-102).
LEMMA WriteEndStep == ASSUME IInv, NEW p \in Writers, write_end(p) PROVE IInv'
<1> USE DEF IInv, write_end
<1>0. /\ lock = p /\ p \notin Readers /\ p \in Callers
      /\ \A q \in Writers : pc[q] = "asleep" => Full
    BY WriterHolds
<1>1. TypeOK'
    BY <1>0, Woken, Sizes DEF TypeOK, pipe
<1>2. \A q \in Callers : pc'[q] = IF q = p THEN "out"
                                  ELSE IF q \in Readers /\ pc[q] = "asleep" THEN "acquire"
                                  ELSE pc[q]
    BY Woken
<1>3. Locked'
    BY <1>0, <1>2, PipeAssumption DEF Locked, Callers
<1>4. Fits' /\ Empty' = Empty /\ Full' = Full
    BY SamePipe, Zenon
<1>5. ReadersSleep'
    BY <1>0, <1>2 DEF ReadersSleep, Callers
<1>6. WritersSleep'
    BY <1>0, <1>2, <1>4 DEF WritersSleep, Callers
<1>7. QED
    BY <1>1, <1>3, <1>4, <1>5, <1>6, Zenon

\* A byte more or less in the ring.
LEMMA OneMore ==
    ASSUME TypeOK, Fits, ~Full, nread' = nread, nwrite' = Inc(nwrite)
    PROVE  nwrite' \in 0 .. WRAP - 1 /\ Length' = Length + 1 /\ Length < PIPESIZE
<1>1. nread \in 0 .. WRAP - 1 /\ nwrite \in 0 .. WRAP - 1
    BY DEF TypeOK
<1>2. nwrite' = IF nwrite = WRAP - 1 THEN 0 ELSE nwrite + 1
    BY <1>1, Counters
<1>3. nread' \in 0 .. WRAP - 1 /\ nwrite' \in 0 .. WRAP - 1
    BY <1>1, <1>2, Sizes
<1>4. Length' = IF nread' <= nwrite' THEN nwrite' - nread' ELSE nwrite' + WRAP - nread'
    BY <1>3, Counters DEF Length
<1>5. /\ Length = IF nread <= nwrite THEN nwrite - nread ELSE nwrite + WRAP - nread
      /\ Length < PIPESIZE
    BY <1>1, Lengths, Sizes DEF Fits
<1>6. QED
    BY <1>1, <1>2, <1>3, <1>4, <1>5, Sizes

\* A byte read makes the ring one byte shorter, also where nread wraps.
LEMMA OneLess ==
    ASSUME TypeOK, Fits, ~Empty, nread' = Inc(nread), nwrite' = nwrite
    PROVE  nread' \in 0 .. WRAP - 1 /\ Length' = Length - 1 /\ Length > 0
<1>1. nread \in 0 .. WRAP - 1 /\ nwrite \in 0 .. WRAP - 1
    BY DEF TypeOK
<1>2. nread' = IF nread = WRAP - 1 THEN 0 ELSE nread + 1
    BY <1>1, Counters
<1>3. nread' \in 0 .. WRAP - 1 /\ nwrite' \in 0 .. WRAP - 1
    BY <1>1, <1>2, Sizes
<1>4. Length' = IF nread' <= nwrite' THEN nwrite' - nread' ELSE nwrite' + WRAP - nread'
    BY <1>3, Counters DEF Length
<1>5. /\ Length = IF nread <= nwrite THEN nwrite - nread ELSE nwrite + WRAP - nread
      /\ Length > 0
    BY <1>1, Lengths, Sizes
<1>6. QED
    BY <1>1, <1>2, <1>3, <1>4, <1>5, Sizes, SMTT(30)

\* A byte goes into a ring that has room (pipe.c:91-97).
LEMMA WriteByteStep == ASSUME IInv, NEW p \in Writers, write_byte(p) PROVE IInv'
<1> USE DEF IInv, write_byte
<1>0. /\ lock = p /\ p \notin Readers /\ p \in Callers
      /\ \A q \in Writers : pc[q] # "asleep"
    BY WriterHolds
<1>1. nwrite' \in 0 .. WRAP - 1 /\ Length' = Length + 1 /\ Length < PIPESIZE
    BY OneMore
<1>2. nwrite % PIPESIZE \in 0 .. PIPESIZE - 1
    BY Sizes, SMTT(30) DEF TypeOK
<1>3. TypeOK'
    BY <1>0, <1>1, <1>2, Sizes, SMTT(30) DEF TypeOK
<1>4. Locked'
    BY DEF Locked
<1>5. Fits'
    BY <1>1, Lengths, Sizes, SMTT(30) DEF Fits, TypeOK
<1>6. ReadersSleep'
    BY <1>0, Zenon DEF ReadersSleep
<1>7. WritersSleep'
    BY <1>0 DEF WritersSleep
<1>8. QED
    BY <1>3, <1>4, <1>5, <1>6, <1>7, Zenon

-----------------------------------------------------------------------------
\* A reader has the lock, so every sleeping reader sees an empty pipe.
LEMMA ReaderHolds ==
    ASSUME IInv, NEW p \in Readers, pc[p] \in {"loop", "copy"}
    PROVE  /\ lock = p /\ p \notin Writers /\ p \in Callers
           /\ \A q \in Readers : pc[q] = "asleep" => Empty
BY PipeAssumption DEF IInv, Locked, ReadersSleep, Callers

\* A reader sleeps on an empty ring that may still be written (pipe.c:113-119).
LEMMA ReadWaitStep == ASSUME IInv, NEW p \in Readers, read_wait(p) PROVE IInv'
<1> USE DEF IInv, read_wait
<1>0. /\ lock = p /\ p \notin Writers /\ p \in Callers
      /\ \A q \in Readers : pc[q] = "asleep" => Empty
    BY ReaderHolds, Zenon
<1>1. TypeOK'
    BY <1>0, Sizes, SMTT(30) DEF TypeOK, pipe
<1>2. /\ pc'[p] = IF killed[p] THEN "out" ELSE "asleep"
      /\ \A q \in Callers \ {p} : pc'[q] = pc[q]
    BY <1>0 DEF TypeOK
<1>3. Locked'
    BY <1>0, <1>2, PipeAssumption DEF Locked, Callers
<1>4. Fits' /\ Empty' = Empty /\ Full' = Full
    BY SamePipe, Zenon
<1>5. ReadersSleep'
    BY <1>0, <1>2, <1>4, Zenon DEF ReadersSleep, Callers
<1>6. WritersSleep'
    BY <1>0, <1>2, <1>4, Zenon DEF WritersSleep, Callers
<1>7. QED
    BY <1>1, <1>3, <1>4, <1>5, <1>6, Zenon

\* A reader leaves its wait loop (pipe.c:113).
LEMMA ReadReadyStep == ASSUME IInv, NEW p \in Readers, read_ready(p) PROVE IInv'
<1> USE DEF IInv, read_ready
<1>0. lock = p /\ p \notin Writers /\ p \in Callers
    BY ReaderHolds, Zenon
<1>1. TypeOK'
    BY <1>0, Sizes, Zenon DEF TypeOK, pipe
<1>2. /\ pc'[p] = "copy"
      /\ \A q \in Callers \ {p} : pc'[q] = pc[q]
    BY <1>0 DEF TypeOK
<1>3. Locked'
    BY <1>0, <1>2, Zenon DEF Locked, Callers
<1>4. Fits' /\ Empty' = Empty /\ Full' = Full
    BY SamePipe, Zenon
<1>5. ReadersSleep'
    BY <1>0, <1>2, <1>4, Zenon DEF ReadersSleep, Callers
<1>6. WritersSleep'
    BY <1>0, <1>2, <1>4, Zenon DEF WritersSleep, Callers
<1>7. QED
    BY <1>1, <1>3, <1>4, <1>5, <1>6, Zenon

\* A byte comes out of a ring that holds one (pipe.c:120-126).
LEMMA ReadByteStep == ASSUME IInv, NEW p \in Readers, read_byte(p) PROVE IInv'
<1> USE DEF IInv, read_byte
<1>0. /\ lock = p /\ p \notin Writers /\ p \in Callers
      /\ \A q \in Readers : pc[q] # "asleep"
    BY ReaderHolds, Zenon
<1>1. nread' \in 0 .. WRAP - 1 /\ Length' = Length - 1 /\ Length > 0
    BY OneLess
<1>2. TypeOK'
    <2>1. left' \in [Callers -> 0 .. MaxN]
        BY <1>0, Sizes, SMTT(30) DEF TypeOK
    <2>2. QED
        BY <1>1, <2>1, Zenon DEF TypeOK
<1>3. Locked'
    BY DEF Locked
<1>4. Fits'
    BY <1>1, Lengths, Sizes DEF Fits, TypeOK
<1>5. ReadersSleep'
    BY <1>0, Zenon DEF ReadersSleep
<1>6. WritersSleep'
    BY <1>0, Zenon DEF WritersSleep
<1>7. QED
    BY <1>2, <1>3, <1>4, <1>5, <1>6, Zenon

\* piperead() wakes the writers on its way out (pipe.c:127-129).
LEMMA ReadEndStep == ASSUME IInv, NEW p \in Readers, read_end(p) PROVE IInv'
<1> USE DEF IInv, read_end
<1>0. /\ lock = p /\ p \notin Writers /\ p \in Callers
      /\ \A q \in Readers : pc[q] = "asleep" => Empty
    BY ReaderHolds, Zenon
<1>1. TypeOK'
    BY <1>0, Woken, Sizes DEF TypeOK, pipe
<1>2. \A q \in Callers : pc'[q] = IF q = p THEN "out"
                                  ELSE IF q \in Writers /\ pc[q] = "asleep" THEN "acquire"
                                  ELSE pc[q]
    BY Woken, Zenon
<1>3. Locked'
    BY <1>0, <1>2, PipeAssumption DEF Locked, Callers
<1>4. Fits' /\ Empty' = Empty /\ Full' = Full
    BY SamePipe, Zenon
<1>5. ReadersSleep'
    BY <1>0, <1>2, <1>4 DEF ReadersSleep, Callers
<1>6. WritersSleep'
    BY <1>0, <1>2 DEF WritersSleep, Callers
<1>7. QED
    BY <1>1, <1>3, <1>4, <1>5, <1>6, Zenon

-----------------------------------------------------------------------------
\* pipeclose() wakes those who wait for the other end (pipe.c:58-68).
LEMMA CloseStep == ASSUME IInv, NEW w \in BOOLEAN, pipeclose(w) PROVE IInv'
<1> DEFINE ps == IF w THEN Readers ELSE Writers
<1> USE DEF IInv, pipeclose
<1>1. TypeOK'
    BY Woken, Zenon DEF TypeOK, pipe
<1>2. \A q \in Callers : pc'[q] = IF q \in ps /\ pc[q] = "asleep" THEN "acquire" ELSE pc[q]
    BY Woken, Zenon
<1>3. Locked'
    BY <1>2 DEF Locked, Callers
<1>4. Fits' /\ Empty' = Empty /\ Full' = Full
    BY SamePipe, Zenon
<1>5. lock = None /\ None \notin Callers
    BY PipeAssumption, Zenon
<1>6. CASE w
    <2>1. /\ \A q \in Writers : pc'[q] = "out"
          /\ \A q \in Readers : pc'[q] # "asleep"
        BY <1>2, <1>6, PipeAssumption, Zenon DEF Callers
    <2>2. QED
        BY <1>1, <1>3, <1>4, <2>1, Zenon DEF ReadersSleep, WritersSleep
<1>7. CASE ~w
    <2>1. /\ \A q \in Readers : pc'[q] = "out"
          /\ \A q \in Writers : pc'[q] # "asleep"
        BY <1>2, <1>7, PipeAssumption, Zenon DEF Callers
    <2>2. QED
        BY <1>1, <1>3, <1>4, <2>1, Zenon DEF ReadersSleep, WritersSleep
<1>8. QED
    BY <1>6, <1>7

\* A kill wakes the sleeper it hits (proc.c:589-608).
LEMMA KillStep == ASSUME IInv, NEW p \in Callers, kkill(p) PROVE IInv'
<1> USE DEF IInv, kkill
<1>1. TypeOK'
    BY Woken DEF TypeOK, pipe
<1>2. \A q \in Callers : /\ pc'[q] = IF q = p /\ pc[q] = "asleep" THEN "acquire" ELSE pc[q]
                         /\ q # p => killed'[q] = killed[q]
    BY Woken, Zenon DEF TypeOK
<1>3. Locked'
    BY <1>2, Zenon DEF Locked, Callers
<1>4. Fits' /\ Empty' = Empty /\ Full' = Full
    BY SamePipe
<1>5. lock = None /\ None \notin Callers
    BY PipeAssumption, SMTT(30)
<1>6. ReadersSleep'
    BY <1>2, <1>4, <1>5, Zenon DEF ReadersSleep, Callers
<1>7. WritersSleep'
    BY <1>2, <1>4, <1>5, Zenon DEF WritersSleep, Callers
<1>8. QED
    BY <1>1, <1>3, <1>4, <1>6, <1>7, Zenon

\* Every step keeps the invariant.
LEMMA NextIInv == IInv /\ [Next]_vars => IInv'
<1> SUFFICES ASSUME IInv, [Next]_vars PROVE IInv'
    BY Zenon
<1>1. CASE UNCHANGED vars
    BY <1>1 DEF vars, IInv, TypeOK, Locked, ReadersSleep, WritersSleep, Fits, Length, Empty, Full
<1>2. CASE \E p \in Callers : call(p) \/ acquire(p) \/ kkill(p)
    BY <1>2, CallStep, AcquireStep, KillStep, Zenon
<1>3. CASE \E p \in Writers : pipewrite(p)
    BY <1>3, WriteAbortStep, WriteFullStep, WriteByteStep, WriteEndStep, Zenon DEF pipewrite
<1>4. CASE \E p \in Readers : piperead(p)
    BY <1>4, ReadWaitStep, ReadReadyStep, ReadByteStep, ReadEndStep, Zenon DEF piperead
<1>5. CASE \E w \in BOOLEAN : pipeclose(w)
    BY <1>5, CloseStep
<1>6. QED
    BY <1>1, <1>2, <1>3, <1>4, <1>5, Zenon DEF Next

\* The invariant holds in every reachable state of the pipe (pipe.c:76-130): whoever
\* is inside a loop holds pi->lock, sleepers have a reason to sleep unless the one
\* who holds the lock has yet to wake them, and the ring never overfills.
THEOREM PipeInvariant == Spec => []IInv
BY InitIInv, NextIInv, PTL DEF Spec

\* Nobody sleeps on a condition that has come true (pipe.c:88-90, 112-117),
\* whatever the number of readers and writers, kills and closes included.
THEOREM SleepJustifiedHolds == Spec => []SleepJustified
<1>1. IInv => SleepJustified
    BY PipeAssumption DEF IInv, ReadersSleep, WritersSleep, SleepJustified, Callers
<1>2. QED
    BY <1>1, PipeInvariant, PTL

-----------------------------------------------------------------------------
(* The ring implements the queue.                                          *)

\* A function on 1 .. l is a sequence of length l.
LEMMA SeqOf ==
    ASSUME NEW l \in Nat, NEW s \in [1 .. l -> Bytes]
    PROVE  s \in Seq(Bytes) /\ Len(s) = l
<1>1. s \in Seq(Bytes)
    BY SeqDef
<1>2. DOMAIN s = 1 .. l /\ DOMAIN s = 1 .. Len(s) /\ Len(s) \in Nat
    BY <1>1, LenProperties
<1>3. QED
    BY <1>1, <1>2

\* The i-th byte is in the slot the counters say, also past the overflow.
LEMMA Slots ==
    ASSUME NEW f \in [0 .. PIPESIZE - 1 -> Bytes], NEW r \in Nat, NEW l \in Nat
    PROVE  [i \in 1 .. l |-> f[(r + i - 1) % PIPESIZE]] \in [1 .. l -> Bytes]
<1>1. \A i \in 1 .. l : r + i - 1 \in Nat
    OBVIOUS
<1>2. \A i \in 1 .. l : (r + i - 1) % PIPESIZE \in 0 .. PIPESIZE - 1
    BY <1>1, Divide, Sizes, Zenon
<1>3. QED
    BY <1>2, Zenon

\* Writing a byte appends it to what the ring holds (pipe.c:95).
LEMMA WriteIsPut == ASSUME IInv, NEW p \in Writers, write_byte(p) PROVE Q!QNext
<1> USE DEF IInv
<1>1. /\ nread \in Nat /\ nwrite \in Nat /\ nread' = nread
      /\ nread \in 0 .. WRAP - 1 /\ nwrite \in 0 .. WRAP - 1
    BY Sizes DEF TypeOK, write_byte
<1>2. Length' = Length + 1 /\ Length < PIPESIZE /\ Length \in Nat
    BY <1>1, OneMore, Lengths DEF write_byte
<1>3. PICK b \in Bytes : data' = [data EXCEPT ![nwrite % PIPESIZE] = b]
    BY Zenon DEF write_byte
<1>4. nwrite % PIPESIZE = (nread + Length) % PIPESIZE
    <2>1. CASE nread <= nwrite
        BY <1>1, <2>1, Lengths, Sizes
    <2>2. CASE nwrite < nread
        <3>1. nread + Length = nwrite + WRAP
            BY <1>1, <2>2, Lengths, Sizes
        <3>2. QED
            BY <1>1, <3>1, Shift, Zenon
    <2>3. QED
        BY <1>1, <2>1, <2>2
<1>5. data \in [0 .. PIPESIZE - 1 -> Bytes] /\ data' \in [0 .. PIPESIZE - 1 -> Bytes]
    BY WriteByteStep DEF TypeOK
<1>6. Contents \in Seq(Bytes) /\ Len(Contents) = Length
    <2>1. Contents \in [1 .. Length -> Bytes]
        BY <1>1, <1>2, <1>5, Slots, ZenonT(30) DEF Contents
    <2>2. QED
        BY <1>2, <2>1, SeqOf, SMTT(30)
<1>7. Contents' \in Seq(Bytes) /\ Len(Contents') = Length + 1
    <2>1. Contents' = [i \in 1 .. Length + 1 |-> data'[(nread + i - 1) % PIPESIZE]]
        BY <1>1, <1>2 DEF Contents
    <2>2. Length + 1 \in Nat
        BY <1>2
    <2>3. Contents' \in [1 .. Length + 1 -> Bytes]
        BY <1>1, <1>5, <2>1, <2>2, Slots, ZenonT(30)
    <2>4. QED
        BY <2>2, <2>3, SeqOf
<1>8. \A i \in 1 .. Length : Contents'[i] = Contents[i]
    <2> SUFFICES ASSUME NEW i \in 1 .. Length
                 PROVE  Contents'[i] = Contents[i]
        OBVIOUS
    <2> DEFINE x == nread + i - 1
    <2>1. x \in Nat /\ x < nread + Length /\ nread + Length < x + PIPESIZE
        BY <1>1, <1>2, Sizes
    <2>2. x % PIPESIZE # nwrite % PIPESIZE
        BY <1>1, <1>2, <1>4, <2>1, Apart
    <2>3. x % PIPESIZE \in 0 .. PIPESIZE - 1
        BY <2>1, Divide, Sizes, Zenon
    <2>4. data'[x % PIPESIZE] = data[x % PIPESIZE]
        BY <1>3, <1>5, <2>2, <2>3
    <2>5. QED
        BY <1>1, <1>2, <2>4 DEF Contents
<1>9. Contents'[Length + 1] = b
    <2>1. (nread + Length) % PIPESIZE \in 0 .. PIPESIZE - 1
        BY <1>1, <1>2, Divide, Sizes, SMTT(30)
    <2>2. data'[(nread + Length) % PIPESIZE] = b
        BY <1>3, <1>4, <1>5, <2>1, Zenon
    <2>3. Contents'[Length + 1] = data'[(nread + (Length + 1) - 1) % PIPESIZE]
        BY <1>1, <1>2 DEF Contents
    <2>4. nread + (Length + 1) - 1 = nread + Length
        BY <1>1, <1>2, SMTT(30)
    <2>5. QED
        BY <2>2, <2>3, <2>4, Zenon
<1>10. /\ Append(Contents, b) \in Seq(Bytes)
       /\ Len(Append(Contents, b)) = Length + 1
       /\ \A i \in 1 .. Length : Append(Contents, b)[i] = Contents[i]
       /\ Append(Contents, b)[Length + 1] = b
    BY <1>6, AppendProperties
<1>11. \A i \in 1 .. Length + 1 : Contents'[i] = Append(Contents, b)[i]
    BY <1>2, <1>8, <1>9, <1>10, SMTT(30)
<1>12. Contents' = Append(Contents, b)
    BY <1>7, <1>10, <1>11, SeqEqual, Zenon
<1>13. QED
    BY <1>2, <1>6, <1>12, Zenon DEF Q!QNext, Q!Put

\* Reading a byte takes the oldest one and leaves the rest in order (pipe.c:123).
LEMMA ReadIsGet == ASSUME IInv, NEW p \in Readers, read_byte(p) PROVE Q!QNext
<1> USE DEF IInv
<1>1. /\ nread \in Nat /\ nread \in 0 .. WRAP - 1 /\ nwrite \in 0 .. WRAP - 1
      /\ data' = data /\ data \in [0 .. PIPESIZE - 1 -> Bytes]
    BY Sizes DEF TypeOK, read_byte
<1>2. /\ Length' = Length - 1 /\ Length > 0 /\ Length \in Nat
      /\ nread' \in 0 .. WRAP - 1
    BY <1>1, OneLess, Lengths, SMTT(30) DEF read_byte
<1>3. nread' = IF nread = WRAP - 1 THEN 0 ELSE nread + 1
    BY <1>1, Counters, Zenon DEF read_byte
<1>4. Contents \in Seq(Bytes) /\ Len(Contents) = Length /\ Contents # << >>
    <2>1. Contents \in [1 .. Length -> Bytes]
        BY <1>1, <1>2, Slots, Zenon DEF Contents
    <2>2. Contents \in Seq(Bytes) /\ Len(Contents) = Length
        BY <1>2, <2>1, SeqOf, Zenon
    <2>3. QED
        BY <1>2, <2>2, EmptySeq, SMTT(30)
<1>5. Contents' \in Seq(Bytes) /\ Len(Contents') = Length - 1
    <2>1. nread' \in Nat /\ Length' \in Nat
        BY <1>2, Sizes
    <2>2. Contents' = [i \in 1 .. Length' |-> data[(nread' + i - 1) % PIPESIZE]]
        BY <1>1 DEF Contents
    <2>3. Contents' \in [1 .. Length' -> Bytes]
        BY <1>1, <2>1, <2>2, Slots, ZenonT(30)
    <2>4. QED
        BY <1>2, <2>1, <2>3, SeqOf, Zenon
<1>6. /\ Tail(Contents) \in Seq(Bytes) /\ Len(Tail(Contents)) = Length - 1
      /\ \A i \in 1 .. Length - 1 : Tail(Contents)[i] = Contents[i + 1]
    BY <1>4, HeadTailProperties
<1>7. \A i \in 1 .. Length - 1 : Contents'[i] = Contents[i + 1]
    <2> SUFFICES ASSUME NEW i \in 1 .. Length - 1
                 PROVE  Contents'[i] = Contents[i + 1]
        OBVIOUS
    <2>1. (nread' + i - 1) % PIPESIZE = (nread + i) % PIPESIZE
        <3>1. CASE nread = WRAP - 1
            <4>1. nread + i = (i - 1) + WRAP /\ nread' + i - 1 = i - 1 /\ i - 1 \in Nat
                BY <1>2, <1>3, <3>1, Sizes
            <4>2. QED
                BY <4>1, Shift, Zenon
        <3>2. CASE nread # WRAP - 1
            <4>1. nread' + i - 1 = nread + i
                BY <1>1, <1>2, <1>3, <3>2, SMTT(30)
            <4>2. QED
                BY <4>1, Zenon
        <3>3. QED
            BY <3>1, <3>2, Zenon
    <2>2. Contents'[i] = data[(nread' + i - 1) % PIPESIZE]
        BY <1>1, <1>2, Zenon DEF Contents
    <2>3. Contents[i + 1] = data[(nread + (i + 1) - 1) % PIPESIZE]
        BY <1>1, <1>2 DEF Contents
    <2>4. nread + (i + 1) - 1 = nread + i
        BY <1>1, <1>2
    <2>5. QED
        BY <2>1, <2>2, <2>3, <2>4, Zenon
<1>8. Contents' = Tail(Contents)
    BY <1>2, <1>5, <1>6, <1>7, SeqEqual, Zenon
<1>9. QED
    BY <1>4, <1>8, Zenon DEF Q!QNext, Q!Get

\* Every other step leaves the bytes alone.
LEMMA SameContents == ASSUME UNCHANGED pipe PROVE UNCHANGED Contents
BY DEF pipe, Contents, Length

\* Every step of the pipe is a step of the queue, or leaves it alone.
LEMMA NextIsQueue == IInv /\ [Next]_vars => [Q!QNext]_Contents
<1> SUFFICES ASSUME IInv, [Next]_vars PROVE [Q!QNext]_Contents
    OBVIOUS
<1>1. CASE UNCHANGED pipe
    BY <1>1, SameContents
<1>2. CASE \E p \in Writers : write_byte(p)
    BY <1>2, WriteIsPut
<1>3. CASE \E p \in Readers : read_byte(p)
    BY <1>3, ReadIsGet, Zenon
<1>4. \/ UNCHANGED pipe
      \/ \E p \in Writers : write_byte(p)
      \/ \E p \in Readers : read_byte(p)
    BY Zenon DEF Next, vars, pipe, call, acquire, kkill, pipewrite, piperead, pipeclose, write_abort,
           write_full, write_end, read_wait, read_ready, read_end
<1>5. QED
    BY <1>1, <1>2, <1>3, <1>4, Zenon

\* The ring is a queue of PIPESIZE bytes (pipe.c:88-97, 119-125): bytes come out
\* once, whole and in order, also where nread and nwrite overflow.
THEOREM FifoPipeHolds == Spec => FifoPipe
<1>1. Init => Q!QInit
    <2> SUFFICES ASSUME Init PROVE Contents = << >>
        BY DEF Q!QInit
    <2>1. Length = 0
        BY Lengths, Sizes DEF Init
    <2>2. QED
        BY <2>1 DEF Contents
<1>2. QED
    BY <1>1, PipeInvariant, NextIsQueue, PTL DEF Spec, FifoPipe, Q!QSpec
=============================================================================
