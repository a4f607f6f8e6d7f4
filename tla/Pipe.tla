-------------------------------- MODULE Pipe --------------------------------
(***************************************************************************)
(* A pipe of xv6 (kernel/pipe.c): any number of processes write, read and  *)
(* close its two ends and are killed. sleep() and wakeup() are the atomic  *)
(* ones that Sched justifies. A step is one round of a loop, under         *)
(* pi->lock. nread and nwrite are unsigned and wrap around.                *)
(***************************************************************************)
EXTENDS Naturals, Sequences, FiniteSets

CONSTANTS Writers,   \* processes that write
          Readers,   \* processes that read
          Bytes,     \* values of a byte
          PIPESIZE,  \* size of the ring
          WRAP,      \* the counters count modulo WRAP (2^32), a multiple of PIPESIZE
          MaxN,      \* most bytes asked for in one call
          None

Callers == Writers \cup Readers

ASSUME PipeAssumption ==
    /\ PIPESIZE \in Nat \ {0} /\ MaxN \in Nat
    /\ WRAP \in Nat /\ PIPESIZE < WRAP /\ WRAP % PIPESIZE = 0
    /\ Writers \cap Readers = {} /\ None \notin Callers

VARIABLES
    data, nread, nwrite, readopen, writeopen,   \* struct pipe
    lock,      \* the process that holds pi->lock, or None
    pc,        \* where each process is
    left,      \* how many bytes its call still has to move
    killed     \* p->killed

pipe == <<data, nread, nwrite>>
vars == <<data, nread, nwrite, readopen, writeopen, lock, pc, left, killed>>

TypeOK ==
    /\ data \in [0 .. PIPESIZE - 1 -> Bytes]
    /\ nread \in 0 .. WRAP - 1 /\ nwrite \in 0 .. WRAP - 1
    /\ readopen \in BOOLEAN /\ writeopen \in BOOLEAN
    /\ lock \in Callers \cup {None}
    /\ pc \in [Callers -> {"out", "acquire", "loop", "copy", "asleep"}]
    /\ left \in [Callers -> 0 .. MaxN]
    /\ killed \in [Callers -> BOOLEAN]

Init ==
    /\ data \in {[i \in 0 .. PIPESIZE - 1 |-> b] : b \in Bytes}
    /\ nread = 0 /\ nwrite = 0
    /\ readopen = TRUE /\ writeopen = TRUE
    /\ lock = None
    /\ pc = [p \in Callers |-> "out"]
    /\ left = [p \in Callers |-> 0]
    /\ killed = [p \in Callers |-> FALSE]

Empty == nread = nwrite
\* Mutant: one byte too many fits.
Full_late == nwrite = (nread + PIPESIZE + 1) % WRAP

Full == nwrite = (nread + PIPESIZE) % WRAP
Inc(n) == (n + 1) % WRAP

\* wakeup(&pi->nread) wakes ps = Readers, wakeup(&pi->nwrite) ps = Writers.
wakeup(f, ps) == [p \in Callers |-> IF p \in ps /\ f[p] = "asleep" THEN "acquire" ELSE f[p]]

\* The call: a killed process makes none, it exits.
call(p) ==
    /\ pc[p] = "out" /\ ~killed[p]
    /\ IF p \in Writers THEN writeopen ELSE readopen
    /\ \E n \in 1 .. MaxN : left' = [left EXCEPT ![p] = n]
    /\ pc' = [pc EXCEPT ![p] = "acquire"]
    /\ UNCHANGED <<pipe, readopen, writeopen, lock, killed>>

\* acquire(&pi->lock), at the start and again in sleep().
acquire(p) ==
    /\ pc[p] = "acquire" /\ lock = None
    /\ lock' = p
    /\ pc' = [pc EXCEPT ![p] = "loop"]
    /\ UNCHANGED <<pipe, readopen, writeopen, left, killed>>

-----------------------------------------------------------------------------
write_abort(p) ==
    /\ pc[p] = "loop" /\ left[p] > 0
    /\ ~readopen \/ killed[p]
    /\ lock' = None
    /\ pc' = [pc EXCEPT ![p] = "out"]
    /\ left' = [left EXCEPT ![p] = 0]
    /\ UNCHANGED <<pipe, readopen, writeopen, killed>>

write_full(p) ==
    /\ pc[p] = "loop" /\ left[p] > 0
    /\ readopen /\ ~killed[p] /\ Full
    /\ lock' = None
    /\ pc' = [wakeup(pc, Readers) EXCEPT ![p] = "asleep"]
    /\ UNCHANGED <<pipe, readopen, writeopen, left, killed>>

write_byte(p) ==
    /\ pc[p] = "loop" /\ left[p] > 0
    /\ readopen /\ ~killed[p] /\ ~Full
    /\ \E b \in Bytes : data' = [data EXCEPT ![nwrite % PIPESIZE] = b]
    /\ nwrite' = Inc(nwrite)
    /\ left' = [left EXCEPT ![p] = @ - 1]
    /\ UNCHANGED <<nread, readopen, writeopen, lock, pc, killed>>

\* Everything written, or copyin() failed: wake the readers and return.
write_end(p) ==
    /\ pc[p] = "loop"
    /\ \/ left[p] = 0
       \/ readopen /\ ~killed[p] /\ ~Full
    /\ lock' = None
    /\ pc' = [wakeup(pc, Readers) EXCEPT ![p] = "out"]
    /\ left' = [left EXCEPT ![p] = 0]
    /\ UNCHANGED <<pipe, readopen, writeopen, killed>>

pipewrite(p) == write_abort(p) \/ write_full(p) \/ write_byte(p) \/ write_end(p)

-----------------------------------------------------------------------------
read_wait(p) ==
    /\ pc[p] = "loop" /\ Empty /\ writeopen
    /\ IF killed[p] THEN pc' = [pc EXCEPT ![p] = "out"] /\ left' = [left EXCEPT ![p] = 0]
                    ELSE pc' = [pc EXCEPT ![p] = "asleep"] /\ UNCHANGED left
    /\ lock' = None
    /\ UNCHANGED <<pipe, readopen, writeopen, killed>>

read_ready(p) ==
    /\ pc[p] = "loop" /\ (~Empty \/ ~writeopen)
    /\ pc' = [pc EXCEPT ![p] = "copy"]
    /\ UNCHANGED <<pipe, readopen, writeopen, lock, left, killed>>

\* One byte out of the ring; when copyout() then fails the call ends.
read_byte(p) ==
    /\ pc[p] = "copy" /\ left[p] > 0 /\ ~Empty
    /\ nread' = Inc(nread)
    /\ \/ left' = [left EXCEPT ![p] = @ - 1]
       \/ left' = [left EXCEPT ![p] = 0]
    /\ UNCHANGED <<data, nwrite, readopen, writeopen, lock, pc, killed>>

\* Mutant: the writers are not woken.
read_end_silent(p) ==
    /\ pc[p] = "copy" /\ (left[p] = 0 \/ Empty)
    /\ lock' = None
    /\ pc' = [pc EXCEPT ![p] = "out"]
    /\ left' = [left EXCEPT ![p] = 0]
    /\ UNCHANGED <<pipe, readopen, writeopen, killed>>

read_end(p) ==
    /\ pc[p] = "copy" /\ (left[p] = 0 \/ Empty)
    /\ lock' = None
    /\ pc' = [wakeup(pc, Writers) EXCEPT ![p] = "out"]
    /\ left' = [left EXCEPT ![p] = 0]
    /\ UNCHANGED <<pipe, readopen, writeopen, killed>>

piperead(p) == read_wait(p) \/ read_ready(p) \/ read_byte(p) \/ read_end(p)

-----------------------------------------------------------------------------
\* The last descriptor of an end is closed: nobody is in a call on it.
pipeclose(writable) ==
    /\ lock = None
    /\ \A p \in (IF writable THEN Writers ELSE Readers) : pc[p] = "out"
    /\ IF writable THEN writeopen /\ writeopen' = FALSE /\ UNCHANGED readopen
                   ELSE readopen /\ readopen' = FALSE /\ UNCHANGED writeopen
    /\ pc' = wakeup(pc, IF writable THEN Readers ELSE Writers)
    /\ UNCHANGED <<pipe, lock, left, killed>>

\* kkill(p): on the one CPU of the SoC, nothing else runs while a process holds
\* pi->lock.
kkill(p) ==
    /\ lock = None
    /\ ~killed[p]
    /\ killed' = [killed EXCEPT ![p] = TRUE]
    /\ pc' = wakeup(pc, {p})
    /\ UNCHANGED <<pipe, readopen, writeopen, lock, left>>

Next == \/ \E p \in Callers : call(p) \/ acquire(p) \/ kkill(p)
        \/ \E p \in Writers : pipewrite(p)
        \/ \E p \in Readers : piperead(p)
        \/ \E w \in BOOLEAN : pipeclose(w)

Spec == Init /\ [][Next]_vars

\* The scheduler runs whoever can run; a lock that is free again and again is
\* got; readers go on reading and an end is closed when its users are dead.
FairSpec ==
    /\ Spec
    /\ \A p \in Callers : SF_vars(acquire(p))
    /\ \A p \in Writers : WF_vars(pipewrite(p))
    /\ \A p \in Readers : WF_vars(piperead(p)) /\ WF_vars(call(p))
    /\ WF_vars(pipeclose(FALSE) /\ \A p \in Readers : killed[p])

-----------------------------------------------------------------------------
\* The bytes in the ring, oldest first.
Length == (nwrite + WRAP - nread) % WRAP
Contents == [i \in 1 .. Length |-> data[(nread + i - 1) % PIPESIZE]]

Q == INSTANCE BoundedQueue WITH Values <- Bytes, Capacity <- PIPESIZE,
                                queue <- Contents

\* The ring is a queue of PIPESIZE bytes, also where the counters wrap
\* (pipe.c:88-97, 119-125): bytes come out once, whole and in order.
FifoPipe == Q!QSpec
FifoStep == [Q!QNext]_Contents

\* Nobody sleeps on a condition that has come true (pipe.c:88-90, 112-117): a
\* sleeping reader sees an empty pipe some process may write, a sleeping
\* writer a full one some process may read, and neither is killed.
SleepJustified ==
    lock = None =>
       /\ \A p \in Readers : pc[p] = "asleep" => Empty /\ writeopen /\ ~killed[p]
       /\ \A p \in Writers : pc[p] = "asleep" => Full /\ readopen /\ ~killed[p]

\* A pipewrite() ends when readers keep reading or close their end.
WriteEnds == \A p \in Writers : pc[p] # "out" ~> pc[p] = "out"
=============================================================================
