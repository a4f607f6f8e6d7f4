-------------------------------- MODULE Log ---------------------------------
(***************************************************************************)
(* The write-ahead log of the xv6 port: kernel/log.c over the buffer cache *)
(* (kernel/bio.c) and the SD card (kernel/sdcard.c).                       *)
(*                                                                         *)
(* A step is what runs under one hold of log.lock or ends in one block     *)
(* write to the card; a block write is atomic (BSIZE is the 512-byte       *)
(* sector, and the log header fits in one, log.c:56). A kernel panic, and  *)
(* a card that refuses a write (spi_wb panics), both end in Crash.         *)
(***************************************************************************)
EXTENDS Integers, Sequences, FiniteSets

CONSTANTS
    Procs,        \* processes that make file system calls
    Blocks,       \* home block numbers
    Data,         \* block contents
    LOGBLOCKS,    \* data blocks in the on-disk log (param.h:10)
    MAXOPBLOCKS,  \* blocks reserved per call (param.h:9)
    OpBlocks      \* distinct blocks one call really writes

ASSUME SizeAssumption ==
    /\ IsFiniteSet(Procs)
    /\ LOGBLOCKS \in Nat \ {0}
    /\ MAXOPBLOCKS \in Nat
    /\ OpBlocks \in Nat

VARIABLES
    home,         \* disk: the blocks at their home locations
    logarea,      \* disk: the blocks of the log, after the header
    head,         \* disk: the log header, a sequence of block numbers
    cache,        \* memory: what bread() returns for a home block
    pins,         \* memory: refcnt held by bpin()
    lh,           \* memory: log.lh, block numbers of this transaction
    outstanding,  \* memory: log.outstanding
    committing,   \* memory: log.committing
    tail,         \* loop index of write_log() and install_trans()
    boot,         \* step of recover_from_log(), or "up"
    pc,           \* where each process is
    buf,          \* buffer a process holds between bread() and brelse()
    wrote         \* blocks each call has written

disk == <<home, logarea, head>>
memory == <<cache, pins, lh, outstanding, committing>>
vars == <<disk, memory, tail, boot, pc, buf, wrote>>

NoBuf == {}

Slots == 1 .. LOGBLOCKS

Elems(s) == {s[i] : i \in DOMAIN s}

CommitSteps == {"write_log", "install", "finish"}

\* Every piece of state keeps its type: bunpin() never drops a reference
\* log_write() did not take (bio.c:147-152), log.outstanding never goes below
\* zero (log.c:153), and log.lh.block[] is never indexed past its end.
TypeOK ==
    /\ home \in [Blocks -> Data]
    /\ logarea \in [Slots -> Data]
    /\ head \in Seq(Blocks) /\ Len(head) <= LOGBLOCKS
    /\ cache \in [Blocks -> Data]
    /\ pins \in [Blocks -> Nat]
    /\ lh \in Seq(Blocks) /\ Len(lh) <= LOGBLOCKS
    /\ outstanding \in Nat
    /\ committing \in BOOLEAN
    /\ tail \in Nat \ {0}
    /\ boot \in {"read_head", "install", "up"}
    /\ pc \in [Procs -> {"out", "begin", "asleep", "op"} \cup CommitSteps]
    /\ buf \in [Procs -> SUBSET Blocks]
    /\ wrote \in [Procs -> SUBSET Blocks]

\* mkfs writes an empty log; binit() starts with no block cached, so the
\* first bread() of a block finds its home contents.
Init ==
    /\ home \in [Blocks -> Data]
    /\ logarea \in [Slots -> Data]
    /\ head = << >>
    /\ cache = home
    /\ pins = [b \in Blocks |-> 0]
    /\ lh = << >>
    /\ outstanding = 0
    /\ committing = FALSE
    /\ tail = 1
    /\ boot = "read_head"
    /\ pc = [p \in Procs |-> "out"]
    /\ buf = [p \in Procs |-> NoBuf]
    /\ wrote = [p \in Procs |-> {}]

-----------------------------------------------------------------------------
(* Recovery, in the first process before any other runs: fsinit().         *)

read_head ==
    /\ boot = "read_head"
    /\ lh' = head
    /\ tail' = 1
    /\ boot' = "install"
    /\ UNCHANGED <<disk, cache, pins, outstanding, committing, pc, buf, wrote>>

\* One round of install_trans(1); the cached copy of the block follows.
install_recovering ==
    /\ boot = "install"
    /\ tail <= Len(lh)
    /\ home' = [home EXCEPT ![lh[tail]] = logarea[tail]]
    /\ cache' = [cache EXCEPT ![lh[tail]] = logarea[tail]]
    /\ tail' = tail + 1
    /\ UNCHANGED <<logarea, head, pins, lh, outstanding, committing, boot,
                   pc, buf, wrote>>

\* log.lh.n = 0, then write_head(): the log is erased.
erase_recovered ==
    /\ boot = "install"
    /\ tail > Len(lh)
    /\ lh' = << >>
    /\ head' = << >>
    /\ boot' = "up"
    /\ UNCHANGED <<home, logarea, cache, pins, outstanding, committing, tail,
                   pc, buf, wrote>>

-----------------------------------------------------------------------------
(* begin_op(), log_write() and end_op() in the calls of a process.         *)

syscall(p) ==
    /\ boot = "up"
    /\ pc[p] = "out"
    /\ pc' = [pc EXCEPT ![p] = "begin"]
    /\ UNCHANGED <<disk, memory, tail, boot, buf, wrote>>

\* Mutant: the space reserved by the calls under way is forgotten.
LogFull_one == Len(lh) + MAXOPBLOCKS > LOGBLOCKS

LogFull == Len(lh) + (outstanding + 1) * MAXOPBLOCKS > LOGBLOCKS

begin_op(p) ==
    /\ pc[p] = "begin"
    /\ IF committing \/ LogFull
       THEN /\ pc' = [pc EXCEPT ![p] = "asleep"]
            /\ UNCHANGED <<outstanding, wrote>>
       ELSE /\ pc' = [pc EXCEPT ![p] = "op"]
            /\ outstanding' = outstanding + 1
            /\ wrote' = [wrote EXCEPT ![p] = {}]
    /\ UNCHANGED <<disk, cache, pins, lh, committing, tail, boot, buf>>

\* The caller's side of the protocol in the comment above log_write():
\* bp = bread(...), modify bp->data[]. The buffer stays locked.
modify(p, b, d) ==
    /\ pc[p] = "op"
    /\ buf[p] = NoBuf
    /\ \A q \in Procs : b \notin buf[q]
    /\ Cardinality(wrote[p] \cup {b}) <= OpBlocks
    /\ cache' = [cache EXCEPT ![b] = d]
    /\ buf' = [buf EXCEPT ![p] = {b}]
    /\ wrote' = [wrote EXCEPT ![p] = @ \cup {b}]
    /\ UNCHANGED <<disk, pins, lh, outstanding, committing, tail, boot, pc>>

\* The checks that come before absorption: a full log, or no call active.
TooBig == Len(lh) >= LOGBLOCKS
OutsideOfTrans == outstanding < 1

\* Mutant: the block is logged and not pinned.
log_write_no_pin(p, b) ==
    /\ pc[p] = "op"
    /\ b \in buf[p]
    /\ ~TooBig
    /\ ~OutsideOfTrans
    /\ lh' = IF b \in Elems(lh) THEN lh ELSE Append(lh, b)
    /\ buf' = [buf EXCEPT ![p] = NoBuf]
    /\ UNCHANGED <<disk, cache, pins, outstanding, committing, tail, boot, pc,
                   wrote>>

\* log_write(bp), then brelse(bp).
log_write(p, b) ==
    /\ pc[p] = "op"
    /\ b \in buf[p]
    /\ ~TooBig
    /\ ~OutsideOfTrans
    /\ IF b \in Elems(lh)
       THEN UNCHANGED <<lh, pins>>
       ELSE /\ lh' = Append(lh, b)
            /\ pins' = [pins EXCEPT ![b] = @ + 1]
    /\ buf' = [buf EXCEPT ![p] = NoBuf]
    /\ UNCHANGED <<disk, cache, outstanding, committing, tail, boot, pc, wrote>>

\* wakeup(&log): every process asleep in begin_op() tries again.
WakeupExcept(p, step) ==
    [q \in Procs |-> IF q = p THEN step
                     ELSE IF pc[q] = "asleep" THEN "begin" ELSE pc[q]]

\* The last call to end commits; commit() does nothing for an empty log.
end_op(p) ==
    /\ pc[p] = "op"
    /\ buf[p] = NoBuf
    /\ ~committing
    /\ outstanding' = outstanding - 1
    /\ IF outstanding' = 0
       THEN /\ committing' = TRUE
            /\ tail' = 1
            /\ pc' = [pc EXCEPT ![p] = IF lh = << >> THEN "finish"
                                       ELSE "write_log"]
       ELSE /\ pc' = WakeupExcept(p, "out")
            /\ UNCHANGED <<committing, tail>>
    /\ UNCHANGED <<disk, cache, pins, lh, boot, buf, wrote>>

-----------------------------------------------------------------------------
(* commit(), by the process whose end_op() was the last.                   *)

\* One round of write_log(): the cached block goes to the log.
write_log(p) ==
    /\ pc[p] = "write_log"
    /\ tail <= Len(lh)
    /\ logarea' = [logarea EXCEPT ![tail] = cache[lh[tail]]]
    /\ tail' = tail + 1
    /\ UNCHANGED <<home, head, memory, boot, pc, buf, wrote>>

\* Mutant: the header is written before the blocks of the log.
write_head_first(p) ==
    /\ pc[p] = "write_log"
    /\ head' = lh
    /\ tail' = 1
    /\ pc' = [pc EXCEPT ![p] = "install"]
    /\ UNCHANGED <<home, logarea, memory, boot, buf, wrote>>

\* write_head() with n > 0, "the true point at which the current
\* transaction commits".
write_head(p) ==
    /\ pc[p] = "write_log"
    /\ tail > Len(lh)
    /\ head' = lh
    /\ tail' = 1
    /\ pc' = [pc EXCEPT ![p] = "install"]
    /\ UNCHANGED <<home, logarea, memory, boot, buf, wrote>>

\* Mutant: install_trans() copies the block and does not write it.
install_trans_no_bwrite(p) ==
    /\ pc[p] = "install"
    /\ tail <= Len(lh)
    /\ cache' = [cache EXCEPT ![lh[tail]] = logarea[tail]]
    /\ pins' = [pins EXCEPT ![lh[tail]] = @ - 1]
    /\ tail' = tail + 1
    /\ UNCHANGED <<disk, lh, outstanding, committing, boot, pc, buf, wrote>>

\* One round of install_trans(0): the log block goes home, the pin is
\* dropped.
install_trans(p) ==
    /\ pc[p] = "install"
    /\ tail <= Len(lh)
    /\ home' = [home EXCEPT ![lh[tail]] = logarea[tail]]
    /\ cache' = [cache EXCEPT ![lh[tail]] = logarea[tail]]
    /\ pins' = [pins EXCEPT ![lh[tail]] = @ - 1]
    /\ tail' = tail + 1
    /\ UNCHANGED <<logarea, head, lh, outstanding, committing, boot, pc, buf,
                   wrote>>

\* log.lh.n = 0; write_head().
erase(p) ==
    /\ pc[p] = "install"
    /\ tail > Len(lh)
    /\ lh' = << >>
    /\ head' = << >>
    /\ pc' = [pc EXCEPT ![p] = "finish"]
    /\ UNCHANGED <<home, logarea, cache, pins, outstanding, committing, tail,
                   boot, buf, wrote>>

\* Mutants: no wakeup after a commit; log.committing is never reset.
finish_no_wakeup(p) ==
    /\ pc[p] = "finish"
    /\ committing' = FALSE
    /\ pc' = [pc EXCEPT ![p] = "out"]
    /\ UNCHANGED <<disk, cache, pins, lh, outstanding, tail, boot, buf, wrote>>

finish_no_reset(p) ==
    /\ pc[p] = "finish"
    /\ pc' = WakeupExcept(p, "out")
    /\ UNCHANGED <<disk, memory, tail, boot, buf, wrote>>

\* The end of end_op(): log.committing = 0, wakeup(&log).
finish(p) ==
    /\ pc[p] = "finish"
    /\ committing' = FALSE
    /\ pc' = WakeupExcept(p, "out")
    /\ UNCHANGED <<disk, cache, pins, lh, outstanding, tail, boot, buf, wrote>>

-----------------------------------------------------------------------------
(* The environment: buffer recycling and power.                            *)

\* bget() recycles a buffer nobody references; the next bread() of its
\* block reads the card again.
bget_recycle(b) ==
    /\ pins[b] = 0
    /\ \A p \in Procs : b \notin buf[p]
    /\ cache' = [cache EXCEPT ![b] = home[b]]
    /\ UNCHANGED <<disk, pins, lh, outstanding, committing, tail, boot, pc,
                   buf, wrote>>

\* kkill() makes a sleeping process runnable; begin_op() then looks again.
kkill(p) ==
    /\ pc[p] = "asleep"
    /\ pc' = [pc EXCEPT ![p] = "begin"]
    /\ UNCHANGED <<disk, memory, tail, boot, buf, wrote>>

\* The machine stops and starts again: only the card survives.
Crash ==
    /\ cache' = home
    /\ pins' = [b \in Blocks |-> 0]
    /\ lh' = << >>
    /\ outstanding' = 0
    /\ committing' = FALSE
    /\ tail' = 1
    /\ boot' = "read_head"
    /\ pc' = [p \in Procs |-> "out"]
    /\ buf' = [p \in Procs |-> NoBuf]
    /\ wrote' = [p \in Procs |-> {}]
    /\ UNCHANGED disk

commit(p) ==
    write_log(p) \/ write_head(p) \/ install_trans(p) \/ erase(p) \/ finish(p)

Recovery == read_head \/ install_recovering \/ erase_recovered

Next ==
    \/ Recovery
    \/ \E p \in Procs :
          \/ syscall(p) \/ begin_op(p) \/ end_op(p) \/ commit(p) \/ kkill(p)
          \/ \E b \in Blocks : log_write(p, b) \/ \E d \in Data : modify(p, b, d)
    \/ \E b \in Blocks : bget_recycle(b)
    \/ Crash

Spec == Init /\ [][Next]_vars

\* A process in the kernel keeps running (the scheduler is round robin), a
\* call makes finitely many writes and then ends. Nothing forces a process
\* to make a call, or the power to fail.
Fairness ==
    /\ WF_vars(Recovery)
    /\ \A p \in Procs :
          /\ WF_vars(begin_op(p))
          /\ WF_vars(\E b \in Blocks : log_write(p, b))
          /\ SF_vars(end_op(p))
          /\ WF_vars(commit(p))

FairSpec == Spec /\ Fairness

-----------------------------------------------------------------------------
(* Properties.                                                             *)

\* The contents recovery would give the blocks if the machine stopped now.
Recover(hd, area, blocks) ==
    [b \in Blocks |-> IF b \in Elems(hd)
                      THEN area[CHOOSE i \in DOMAIN hd : hd[i] = b]
                      ELSE blocks[b]]

Recovered == Recover(head, logarea, home)

Visible == IF boot = "up" THEN cache ELSE Recovered

InOp == {p \in Procs : pc[p] = "op"}

A == INSTANCE AtomicDisk
        WITH durable <- Recovered, volatile <- Visible, active <- InOp

\* log.c:10-16, 100-102: a commit never carries part of a call, and a crash
\* at any step of commit() or of recovery itself leaves whole groups of
\* calls.
CrashAtomic == A!ASpec

\* None of the panics of log_write() and end_op() can be reached
\* (log.c:155, 222, 224): the space begin_op() reserves is enough.
NoLogPanic ==
    \A p \in Procs :
        /\ buf[p] # {} => ~TooBig /\ ~OutsideOfTrans
        /\ pc[p] = "op" => ~committing

\* When the process that commits returns from end_op(), all that was
\* written is what a crash would bring back (log.c:145-146, 194-204).
CommitDurable ==
    [][\A p \in Procs :
          pc[p] = "finish" /\ pc'[p] = "out" /\ boot' = "up"
              => Recovered' = cache']_vars

\* bget() may reuse any buffer with refcnt 0 without writing it back
\* (bio.c:73-86); because log_write() pins what it logs, no read can tell.
RecycleInvisible ==
    [][\A b \in Blocks : bget_recycle(b) => cache' = cache]_vars

\* No wakeup of begin_op() is lost: whoever sleeps for log space or for a
\* commit to end tries again (log.c:131-142, 163, 173).
SleeperWakes ==
    \A p \in Procs : pc[p] = "asleep" ~> pc[p] # "asleep"

\* A commit, once started, ends (log.c:167-175).
CommitEnds == committing ~> ~committing
=============================================================================
