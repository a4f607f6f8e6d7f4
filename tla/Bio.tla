-------------------------------- MODULE Bio ---------------------------------
(***************************************************************************)
(* The buffer cache of xv6 (kernel/bio.c). Everything a function does      *)
(* under one hold of bcache.lock is one step; the sleep lock of a buffer   *)
(* is taken, and the card read, in steps of their own. The LRU list is     *)
(* kept as the code keeps it, by the next and prev pointers of the buffers *)
(* and of bcache.head. The callers follow the rule of the log: a process   *)
(* that changed a buffer writes it or has it pinned before it lets go, and *)
(* unpins only what it has just written. A process that holds two buffers  *)
(* at a time counts as two members of Procs.                               *)
(***************************************************************************)
EXTENDS Integers, FiniteSets, FiniteSetsExt

CONSTANTS Procs,    \* processes
          Blocks,   \* block numbers
          Data,     \* contents of a block
          NBUF,     \* size of the cache
          MaxPins,  \* most blocks pinned at a time (LOGBLOCKS)
          None      \* no block, no process

ASSUME BioAssumption ==
    /\ IsFiniteSet(Procs) /\ None \notin Procs \cup Blocks
    /\ NBUF \in Nat \ {0} /\ MaxPins \in Nat

VARIABLES
    disk,          \* the card
    next, prev,    \* b->next, b->prev; 0 is bcache.head
    blockno,       \* b->blockno, None for a buffer never used
    valid,         \* b->valid
    refcnt,        \* b->refcnt
    lock,          \* the process that holds b->lock, or None
    data,          \* b->data
    pc,            \* where each process is
    buf,           \* the buffer it works on, 0 for none
    note,          \* what it did to it: "clean", "changed" or "written"
    pinned         \* blocks pinned by log_write()

list == <<next, prev>>
vars == <<disk, next, prev, blockno, valid, refcnt, lock, data, pc, buf, note,
          pinned>>

Bufs == 1 .. NBUF

TypeOK ==
    /\ disk \in [Blocks -> Data] /\ data \in [Bufs -> Data]
    /\ next \in [0 .. NBUF -> 0 .. NBUF] /\ prev \in [0 .. NBUF -> 0 .. NBUF]
    /\ blockno \in [Bufs -> Blocks \cup {None}]
    /\ valid \in [Bufs -> BOOLEAN]
    /\ refcnt \in [Bufs -> Nat]
    /\ lock \in [Bufs -> Procs \cup {None}]
    /\ pc \in [Procs -> {"out", "lock", "read", "has", "drop"}]
    /\ buf \in [Procs -> 0 .. NBUF]
    /\ note \in [Procs -> {"clean", "changed", "written"}]
    /\ pinned \subseteq Blocks

\* binit() links every buffer in at the head of the list.
Init ==
    /\ disk \in [Blocks -> Data]
    /\ next = [b \in 0 .. NBUF |-> IF b = 0 THEN NBUF ELSE b - 1]
    /\ prev = [b \in 0 .. NBUF |-> IF b = NBUF THEN 0 ELSE b + 1]
    /\ blockno = [b \in Bufs |-> None]
    /\ valid = [b \in Bufs |-> FALSE]
    /\ refcnt = [b \in Bufs |-> 0]
    /\ lock = [b \in Bufs |-> None]
    /\ data \in {[b \in Bufs |-> d] : d \in Data}
    /\ pc = [p \in Procs |-> "out"]
    /\ buf = [p \in Procs |-> 0]
    /\ note = [p \in Procs |-> "clean"]
    /\ pinned = {}

\* The i-th buffer of the list, from the most recently used.
Order == LET nth[i \in 0 .. NBUF] == IF i = 0 THEN 0 ELSE next[nth[i - 1]]
         IN  [i \in Bufs |-> nth[i]]

\* Mutant: the search skips a buffer that is still being read.
Cached_valid(n) == {i \in Bufs : blockno[Order[i]] = n /\ valid[Order[i]]}

\* The positions of the buffers of block n, and of those without references.
Cached(n) == {i \in Bufs : blockno[Order[i]] = n}
Unused == {i \in Bufs : refcnt[Order[i]] = 0}

\* bget() finds the block in the cache, or takes the least recently used
\* buffer nobody refers to; when there is none it panics, and has no step here.
bget_hit(p, n) ==
    /\ pc[p] = "out"
    /\ Cached(n) # {}
    /\ LET b == Order[Min(Cached(n))]
       IN  /\ refcnt' = [refcnt EXCEPT ![b] = @ + 1]
           /\ buf' = [buf EXCEPT ![p] = b]
    /\ pc' = [pc EXCEPT ![p] = "lock"]
    /\ UNCHANGED <<disk, list, blockno, valid, lock, data, note, pinned>>

\* Mutant: the recycled buffer keeps its valid flag.
bget_recycle_valid(p, n) ==
    /\ pc[p] = "out"
    /\ Cached(n) = {} /\ Unused # {}
    /\ LET b == Order[Max(Unused)]
       IN  /\ blockno' = [blockno EXCEPT ![b] = n]
           /\ refcnt' = [refcnt EXCEPT ![b] = 1]
           /\ buf' = [buf EXCEPT ![p] = b]
    /\ pc' = [pc EXCEPT ![p] = "lock"]
    /\ UNCHANGED <<disk, list, valid, lock, data, note, pinned>>

bget_recycle(p, n) ==
    /\ pc[p] = "out"
    /\ Cached(n) = {} /\ Unused # {}
    /\ LET b == Order[Max(Unused)]
       IN  /\ blockno' = [blockno EXCEPT ![b] = n]
           /\ valid' = [valid EXCEPT ![b] = FALSE]
           /\ refcnt' = [refcnt EXCEPT ![b] = 1]
           /\ buf' = [buf EXCEPT ![p] = b]
    /\ pc' = [pc EXCEPT ![p] = "lock"]
    /\ UNCHANGED <<disk, list, lock, data, note, pinned>>

bget(p, n) == bget_hit(p, n) \/ bget_recycle(p, n)

acquiresleep(p) ==
    /\ pc[p] = "lock"
    /\ lock[buf[p]] = None
    /\ lock' = [lock EXCEPT ![buf[p]] = p]
    /\ pc' = [pc EXCEPT ![p] = "read"]
    /\ UNCHANGED <<disk, list, blockno, valid, refcnt, data, buf, note, pinned>>

\* The rest of bread(): fill the buffer from the card unless it is valid.
bread(p) ==
    /\ pc[p] = "read"
    /\ data' = IF valid[buf[p]] THEN data
               ELSE [data EXCEPT ![buf[p]] = disk[blockno[buf[p]]]]
    /\ valid' = [valid EXCEPT ![buf[p]] = TRUE]
    /\ pc' = [pc EXCEPT ![p] = "has"]
    /\ UNCHANGED <<disk, list, blockno, refcnt, lock, buf, note, pinned>>

Change(p, d) ==
    /\ pc[p] = "has"
    /\ data' = [data EXCEPT ![buf[p]] = d]
    /\ note' = [note EXCEPT ![p] = "changed"]
    /\ UNCHANGED <<disk, list, blockno, valid, refcnt, lock, pc, buf, pinned>>

bwrite(p) ==
    /\ pc[p] = "has"
    /\ disk' = [disk EXCEPT ![blockno[buf[p]]] = data[buf[p]]]
    /\ note' = [note EXCEPT ![p] = "written"]
    /\ UNCHANGED <<list, blockno, valid, refcnt, lock, data, pc, buf, pinned>>

\* log_write() of a block that is not in the log yet.
bpin(p) ==
    /\ pc[p] = "has" /\ note[p] = "changed"
    /\ blockno[buf[p]] \notin pinned
    /\ Cardinality(pinned) < MaxPins
    /\ refcnt' = [refcnt EXCEPT ![buf[p]] = @ + 1]
    /\ pinned' = pinned \cup {blockno[buf[p]]}
    /\ UNCHANGED <<disk, list, blockno, valid, lock, data, pc, buf, note>>

\* install_trans() after its bwrite().
bunpin(p) ==
    /\ pc[p] = "has" /\ note[p] = "written"
    /\ blockno[buf[p]] \in pinned
    /\ refcnt' = [refcnt EXCEPT ![buf[p]] = @ - 1]
    /\ pinned' = pinned \ {blockno[buf[p]]}
    /\ UNCHANGED <<disk, list, blockno, valid, lock, data, pc, buf, note>>

\* brelse() gives up the sleep lock, then the reference.
brelse_unlock(p) ==
    /\ pc[p] = "has"
    /\ note[p] = "changed" => blockno[buf[p]] \in pinned
    /\ lock' = [lock EXCEPT ![buf[p]] = None]
    /\ pc' = [pc EXCEPT ![p] = "drop"]
    /\ UNCHANGED <<disk, list, blockno, valid, refcnt, data, buf, note, pinned>>

\* The six pointer assignments that move buffer b to the front.
ToFront(b) ==
    LET p1 == [prev EXCEPT ![next[b]] = prev[b]]
        n1 == [next EXCEPT ![prev[b]] = next[b]]
        n2 == [n1 EXCEPT ![b] = n1[0]]
        p2 == [p1 EXCEPT ![b] = 0]
    IN  /\ prev' = [p2 EXCEPT ![n2[0]] = b]
        /\ next' = [n2 EXCEPT ![0] = b]

brelse_drop(p) ==
    /\ pc[p] = "drop"
    /\ refcnt' = [refcnt EXCEPT ![buf[p]] = @ - 1]
    /\ IF refcnt[buf[p]] = 1 THEN ToFront(buf[p]) ELSE UNCHANGED list
    /\ buf' = [buf EXCEPT ![p] = 0]
    /\ pc' = [pc EXCEPT ![p] = "out"]
    /\ note' = [note EXCEPT ![p] = "clean"]
    /\ UNCHANGED <<disk, blockno, valid, lock, data, pinned>>

Next == \E p \in Procs :
           \/ \E n \in Blocks : bget(p, n)
           \/ acquiresleep(p) \/ bread(p)
           \/ \E d \in Data : Change(p, d)
           \/ bwrite(p) \/ bpin(p) \/ bunpin(p)
           \/ brelse_unlock(p) \/ brelse_drop(p)

Spec == Init /\ [][Next]_vars

-----------------------------------------------------------------------------
\* What a caller sees of block n.
Contents(n) ==
    LET bs == {b \in Bufs : blockno[b] = n /\ valid[b]}
    IN  IF bs = {} THEN disk[n] ELSE data[CHOOSE b \in bs : TRUE]

Holder(n) ==
    LET ps == {p \in Procs : pc[p] = "has" /\ blockno[buf[p]] = n}
    IN  IF ps = {} THEN None ELSE CHOOSE p \in ps : TRUE

S == INSTANCE BlockStore WITH mem <- [n \in Blocks |-> Contents(n)],
                              holder <- [n \in Blocks |-> Holder(n)]

\* The cache implements BlockStore (bio.c:1-15): bread() returns the latest
\* contents to one process at a time, whatever is recycled, written back or
\* pinned in between.
Coherent == S!SSpec

\* A block has at most one buffer (bget(), bio.c:64-87: the search and the
\* recycling happen under one hold of bcache.lock).
OneBuffer == \A b, c \in Bufs : blockno[b] = blockno[c] /\ b # c => blockno[b] = None

\* With as many buffers as processes and pinned blocks, bget() never runs out
\* (bio.c:89): no path through brelse() and bunpin() loses a reference.
NoBgetPanic ==
    Cardinality(Procs) + MaxPins <= NBUF =>
        \A p \in Procs : pc[p] = "out" => Unused # {}

\* The pointer surgery of brelse() (bio.c:126-132) keeps one doubly linked
\* ring through bcache.head and every buffer.
Ring == /\ \A b \in 0 .. NBUF : prev[next[b]] = b /\ next[prev[b]] = b
        /\ {Order[i] : i \in Bufs} = Bufs

\* The cache is sound: one buffer per block, none lost, the ring whole.
Buffers == TypeOK /\ OneBuffer /\ NoBgetPanic /\ Ring
=============================================================================
