------------------------------ MODULE FsBlocks ------------------------------
(***************************************************************************)
(* The contents of files in the xv6 port: block allocation, the block map  *)
(* of an inode, readi(), writei() and itrunc() of kernel/fs.c, the chunks  *)
(* of filewrite() in kernel/file.c, on the image that mkfs/mkfs.c builds.  *)
(*                                                                         *)
(* A step is one transaction under the lock of the inode. `fs` is the file *)
(* system as the buffer cache shows it: the bitmap as the set of blocks in *)
(* use, block contents as sequences (bytes, or block numbers in an         *)
(* indirect block), what a block reverts to when its buffer is recycled,   *)
(* size and addrs[] of every inode, and the distinct blocks that the last  *)
(* transaction passed to log_write().                                      *)
(***************************************************************************)
EXTENDS Integers, Sequences, FiniteSets, FiniteSetsExt, SequencesExt

CONSTANTS
    Procs,
    NBLOCKS,      \* data blocks of the disk, numbered from 1
    BSIZE, NDIRECT, NINDIRECT,
    MAXOPBLOCKS,
    WRAP,         \* 2^32: offsets and lengths wrap here
    HostFile,     \* contents of the host file mkfs copies
    Lens,         \* bound: lengths of a write
    MaxWrites     \* bound: calls of write()

MAXFILE == NDIRECT + NINDIRECT
Blocks == 1 .. NBLOCKS
ROOTINO == 1
Files == 2 .. 3            \* the file mkfs copies, a file made later
Inums == {ROOTINO} \cup Files
BITMAP == NBLOCKS + 1      \* metadata blocks a transaction may log; one
INODE == NBLOCKS + 2       \* bitmap block suffices for FSSIZE blocks

VARIABLES
    fs,      \* see above
    data,    \* ghost: what each file should hold; per byte, the values allowed
    file,    \* the inode and offset of the open file of each process
    job,     \* the bytes that write() has still to write, in each process
    writes   \* bound: calls of write() left

vars == <<fs, data, file, job, writes>>

minimum(a, b) == IF a < b THEN a ELSE b
maximum(a, b) == IF a > b THEN a ELSE b
NoBlock == 0

\* A block has cells for BSIZE bytes and, as an indirect block, for NINDIRECT
\* block numbers.
Zero == [i \in 1 .. maximum(BSIZE, NINDIRECT) |-> 0]

log_write(s, b) ==
    [s EXCEPT !.logged = @ \cup {b}, !.home = IF b \in Blocks THEN [@ EXCEPT ![b] = s.blk[b]] ELSE @]

bzero(s, b) == log_write([s EXCEPT !.blk[b] = Zero], b)

\* The first free block, zeroed; address 0 if there is none.
balloc(s) ==
    LET free == Blocks \ s.bitmap
        b == Min(free)
    IN IF free = {} THEN [s |-> s, addr |-> NoBlock]
       ELSE [s |-> bzero(log_write([s EXCEPT !.bitmap = @ \cup {b}], BITMAP), b),
             addr |-> b]

\* Freeing a free block is a panic: BlocksExact says that none is freed twice.
bfree(s, b) == log_write([s EXCEPT !.bitmap = @ \ {b}], BITMAP)

iupdate(s) == log_write(s, INODE)

\* Entry k of addrs[] (counted from 1), allocated if it is empty.
MapAddr(s, i, k) ==
    LET Enter(a) == [s |-> [a.s EXCEPT !.addrs[i][k] = a.addr], addr |-> a.addr] IN
    IF s.addrs[i][k] # NoBlock THEN [s |-> s, addr |-> s.addrs[i][k]] ELSE Enter(balloc(s))

\* Entry k of the indirect block b, allocated if it is empty.
MapIndirect(s, b, k) ==
    LET Enter(a) == IF a.addr = NoBlock THEN [s |-> s, addr |-> NoBlock]
                    ELSE [s |-> log_write([a.s EXCEPT !.blk[b][k] = a.addr], b),
                          addr |-> a.addr]
    IN IF s.blk[b][k] # NoBlock THEN [s |-> s, addr |-> s.blk[b][k]] ELSE Enter(balloc(s))

bmap(s, i, bn) ==
    LET Through(ind) == IF ind.addr = NoBlock THEN ind
                        ELSE MapIndirect(ind.s, ind.addr, bn - NDIRECT + 1)
    IN IF bn < NDIRECT THEN MapAddr(s, i, bn + 1)
       ELSE Through(MapAddr(s, i, NDIRECT + 1))

\* How many of n bytes at offset o lie in the block of o.
InBlock(n, o) == minimum(n, BSIZE - (o % BSIZE))

RECURSIVE ReadLoop(_, _, _, _)
ReadLoop(s, i, o, n) ==
    LET k == InBlock(n, o)
        Copied(m, rest) ==
            [s |-> rest.s,
             got |-> SubSeq(m.s.blk[m.addr], (o % BSIZE) + 1, (o % BSIZE) + k) \o rest.got]
        From(m) == IF m.addr = NoBlock THEN [s |-> m.s, got |-> << >>]
                   ELSE Copied(m, ReadLoop(m.s, i, o + k, n - k))
    IN IF n = 0 THEN [s |-> s, got |-> << >>] ELSE From(bmap(s, i, o \div BSIZE))

readi(s, i, o, n) ==
    IF o > s.size[i] \/ (o + n) % WRAP < o THEN [s |-> s, got |-> << >>]
    ELSE ReadLoop(s, i, o, IF o + n > s.size[i] THEN s.size[i] - o ELSE n)

Overwrite(b, at, bytes) ==
    [j \in DOMAIN b |-> IF j > at /\ j <= at + Len(bytes) THEN bytes[j - at] ELSE b[j]]

\* `bad` is <<c, t>>: either_copyin() fails in the c-th block written (never,
\* when c is 0), after it has changed t bytes of the buffer.
RECURSIVE WriteLoop(_, _, _, _, _)
WriteLoop(s, i, o, bytes, bad) ==
    LET k == InBlock(Len(bytes), o)
        torn == minimum(bad[2], k - 1)
        Copied(m, n) == [m.s EXCEPT !.blk[m.addr] = Overwrite(@, o % BSIZE, SubSeq(bytes, 1, n))]
        To(m) ==
            IF m.addr = NoBlock THEN [s |-> m.s, off |-> o, torn |-> 0]
            ELSE IF bad[1] = 1 THEN [s |-> Copied(m, torn), off |-> o, torn |-> torn]
            ELSE WriteLoop(log_write(Copied(m, k), m.addr), i, o + k,
                           SubSeq(bytes, k + 1, Len(bytes)), <<bad[1] - 1, bad[2]>>)
    IN IF bytes = << >> THEN [s |-> s, off |-> o, torn |-> 0]
       ELSE To(bmap(s, i, o \div BSIZE))

\* Mutant: the size is set to where the write ends.
writei_shrinks(s, i, o, bytes, bad) ==
    LET Done(w) == [s |-> iupdate([w.s EXCEPT !.size[i] = w.off]),
                    r |-> w.off - o, torn |-> w.torn] IN
    IF o > s.size[i] \/ (o + Len(bytes)) % WRAP < o \/ o + Len(bytes) > MAXFILE * BSIZE
    THEN [s |-> s, r |-> -1, torn |-> 0]
    ELSE Done(WriteLoop(s, i, o, bytes, bad))

\* The result r is the number of bytes written, or -1.
writei(s, i, o, bytes, bad) ==
    LET Done(w) == [s |-> iupdate([w.s EXCEPT !.size[i] = maximum(@, w.off)]),
                    r |-> w.off - o, torn |-> w.torn] IN
    IF o > s.size[i] \/ (o + Len(bytes)) % WRAP < o \/ o + Len(bytes) > MAXFILE * BSIZE
    THEN [s |-> s, r |-> -1, torn |-> 0]
    ELSE Done(WriteLoop(s, i, o, bytes, bad))

FreeAll(s, addrs) ==
    FoldLeft(LAMBDA t, b : IF b = NoBlock THEN t ELSE bfree(t, b), s, addrs)

\* Mutant: the indirect block is not freed.
itrunc_direct(s, i) ==
    LET direct == FreeAll(s, SubSeq(s.addrs[i], 1, NDIRECT))
        ind == s.addrs[i][NDIRECT + 1]
        all == IF ind = NoBlock THEN direct ELSE FreeAll(direct, s.blk[ind])
    IN iupdate([all EXCEPT !.addrs[i] = [k \in DOMAIN @ |-> NoBlock], !.size[i] = 0])

itrunc(s, i) ==
    LET direct == FreeAll(s, SubSeq(s.addrs[i], 1, NDIRECT))
        ind == s.addrs[i][NDIRECT + 1]
        all == IF ind = NoBlock THEN direct ELSE bfree(FreeAll(direct, s.blk[ind]), ind)
    IN iupdate([all EXCEPT !.addrs[i] = [k \in DOMAIN @ |-> NoBlock], !.size[i] = 0])

-----------------------------------------------------------------------------
(* The image mkfs builds. Its allocator is the counter freeblock.          *)

EmptyImage ==
    [bitmap |-> {}, blk |-> [b \in Blocks |-> Zero], home |-> [b \in Blocks |-> Zero],
     size |-> [i \in Inums |-> 0], logged |-> {}, freeblock |-> 1,
     addrs |-> [i \in Inums |-> [k \in 1 .. NDIRECT + 1 |-> NoBlock]]]

wsect(m, b, content) == [m EXCEPT !.blk[b] = content, !.home[b] = content]

\* Entry k of addrs[] of inode i in image m.
iappend_addr(m, i, k) ==
    IF m.addrs[i][k] # NoBlock THEN m
    ELSE [m EXCEPT !.addrs[i][k] = m.freeblock, !.freeblock = @ + 1]

RECURSIVE iappend(_, _, _)
iappend(m, i, bytes) ==
    LET off == m.size[i]
        fbn == off \div BSIZE
        direct == iappend_addr(m, i, fbn + 1)
        ind == iappend_addr(m, i, NDIRECT + 1)
        ib == ind.addrs[i][NDIRECT + 1]
        k == fbn - NDIRECT + 1
        Indirect == IF ind.blk[ib][k] # NoBlock THEN ind
                    ELSE wsect([ind EXCEPT !.freeblock = @ + 1], ib,
                               [ind.blk[ib] EXCEPT ![k] = ind.freeblock])
        n1 == InBlock(Len(bytes), off)
        Filled(mapped, x) ==
            [wsect(mapped, x, Overwrite(mapped.blk[x], off % BSIZE, SubSeq(bytes, 1, n1)))
                EXCEPT !.size[i] = off + n1]
        Mapped(mapped) ==
            Filled(mapped, IF fbn < NDIRECT THEN mapped.addrs[i][fbn + 1] ELSE mapped.blk[ib][k])
    IN IF bytes = << >> THEN m
       ELSE iappend(Mapped(IF fbn < NDIRECT THEN direct ELSE Indirect),
                    i, SubSeq(bytes, n1 + 1, Len(bytes)))

\* mkfs's own balloc(): all that the counter has passed is in use.
mkfs_balloc(m) == [m EXCEPT !.bitmap = 1 .. m.freeblock - 1]

\* A directory entry is one byte here; the root names itself twice and the file.
mkfs ==
    LET dots == iappend(iappend(EmptyImage, ROOTINO, <<1>>), ROOTINO, <<1>>)
        named == iappend(dots, ROOTINO, <<2>>)
        copied == iappend(named, 2, HostFile)
        fixed == [copied EXCEPT !.size[ROOTINO] = ((@ \div BSIZE) + 1) * BSIZE]
    IN mkfs_balloc(fixed)

-----------------------------------------------------------------------------
(* The calls of the processes.                                             *)

\* The byte values of a write are told apart by the call and by the position.
Payload(n) == [j \in 1 .. n |-> 10 * writes + j]

Singletons(bytes) == [j \in DOMAIN bytes |-> {bytes[j]}]

Init ==
    /\ fs = mkfs
    /\ data = [i \in Inums |-> Singletons(IF i = ROOTINO THEN <<1, 1, 2, 0>>
                                          ELSE IF i = 2 THEN HostFile ELSE << >>)]
    /\ file = [p \in Procs |-> [ip |-> 2, off |-> 0]]
    /\ job = [p \in Procs |-> << >>]
    /\ writes = MaxWrites

\* begin_op(): a transaction has logged nothing.
Fresh == [fs EXCEPT !.logged = {}]

sys_open(p, i) ==
    /\ job[p] = << >>
    /\ file' = [file EXCEPT ![p] = [ip |-> i, off |-> 0]]
    /\ UNCHANGED <<fs, data, job, writes>>

\* open() with O_TRUNC.
sys_open_trunc(p, i) ==
    /\ job[p] = << >>
    /\ file' = [file EXCEPT ![p] = [ip |-> i, off |-> 0]]
    /\ fs' = itrunc(Fresh, i)
    /\ data' = [data EXCEPT ![i] = << >>]
    /\ UNCHANGED <<job, writes>>

fileread(p, n) ==
    /\ job[p] = << >>
    /\ \E r \in {readi(fs, file[p].ip, file[p].off, n)} :
         /\ fs' = r.s
         /\ file' = [file EXCEPT ![p].off = @ + Len(r.got)]
    /\ UNCHANGED <<data, job, writes>>

sys_write(p, n) ==
    /\ job[p] = << >>
    /\ writes > 0
    /\ writes' = writes - 1
    /\ job' = [job EXCEPT ![p] = Payload(n)]
    /\ UNCHANGED <<fs, data, file>>

\* The bytes a transaction of filewrite() takes.
max == ((MAXOPBLOCKS - 1 - 1 - 2) \div 2) * BSIZE

\* What file i may hold after r bytes of `bytes` are written at o, and t more
\* have reached a buffer.
Expected(i, o, bytes, r, t) ==
    [j \in 1 .. maximum(Len(data[i]), o + r) |->
        IF j <= o THEN data[i][j]
        ELSE IF j <= o + r THEN {bytes[j - o]}
        ELSE data[i][j] \cup (IF j <= o + r + t THEN {bytes[j - o]} ELSE {})]

\* One turn of the loop of filewrite().
filewrite(p, bad) ==
    LET i == file[p].ip
        o == file[p].off
        n1 == minimum(Len(job[p]), max)
        bytes == SubSeq(job[p], 1, n1)
    IN /\ job[p] # << >>
       /\ \E w \in {writei(Fresh, i, o, bytes, bad)} :
            /\ fs' = w.s
            /\ file' = [file EXCEPT ![p].off = @ + maximum(w.r, 0)]
            /\ data' = [data EXCEPT ![i] = IF w.r < 0 THEN @
                                           ELSE Expected(i, o, bytes, w.r, w.torn)]
            /\ job' = [job EXCEPT ![p] = IF w.r = n1 THEN SubSeq(@, n1 + 1, Len(@)) ELSE << >>]
       /\ UNCHANGED writes

\* bget() recycles the buffer of block b, which nothing has pinned.
Recycle(b) ==
    /\ fs.blk[b] # fs.home[b]
    /\ fs' = [fs EXCEPT !.blk[b] = fs.home[b]]
    /\ UNCHANGED <<data, file, job, writes>>

Bads == {<<0, 0>>, <<1, 0>>, <<1, 1>>, <<2, 0>>}
Counts == {1, WRAP - 1}

Next ==
    \/ \E p \in Procs, i \in Files : sys_open(p, i) \/ sys_open_trunc(p, i)
    \/ \E p \in Procs, n \in Counts : fileread(p, n)
    \/ \E p \in Procs, n \in Lens : sys_write(p, n)
    \/ \E p \in Procs, bad \in Bads : filewrite(p, bad)
    \/ \E b \in Blocks : Recycle(b)

Spec == Init /\ [][Next]_vars

-----------------------------------------------------------------------------
(* Properties.                                                             *)

\* Reading a file from the start returns its `size` bytes, each with a value
\* that was written there, and allocates nothing: fileread() runs outside a
\* transaction, where an allocation panics in log_write(). Only a byte of a
\* write() that failed in either_copyin() may have its old or its new value.
Contents ==
    \A i \in Inums :
      \E r \in {readi(fs, i, 0, fs.size[i])} :
        /\ r.s = fs
        /\ Len(r.got) = fs.size[i]
        /\ Len(data[i]) = fs.size[i]
        /\ \A j \in DOMAIN r.got : r.got[j] \in data[i][j]

Entries(i) ==
    LET ind == fs.addrs[i][NDIRECT + 1] IN
    SelectSeq(fs.addrs[i] \o (IF ind = NoBlock THEN << >> ELSE fs.blk[ind]),
              LAMBDA b : b # NoBlock)

\* The bitmap marks exactly the blocks that inodes reach, and each is reached
\* once: no block is in two files, none is leaked when balloc() or a copy
\* fails half way, and itrunc() never frees a free block.
BlocksOnce ==
    LET all == Entries(1) \o Entries(2) \o Entries(3) IN
    /\ fs.bitmap = ToSet(all)
    /\ Len(all) = Cardinality(fs.bitmap)

\* No transaction of filewrite() or itrunc() logs more distinct blocks than
\* the MAXOPBLOCKS that begin_op() reserves for it.
OpFits == Cardinality(fs.logged) <= MAXOPBLOCKS

\* Blocks are accounted for, on the disk and in the log.
BlocksExact == BlocksOnce /\ OpFits
=============================================================================
