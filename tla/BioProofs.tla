----------------------------- MODULE BioProofs ------------------------------
(***************************************************************************)
(* Proofs about Bio for every number of processes, blocks and buffers: the *)
(* cache keeps one buffer per block, loses none and keeps its list whole,  *)
(* and what callers see of it is a store of blocks (BlockStore).           *)
(***************************************************************************)
EXTENDS BioStepProofs

(* Pins and brelse() keep the invariant.                                   *)

\* bpin() adds a reference for the log (bio.c:140-145).
LEMMA PinStep == ASSUME IInv, NEW p \in Procs, bpin(p) PROVE IInv'
<1> DEFINE b == buf[p]
           n == blockno[b]
<1>1. b \in Bufs /\ n \in Blocks /\ pc[p] = "has" /\ n # None
    BY Working, BioAssumption DEF bpin
<1>2. /\ n \notin pinned /\ Cardinality(pinned) < MaxPins
      /\ refcnt' = [refcnt EXCEPT ![b] = @ + 1] /\ pinned' = pinned \cup {n}
      /\ UNCHANGED <<disk, next, prev, blockno, valid, lock, data, pc, buf, note>>
    BY DEF bpin, list
<1>3. \A c \in Bufs : c # b => blockno[c] # n
    BY <1>1 DEF IInv, OneBuffer
<1>4. TypeOK'
    BY <1>1, <1>2, SMTT(30) DEF IInv, TypeOK
<1>5. OneBuffer' /\ RingInv' /\ HoldInv'
    BY <1>2 DEF IInv, OneBuffer, RingInv, HoldInv
<1>6. RefInv'
    BY <1>1, <1>2, <1>3, UsesFinite DEF IInv, TypeOK, RefInv
<1>7. PinInv'
    <2>1. IsFiniteSet(pinned) /\ Cardinality(pinned) \in Nat
        BY FS_CardinalityType DEF IInv, PinInv
    <2>2. IsFiniteSet(pinned') /\ Cardinality(pinned') = Cardinality(pinned) + 1
        BY <1>2, <2>1, FS_AddElement, Zenon
    <2>3. \A m \in pinned' : \E c \in Bufs : blockno[c] = m
        BY <1>1, <1>2, Zenon DEF IInv, PinInv
    <2>4. QED
        BY <1>2, <2>1, <2>2, <2>3, BioAssumption DEF PinInv
<1>8. DataInv'
    BY <1>2, ZenonT(30) DEF IInv, DataInv
<1>9. QED
    BY <1>4, <1>5, <1>6, <1>7, <1>8, Zenon DEF IInv

\* bunpin() takes it back once the block is written (bio.c:147-152).
LEMMA UnpinStep == ASSUME IInv, NEW p \in Procs, bunpin(p) PROVE IInv'
<1> DEFINE b == buf[p]
           n == blockno[b]
<1>1. /\ b \in Bufs /\ n \in Blocks /\ n # None
      /\ pc[p] = "has" /\ note[p] = "written" /\ data[b] = disk[n]
    BY Working, BioAssumption DEF bunpin, IInv, HoldInv
<1>2. /\ n \in pinned
      /\ refcnt' = [refcnt EXCEPT ![b] = @ - 1] /\ pinned' = pinned \ {n}
      /\ UNCHANGED <<disk, next, prev, blockno, valid, lock, data, pc, buf, note>>
    BY DEF bunpin, list
<1>3. \A c \in Bufs : c # b => blockno[c] # n
    BY <1>1, Zenon DEF IInv, OneBuffer
<1>4. \A c \in Bufs : refcnt'[c] = Cardinality(Uses(buf, c))
                                   + IF blockno[c] \in pinned' THEN 1 ELSE 0
    BY <1>1, <1>2, <1>3, UsesFinite DEF IInv, TypeOK, RefInv
<1>5. TypeOK'
    <2>1. \A c \in Bufs : refcnt'[c] \in Nat
        BY <1>4, UsesFinite
    <2>2. refcnt' \in [Bufs -> Nat]
        BY <1>2, <2>1, Zenon DEF IInv, TypeOK
    <2>3. QED
        BY <1>2, <2>2, Zenon DEF IInv, TypeOK
<1>6. OneBuffer' /\ RingInv' /\ HoldInv'
    BY <1>2 DEF IInv, OneBuffer, RingInv, HoldInv
<1>7. RefInv'
    BY <1>2, <1>4, Zenon DEF RefInv
<1>8. PinInv'
    <2>1. IsFiniteSet(pinned) /\ Cardinality(pinned) \in Nat
        BY FS_CardinalityType DEF IInv, PinInv
    <2>2. IsFiniteSet(pinned') /\ Cardinality(pinned') = Cardinality(pinned) - 1
        BY <1>2, <2>1, FS_RemoveElement, Zenon
    <2>3. QED
        BY <1>2, <2>1, <2>2, BioAssumption DEF IInv, PinInv
<1>9. DataInv'
    BY <1>1, <1>2, <1>3, SMTT(30) DEF IInv, DataInv
<1>10. QED
    BY <1>5, <1>6, <1>7, <1>8, <1>9 DEF IInv

\* brelse() gives up the sleep lock of a buffer that is written or pinned (bio.c:123).
LEMMA UnlockStep == ASSUME IInv, NEW p \in Procs, brelse_unlock(p) PROVE IInv'
<1> DEFINE b == buf[p]
<1>1. /\ b \in Bufs /\ pc[p] = "has" /\ lock[b] = p /\ None \notin Procs
      /\ note[p] = "changed" => blockno[b] \in pinned
    BY Working, BioAssumption, Zenon DEF brelse_unlock, IInv, HoldInv
<1>2. /\ lock' = [lock EXCEPT ![b] = None] /\ pc' = [pc EXCEPT ![p] = "drop"]
      /\ UNCHANGED <<disk, next, prev, blockno, valid, refcnt, data, buf, note, pinned>>
    BY DEF brelse_unlock, list
<1>3. TypeOK'
    BY <1>1, <1>2, Zenon DEF IInv, TypeOK
<1>4. OneBuffer' /\ RingInv' /\ PinInv' /\ RefInv'
    BY <1>2, Zenon DEF IInv, OneBuffer, RingInv, PinInv, RefInv
<1>5. HoldInv'
    BY <1>1, <1>2 DEF IInv, TypeOK, HoldInv
<1>6. DataInv'
    BY <1>1, <1>2 DEF IInv, TypeOK, DataInv
<1>7. QED
    BY <1>3, <1>4, <1>5, <1>6, Zenon DEF IInv

\* brelse() drops the reference and moves an unused buffer to the front (bio.c:125-137).
LEMMA DropStep == ASSUME IInv, NEW p \in Procs, brelse_drop(p) PROVE IInv'
<1> DEFINE b == buf[p]
<1>1. b \in Bufs /\ b # 0 /\ pc[p] = "drop" /\ Cardinality(Uses(buf, b)) \in Nat \ {0}
    BY Working DEF brelse_drop, Bufs
<1>2. /\ refcnt' = [refcnt EXCEPT ![b] = @ - 1] /\ buf' = [buf EXCEPT ![p] = 0]
      /\ pc' = [pc EXCEPT ![p] = "out"] /\ note' = [note EXCEPT ![p] = "clean"]
      /\ UNCHANGED <<disk, blockno, valid, lock, data, pinned>>
    BY DEF brelse_drop
<1>3. /\ RingInv'
      /\ next' \in [0 .. NBUF -> 0 .. NBUF] /\ prev' \in [0 .. NBUF -> 0 .. NBUF]
    <2>1. CASE refcnt[b] = 1
        BY <1>1, <2>1, Moved, Zenon DEF brelse_drop, IInv
    <2>2. CASE refcnt[b] # 1
        BY <2>2, Zenon DEF brelse_drop, list, IInv, RingInv, TypeOK
    <2>3. QED
        BY <2>1, <2>2, Zenon
<1>4. /\ Cardinality(Uses(buf', b)) = Cardinality(Uses(buf, b)) - 1
      /\ \A c \in Bufs : c # b => Uses(buf', c) = Uses(buf, c)
    <2>1. buf'[p] = 0 /\ \A q \in Procs \ {p} : buf'[q] = buf[q]
        BY <1>2 DEF IInv, TypeOK
    <2>2. \A c \in Bufs : c # 0
        BY Numbers
    <2>3. /\ Cardinality(Uses(buf', buf[p])) = Cardinality(Uses(buf, buf[p])) - 1
          /\ \A d : d # buf'[p] /\ d # buf[p] => Uses(buf', d) = Uses(buf, d)
        <3>1. buf'[p] # buf[p]
            BY <1>1, <2>1
        <3>2. QED
            BY <2>1, <3>1, UsesMoved, Zenon
    <2>4. QED
        BY <2>1, <2>2, <2>3, Zenon
<1>5. \A c \in Bufs : refcnt'[c] = Cardinality(Uses(buf', c))
                                   + IF blockno[c] \in pinned THEN 1 ELSE 0
    <2> SUFFICES ASSUME NEW c \in Bufs
                 PROVE  refcnt'[c] = Cardinality(Uses(buf', c))
                                     + IF blockno[c] \in pinned THEN 1 ELSE 0
        OBVIOUS
    <2>1. refcnt[c] = Cardinality(Uses(buf, c)) + IF blockno[c] \in pinned THEN 1 ELSE 0
        BY Zenon DEF IInv, RefInv
    <2>2. refcnt'[c] = IF c = b THEN refcnt[c] - 1 ELSE refcnt[c]
        BY <1>2, Zenon DEF IInv, TypeOK
    <2>3. CASE c = b
        BY <1>1, <1>4, <2>1, <2>2, <2>3
    <2>4. CASE c # b
        BY <1>4, <2>1, <2>2, <2>4, Zenon
    <2>5. QED
        BY <2>3, <2>4, Zenon
<1>6. TypeOK'
    <2>1. \A c \in Bufs : refcnt'[c] \in Nat
        BY <1>5, UsesFinite
    <2>2. refcnt' \in [Bufs -> Nat]
        BY <1>2, <2>1, Zenon DEF IInv, TypeOK
    <2>3. buf' \in [Procs -> 0 .. NBUF]
        BY <1>2, Numbers, Zenon DEF IInv, TypeOK
    <2>4. QED
        BY <1>2, <1>3, <2>2, <2>3, Zenon DEF IInv, TypeOK
<1>7. OneBuffer' /\ PinInv' /\ RefInv'
    BY <1>2, <1>5, Zenon DEF IInv, OneBuffer, PinInv, RefInv
<1>8. HoldInv'
    BY <1>1, <1>2 DEF IInv, TypeOK, HoldInv, Bufs
<1>9. DataInv'
    BY <1>1, <1>2 DEF IInv, TypeOK, DataInv
<1>10. QED
    BY <1>3, <1>6, <1>7, <1>8, <1>9, Zenon DEF IInv

\* Every step keeps the invariant.
LEMMA NextIInv == IInv /\ [Next]_vars => IInv'
<1> SUFFICES ASSUME IInv, [Next]_vars PROVE IInv'
    OBVIOUS
<1>1. CASE UNCHANGED vars
    <2>1. UNCHANGED <<disk, next, prev, blockno, valid, refcnt, lock, data, pc, buf, note, pinned>>
        BY <1>1, Zenon DEF vars
    <2>2. TypeOK' /\ OneBuffer' /\ RingInv'
        BY <2>1, Zenon DEF IInv, TypeOK, OneBuffer, RingInv
    <2>3. RefInv' /\ PinInv'
        BY <2>1, Zenon DEF IInv, RefInv, PinInv
    <2>4. HoldInv' /\ DataInv'
        BY <2>1 DEF IInv, HoldInv, DataInv
    <2>5. QED
        BY <2>2, <2>3, <2>4, Zenon DEF IInv
<1>2. CASE Next
    BY <1>2, HitStep, RecycleStep, LockStep, ReadStep, ChangeStep, WriteStep, PinStep,
       UnpinStep, UnlockStep, DropStep, Zenon DEF Next, bget
<1>3. QED
    BY <1>1, <1>2, Zenon

\* The invariant holds in every reachable state of the cache (bio.c:37-152): the
\* pointers form one list of all buffers, refcnt counts users and pins, the holder
\* of a sleep lock is the process that has the buffer, and what is neither on the
\* card nor being changed is pinned.
THEOREM BioInvariant == Spec => []IInv
BY InitIInv, NextIInv, PTL DEF Spec

-----------------------------------------------------------------------------
(* The cache is sound.                                                     *)

\* Next and prev undo each other and lead through every buffer (bio.c:127-135).
LEMMA RingHolds == IInv => Ring
<1> SUFFICES ASSUME IInv PROVE Ring
    OBVIOUS
<1>1. PICK o : Linked(o, next, prev) /\ Order = o
    BY OrderIs, Zenon DEF IInv, RingInv
<1>2. \A b \in 0 .. NBUF : prev[next[b]] = b /\ next[prev[b]] = b
    <2> SUFFICES ASSUME NEW b \in 0 .. NBUF
                 PROVE  prev[next[b]] = b /\ next[prev[b]] = b
        OBVIOUS
    <2>1. CASE b = 0
        <3>1. next[0] = o[1] /\ prev[0] = o[NBUF]
            BY <1>1, Zenon DEF Linked
        <3>2. prev[o[1]] = 0 /\ next[o[NBUF]] = 0
            BY <1>1, Numbers, Zenon DEF Linked
        <3>3. QED
            BY <2>1, <3>1, <3>2, Zenon
    <2>2. CASE b # 0
        <3>1. PICK i \in Bufs : o[i] = b
            BY <1>1, <2>2, Numbers, Zenon DEF Linked
        <3>2. prev[next[b]] = b
            <4>1. CASE i = NBUF
                BY <1>1, <3>1, <4>1, Zenon DEF Linked
            <4>2. CASE i # NBUF
                <5>1. next[b] = o[i + 1] /\ i + 1 \in Bufs /\ i + 1 # 1 /\ (i + 1) - 1 = i
                    BY <1>1, <3>1, <4>2, Numbers, SMTT(30) DEF Linked
                <5>2. prev[o[i + 1]] = o[(i + 1) - 1]
                    BY <1>1, <5>1 DEF Linked
                <5>3. QED
                    BY <3>1, <5>1, <5>2, Zenon
            <4>3. QED
                BY <4>1, <4>2, Zenon
        <3>3. next[prev[b]] = b
            <4>1. CASE i = 1
                BY <1>1, <3>1, <4>1, Zenon DEF Linked
            <4>2. CASE i # 1
                <5>1. prev[b] = o[i - 1] /\ i - 1 \in Bufs
                    BY <1>1, <3>1, <4>2, Numbers, Zenon DEF Linked
                <5>2. i - 1 # NBUF /\ (i - 1) + 1 = i
                    BY Numbers
                <5>3. next[o[i - 1]] = o[(i - 1) + 1]
                    BY <1>1, <5>1, <5>2, Zenon DEF Linked
                <5>4. QED
                    BY <3>1, <5>1, <5>2, <5>3, Zenon
            <4>3. QED
                BY <4>1, <4>2, Zenon
        <3>4. QED
            BY <3>2, <3>3
    <2>3. QED
        BY <2>1, <2>2, Zenon
<1>3. {Order[i] : i \in Bufs} = Bufs
    BY <1>1 DEF Linked
<1>4. QED
    BY <1>2, <1>3, Zenon DEF Ring

\* Were every buffer referred to, each would have a user, of which the process
\* that calls is none, or a pinned block of its own.
LEMMA NoPanicHolds == IInv => NoBgetPanic
<1> SUFFICES ASSUME IInv, Cardinality(Procs) + MaxPins <= NBUF,
                    NEW p \in Procs, pc[p] = "out", Unused = {}
             PROVE  FALSE
    BY Zenon DEF NoBgetPanic
<1> DEFINE Others == Procs \ {p}
           Used == {b \in Bufs : \E q \in Others : buf[q] = b}
           Pinned == {b \in Bufs : blockno[b] \in pinned}
<1>1. \A b \in Bufs : refcnt[b] # 0
    <2>1. PICK o : Linked(o, next, prev) /\ Order = o
        BY OrderIs, Zenon DEF IInv, RingInv
    <2>2. QED
        BY <2>1 DEF Unused, Linked
<1>2. Bufs = Used \cup Pinned
    <2> SUFFICES ASSUME NEW b \in Bufs, b \notin Pinned PROVE b \in Used
        BY Zenon
    <2>1. Uses(buf, b) # {}
        BY <1>1, UsesFinite DEF IInv, RefInv
    <2>2. PICK q \in Procs : buf[q] = b
        BY <2>1, Zenon DEF Uses
    <2>3. q # p
        BY <2>2 DEF IInv, HoldInv, Bufs
    <2>4. QED
        BY <2>2, <2>3, Zenon
<1>3. /\ IsFiniteSet(Others) /\ Cardinality(Others) = Cardinality(Procs) - 1
      /\ Cardinality(Procs) \in Nat
    BY BioAssumption, FS_RemoveElement, FS_CardinalityType, Zenon
<1>4. IsFiniteSet(Bufs) /\ Cardinality(Bufs) = NBUF
    BY BioAssumption, FS_Interval DEF Bufs
<1>5. IsFiniteSet(Used) /\ Cardinality(Used) <= Cardinality(Others)
    <2> DEFINE W == {q \in Others : buf[q] \in Bufs}
               f == [q \in W |-> buf[q]]
    <2>1. f \in Surjection(W, Used)
        BY Zenon DEF Surjection
    <2>2. IsFiniteSet(W) /\ Cardinality(W) <= Cardinality(Others)
        BY <1>3, FS_Subset, Zenon
    <2>3. IsFiniteSet(Used) /\ Cardinality(Used) <= Cardinality(W)
        BY <2>1, <2>2, FS_Surjection
    <2>4. QED
        BY <1>3, <2>2, <2>3, FS_CardinalityType
<1>6. IsFiniteSet(Pinned) /\ Cardinality(Pinned) <= Cardinality(pinned)
    <2> DEFINE f == [b \in Pinned |-> blockno[b]]
    <2>1. \A b, c \in Pinned : f[b] = f[c] => b = c
        BY BioAssumption, Zenon DEF IInv, OneBuffer, TypeOK
    <2>2. f \in Injection(Pinned, pinned)
        BY <2>1, Zenon DEF Injection, IsInjective
    <2>3. QED
        BY <2>2, FS_Injection, Zenon DEF IInv, PinInv
<1>7. Cardinality(Used \cup Pinned) <= Cardinality(Used) + Cardinality(Pinned)
    <2>1. Cardinality(Used \cup Pinned)
          = Cardinality(Used) + Cardinality(Pinned) - Cardinality(Used \cap Pinned)
        BY <1>5, <1>6, FS_Union
    <2>2. IsFiniteSet(Used \cap Pinned)
        BY <1>5, FS_Intersection, Zenon
    <2>3. /\ Cardinality(Used) \in Nat /\ Cardinality(Pinned) \in Nat
          /\ Cardinality(Used \cap Pinned) \in Nat
        BY <1>5, <1>6, <2>2, FS_CardinalityType, Zenon
    <2>4. QED
        BY <2>1, <2>3
<1>8. /\ Cardinality(Used) \in Nat /\ Cardinality(Pinned) \in Nat /\ Cardinality(pinned) \in Nat
      /\ Cardinality(pinned) <= MaxPins
    BY <1>5, <1>6, FS_CardinalityType DEF IInv, PinInv
<1> HIDE DEF Others, Used, Pinned
<1>9. QED
    BY <1>2, <1>3, <1>4, <1>5, <1>6, <1>7, <1>8, BioAssumption

\* The cache is sound (bio.c:64-89, 126-132): a block has at most one buffer,
\* bget() does not run out of buffers, and brelse() keeps the list whole.
THEOREM BuffersHolds == Spec => []Buffers
<1>1. IInv => Buffers
    BY RingHolds, NoPanicHolds DEF IInv, Buffers
<1>2. QED
    BY <1>1, BioInvariant, PTL

-----------------------------------------------------------------------------
(* The cache implements the store of blocks.                               *)

\* The valid buffers of block n, and the processes that have it.
Valid(n) == {b \in Bufs : blockno[b] = n /\ valid[b]}
Has(n) == {p \in Procs : pc[p] = "has" /\ blockno[buf[p]] = n}

\* What a caller sees of a block depends only on these and on what they hold.
LEMMA Seen ==
    ASSUME NEW n \in Blocks
    PROVE  /\ Valid(n) = {} => Contents(n) = disk[n]
           /\ Valid(n)' = {} => Contents(n)' = disk'[n]
           /\ \A b : Valid(n) = {b} => Contents(n) = data[b]
           /\ \A b : Valid(n)' = {b} => Contents(n)' = data'[b]
           /\ Valid(n)' = Valid(n) /\ disk'[n] = disk[n]
                /\ (\A b \in Valid(n) : data'[b] = data[b]) => Contents(n)' = Contents(n)
<1>1. /\ Contents(n) = IF Valid(n) = {} THEN disk[n] ELSE data[CHOOSE b \in Valid(n) : TRUE]
      /\ Contents(n)' = IF Valid(n)' = {} THEN disk'[n]
                        ELSE data'[CHOOSE b \in Valid(n)' : TRUE]
    BY DEF Contents, Valid
<1>2. \A b : (CHOOSE c \in {b} : TRUE) = b
    OBVIOUS
<1>3. Valid(n) # {} => (CHOOSE b \in Valid(n) : TRUE) \in Valid(n)
    OBVIOUS
<1> HIDE DEF Valid
<1>4. QED
    BY <1>1, <1>2, <1>3, Zenon

\* Who has a block depends only on Has(n).
LEMMA Held ==
    ASSUME NEW n \in Blocks
    PROVE  /\ Has(n) = {} => Holder(n) = None
           /\ Has(n)' = {} => Holder(n)' = None
           /\ \A p : Has(n) = {p} => Holder(n) = p
           /\ \A p : Has(n)' = {p} => Holder(n)' = p
           /\ Has(n)' = Has(n) => Holder(n)' = Holder(n)
<1>1. /\ Holder(n) = IF Has(n) = {} THEN None ELSE CHOOSE p \in Has(n) : TRUE
      /\ Holder(n)' = IF Has(n)' = {} THEN None ELSE CHOOSE p \in Has(n)' : TRUE
    BY Zenon DEF Holder, Has
<1>2. \A p : (CHOOSE q \in {p} : TRUE) = p
    OBVIOUS
<1> HIDE DEF Has
<1>3. QED
    <2>1. Has(n) = {} => Holder(n) = None
        BY <1>1
    <2>2. Has(n)' = {} => Holder(n)' = None
        BY <1>1
    <2>3. ASSUME NEW p, Has(n) = {p} PROVE Holder(n) = p
        BY <1>1, <1>2, <2>3, Zenon
    <2>4. ASSUME NEW p, Has(n)' = {p} PROVE Holder(n)' = p
        BY <1>1, <1>2, <2>4, Zenon
    <2>5. Has(n)' = Has(n) => Holder(n)' = Holder(n)
        BY <1>1
    <2>6. QED
        BY <2>1, <2>2, <2>3, <2>4, <2>5, Zenon

\* The one buffer and the one process of a block that is being used.
LEMMA InUse ==
    ASSUME IInv, NEW p \in Procs, pc[p] \in {"read", "has"}
    PROVE  /\ buf[p] \in Bufs /\ blockno[buf[p]] \in Blocks
           /\ \A b \in Bufs : blockno[b] = blockno[buf[p]] => b = buf[p]
           /\ Valid(blockno[buf[p]]) = IF valid[buf[p]] THEN {buf[p]} ELSE {}
           /\ Has(blockno[buf[p]]) = IF pc[p] = "has" THEN {p} ELSE {}
           /\ pc[p] = "has" => valid[buf[p]]
<1>1. buf[p] \in Bufs /\ blockno[buf[p]] \in Blocks
    BY Working, Zenon
<1>2. \A b \in Bufs : blockno[b] = blockno[buf[p]] => b = buf[p]
    BY <1>1, BioAssumption, Zenon DEF IInv, OneBuffer
<1>3. Valid(blockno[buf[p]]) = IF valid[buf[p]] THEN {buf[p]} ELSE {}
    BY <1>1, <1>2, Zenon DEF Valid
<1>4. Has(blockno[buf[p]]) = IF pc[p] = "has" THEN {p} ELSE {}
    BY Alone DEF Has
<1>5. QED
    BY <1>1, <1>2, <1>3, <1>4, Zenon DEF IInv, HoldInv

\* A step after which every block looks as before is a stuttering step.
LEMMA Unseen ==
    ASSUME \A n \in Blocks : Contents(n)' = Contents(n) /\ Holder(n)' = Holder(n)
    PROVE  UNCHANGED S!svars
BY DEF S!svars

\* A hit changes nothing that callers see.
LEMMA HitUnseen ==
    ASSUME IInv, NEW p \in Procs, NEW n \in Blocks, bget_hit(p, n)
    PROVE  UNCHANGED S!svars
<1>1. /\ pc[p] = "out" /\ pc' = [pc EXCEPT ![p] = "lock"]
      /\ \A q \in Procs \ {p} : buf'[q] = buf[q]
      /\ UNCHANGED <<disk, blockno, valid, data>>
    BY Zenon DEF bget_hit, IInv, TypeOK
<1>2. \A m \in Blocks : Valid(m)' = Valid(m) /\ Has(m)' = Has(m)
    BY <1>1, ZenonT(30) DEF Valid, Has, IInv, TypeOK
<1>3. \A m \in Blocks : Contents(m)' = Contents(m) /\ Holder(m)' = Holder(m)
    BY <1>1, <1>2, Seen, Held, Zenon
<1>4. QED
    BY <1>3, Unseen, Zenon

\* Recycling loses nothing: the buffer agrees with the card.
LEMMA RecycleUnseen ==
    ASSUME IInv, NEW p \in Procs, NEW n \in Blocks, bget_recycle(p, n)
    PROVE  UNCHANGED S!svars
<1> DEFINE b == Order[Max(Unused)]
<1>1. b \in Bufs /\ refcnt[b] = 0
    BY FreeBuffer, Zenon DEF bget_recycle
<1>2. /\ blockno' = [blockno EXCEPT ![b] = n] /\ valid' = [valid EXCEPT ![b] = FALSE]
      /\ buf' = [buf EXCEPT ![p] = b] /\ pc[p] = "out" /\ pc' = [pc EXCEPT ![p] = "lock"]
      /\ UNCHANGED <<disk, data>>
    BY Zenon DEF bget_recycle
<1>3. \A c \in Bufs : blockno[c] # n
    BY MissBuffer, Zenon DEF bget_recycle
<1> HIDE DEF b
<1>4. blockno[b] \notin pinned /\ \A q \in Procs : buf[q] # b
    BY <1>1, NoReference, Zenon
<1>5. /\ blockno'[b] = n /\ ~valid'[b]
      /\ \A c \in Bufs \ {b} : blockno'[c] = blockno[c] /\ valid'[c] = valid[c]
      /\ pc'[p] = "lock"
      /\ \A q \in Procs \ {p} : pc'[q] = pc[q] /\ buf'[q] = buf[q]
    BY <1>1, <1>2, Zenon DEF IInv, TypeOK
<1>6. \A q \in Procs : pc[q] = "has" => buf[q] \in Bufs \ {b}
    BY <1>4, Working, Zenon
<1>7. \A m \in Blocks : Has(m)' = Has(m)
    BY <1>2, <1>5, <1>6 DEF Has
<1>8. ASSUME NEW m \in Blocks PROVE Contents(m)' = Contents(m)
    <2>1. CASE blockno[b] = m /\ valid[b]
        <3>1. \A c \in Bufs : blockno[c] = m => c = b
            BY <1>1, <2>1, BioAssumption, Zenon DEF IInv, OneBuffer
        <3>2. Valid(m) = {b} /\ Valid(m)' = {}
            BY <1>1, <1>3, <1>5, <2>1, <3>1 DEF Valid
        <3>3. data[b] = disk[m]
            BY <1>1, <1>4, <2>1, Zenon DEF IInv, DataInv
        <3>4. QED
            BY <1>2, <3>2, <3>3, Seen, Zenon
    <2>2. CASE ~(blockno[b] = m /\ valid[b])
        <3>1. Valid(m)' = Valid(m)
            BY <1>1, <1>3, <1>5, <2>2, Zenon DEF Valid
        <3>2. QED
            BY <1>2, <3>1, Seen, Zenon
    <2>3. QED
        BY <2>1, <2>2, Zenon
<1>9. QED
    BY <1>7, <1>8, Held, Unseen, Zenon

\* bread() hands the latest contents to one process.
LEMMA ReadSeen == ASSUME IInv, NEW p \in Procs, bread(p) PROVE S!SNext
<1>0. PICK b \in Bufs, n \in Blocks : b = buf[p] /\ n = blockno[b]
    BY Working DEF bread
<1>1. /\ b \in Bufs /\ n \in Blocks /\ \A c \in Bufs : blockno[c] = n => c = b
      /\ Valid(n) = IF valid[b] THEN {b} ELSE {}
      /\ Has(n) = {} /\ pc[p] = "read"
    BY <1>0, InUse, Zenon DEF bread
<1>2. /\ data' = IF valid[b] THEN data ELSE [data EXCEPT ![b] = disk[n]]
      /\ valid' = [valid EXCEPT ![b] = TRUE] /\ pc' = [pc EXCEPT ![p] = "has"]
      /\ UNCHANGED <<disk, blockno, buf>>
    BY <1>0, Zenon DEF bread
<1>3. /\ valid'[b] /\ \A c \in Bufs \ {b} : valid'[c] = valid[c] /\ data'[c] = data[c]
      /\ data'[b] = IF valid[b] THEN data[b] ELSE disk[n]
      /\ pc'[p] = "has" /\ \A q \in Procs \ {p} : pc'[q] = pc[q]
    BY <1>1, <1>2, Zenon DEF IInv, TypeOK
<1>4. Valid(n)' = {b}
    BY <1>0, <1>1, <1>2, <1>3, SMTT(30) DEF Valid
<1>5. Has(n)' = {p}
    <2>1. \A q \in Procs \ {p} : ~(pc[q] = "has" /\ blockno[buf[q]] = n)
        BY <1>1, Zenon DEF Has
    <2>2. QED
        BY <1>0, <1>2, <1>3, <2>1 DEF Has
<1>6. \A m \in Blocks \ {n} : Valid(m)' = Valid(m) /\ b \notin Valid(m) /\ Has(m)' = Has(m)
    <2>1. \A m \in Blocks \ {n} : Valid(m)' = Valid(m) /\ b \notin Valid(m)
        <3>1. \A m \in Blocks \ {n} : b \notin Valid(m)
            BY <1>0, Zenon DEF Valid
        <3>2. \A m \in Blocks \ {n} : \A c \in Bufs :
                 blockno'[c] = m /\ valid'[c] <=> blockno[c] = m /\ valid[c]
            BY <1>0, <1>2, <1>3
        <3>3. QED
            BY <3>1, <3>2, Zenon DEF Valid
    <2>2. \A m \in Blocks \ {n} : Has(m)' = Has(m)
        <3>1. \A m \in Blocks \ {n} : \A q \in Procs :
                 pc'[q] = "has" /\ blockno'[buf'[q]] = m <=> pc[q] = "has" /\ blockno[buf[q]] = m
            BY <1>0, <1>1, <1>2, <1>3, Zenon
        <3>2. QED
            BY <3>1, Zenon DEF Has
    <2>3. QED
        BY <2>1, <2>2, Zenon
<1>7. Contents(n)' = Contents(n)
    <2>1. Contents(n)' = data'[b]
        BY <1>4, Seen, Zenon
    <2>2. Contents(n) = IF valid[b] THEN data[b] ELSE disk[n]
        BY <1>1, Seen, Zenon
    <2>3. QED
        BY <1>3, <2>1, <2>2, Zenon
<1>8. \A m \in Blocks \ {n} : Contents(m)' = Contents(m) /\ Holder(m)' = Holder(m)
    <2>1. \A m \in Blocks \ {n} : \A c \in Valid(m) : data'[c] = data[c]
        BY <1>3, <1>6, Zenon DEF Valid
    <2>2. QED
        BY <1>2, <1>6, <2>1, Seen, Held, Zenon
<1>9. Holder(n) = None /\ Holder(n)' = p
    BY <1>1, <1>5, Held, Zenon
<1>10. S!SRead(p, n)
    BY <1>1, <1>7, <1>8, <1>9, Zenon DEF S!SRead
<1>11. QED
    BY <1>1, <1>10, Zenon DEF S!SNext

\* A change is seen at once.
LEMMA ChangeSeen ==
    ASSUME IInv, NEW p \in Procs, NEW d \in Data, Change(p, d)
    PROVE  S!SNext
<1>0. PICK b \in Bufs, n \in Blocks : b = buf[p] /\ n = blockno[b]
    BY Working DEF Change
<1>1. /\ b \in Bufs /\ n \in Blocks /\ \A c \in Bufs : blockno[c] = n => c = b
      /\ Valid(n) = {b} /\ Has(n) = {p}
    BY <1>0, InUse, Zenon DEF Change
<1>2. /\ data' = [data EXCEPT ![b] = d]
      /\ UNCHANGED <<disk, blockno, valid, pc, buf>>
    BY <1>0, Zenon DEF Change
<1>3. data'[b] = d /\ \A c \in Bufs \ {b} : data'[c] = data[c]
    BY <1>1, <1>2, Zenon DEF IInv, TypeOK
<1>4. \A m \in Blocks : Valid(m)' = Valid(m) /\ Has(m)' = Has(m)
    BY <1>2, Zenon DEF Valid, Has
<1>5. \A m \in Blocks \ {n} : \A c \in Valid(m) : data'[c] = data[c]
    BY <1>0, <1>3, Zenon DEF Valid
<1>6. \A m \in Blocks \ {n} : Contents(m)' = Contents(m)
    BY <1>2, <1>4, <1>5, Seen, Zenon
<1>7. Contents(n)' = d
    <2>1. Valid(n)' = {b}
        BY <1>1, <1>4, Zenon
    <2>2. Contents(n)' = data'[b]
        BY <2>1, Seen, Zenon
    <2>3. QED
        BY <1>3, <2>2, Zenon
<1>8. Holder(n) = p /\ \A m \in Blocks : Holder(m)' = Holder(m)
    BY <1>1, <1>4, Held, Zenon
<1>9. S!SChange(p, n, d)
    BY <1>1, <1>6, <1>7, <1>8, Zenon DEF S!SChange
<1>10. QED
    BY <1>1, <1>9, Zenon DEF S!SNext

\* Writing back changes nothing that callers see.
LEMMA WriteUnseen == ASSUME IInv, NEW p \in Procs, bwrite(p) PROVE UNCHANGED S!svars
<1>0. PICK b \in Bufs, n \in Blocks : b = buf[p] /\ n = blockno[b]
    BY Working DEF bwrite
<1>1. b \in Bufs /\ n \in Blocks /\ Valid(n) = {b}
    BY <1>0, InUse, Zenon DEF bwrite
<1>2. /\ disk' = [disk EXCEPT ![n] = data[b]]
      /\ UNCHANGED <<blockno, valid, data, pc, buf>>
    BY <1>0, Zenon DEF bwrite
<1>3. \A m \in Blocks \ {n} : disk'[m] = disk[m]
    BY <1>2, Zenon DEF IInv, TypeOK
<1>4. \A m \in Blocks : Valid(m)' = Valid(m) /\ Has(m)' = Has(m)
    BY <1>2, Zenon DEF Valid, Has
<1>5. \A m \in Blocks \ {n} : Contents(m)' = Contents(m)
    BY <1>2, <1>3, <1>4, Seen, Zenon
<1>6. Contents(n)' = Contents(n)
    BY <1>1, <1>2, <1>4, Seen
<1>7. QED
    BY <1>4, <1>5, <1>6, Held, Unseen, Zenon

\* brelse() lets go of the block.
LEMMA UnlockSeen == ASSUME IInv, NEW p \in Procs, brelse_unlock(p) PROVE S!SNext
<1>0. PICK b \in Bufs, n \in Blocks : b = buf[p] /\ n = blockno[b]
    BY Working DEF brelse_unlock
<1>1. b \in Bufs /\ n \in Blocks /\ Has(n) = {p} /\ pc[p] = "has"
    BY <1>0, InUse, Zenon DEF brelse_unlock
<1>2. /\ pc' = [pc EXCEPT ![p] = "drop"]
      /\ UNCHANGED <<disk, blockno, valid, data, buf>>
    BY <1>0, Zenon DEF brelse_unlock
<1>3. pc'[p] = "drop" /\ \A q \in Procs \ {p} : pc'[q] = pc[q]
    BY <1>2, Zenon DEF IInv, TypeOK
<1>4. \A m \in Blocks : Valid(m)' = Valid(m)
    BY <1>2, Zenon DEF Valid
<1>5. Has(n)' = {}
    BY <1>0, <1>1, <1>2, <1>3 DEF Has
<1>6. \A m \in Blocks \ {n} : Has(m)' = Has(m)
    BY <1>0, <1>2, <1>3, Zenon DEF Has
<1>7. \A m \in Blocks : Contents(m)' = Contents(m)
    BY <1>2, <1>4, Seen, Zenon
<1>8. /\ Holder(n) = p /\ Holder(n)' = None
      /\ \A m \in Blocks \ {n} : Holder(m)' = Holder(m)
    BY <1>1, <1>5, <1>6, Held, Zenon
<1>9. S!SRelease(p, n)
    BY <1>1, <1>7, <1>8, ZenonT(30) DEF S!SRelease
<1>10. QED
    BY <1>1, <1>9, Zenon DEF S!SNext

\* The other steps only touch what callers do not see.
LEMMA OthersUnseen ==
    ASSUME IInv, NEW p \in Procs, acquiresleep(p) \/ bpin(p) \/ bunpin(p) \/ brelse_drop(p)
    PROVE  UNCHANGED S!svars
<1>1. /\ UNCHANGED <<disk, blockno, valid, data>>
      /\ \A q \in Procs : pc'[q] = "has" <=> pc[q] = "has"
      /\ \A q \in Procs : pc[q] = "has" => buf'[q] = buf[q]
    BY ZenonT(30) DEF acquiresleep, bpin, bunpin, brelse_drop, IInv, TypeOK
<1>2. \A m \in Blocks : Valid(m)' = Valid(m) /\ Has(m)' = Has(m)
    BY <1>1, Zenon DEF Valid, Has
<1>3. QED
    BY <1>1, <1>2, Seen, Held, Unseen, Zenon

\* At first callers see the card, and nobody has a block.
LEMMA InitSeen == Init => S!SInit
<1> SUFFICES ASSUME Init PROVE S!SInit
    BY Zenon
<1>1. \A n \in Blocks : Valid(n) = {} /\ Has(n) = {}
    BY Zenon DEF Init, Valid, Has
<1>2. \A n \in Blocks : Contents(n) = disk[n] /\ Holder(n) = None
    BY <1>1, Seen, Held, Zenon
<1>3. QED
    BY <1>2, Zenon DEF S!SInit, Init

\* Every step of the cache is a step of the store, or leaves it alone.
LEMMA NextSeen == IInv /\ [Next]_vars => [S!SNext]_(S!svars)
<1> SUFFICES ASSUME IInv, [Next]_vars PROVE S!SNext \/ UNCHANGED S!svars
    BY Zenon
<1>1. CASE UNCHANGED vars
    <2>1. \A n \in Blocks : Valid(n)' = Valid(n) /\ Has(n)' = Has(n)
        BY <1>1, Zenon DEF vars, Valid, Has
    <2>2. disk' = disk /\ data' = data
        BY <1>1, Zenon DEF vars
    <2>3. QED
        BY <2>1, <2>2, Seen, Held, Unseen, Zenon
<1>2. CASE Next
    BY <1>2, HitUnseen, RecycleUnseen, ReadSeen, ChangeSeen, WriteUnseen, UnlockSeen,
       OthersUnseen, Zenon DEF Next, bget
<1>3. QED
    BY <1>1, <1>2, Zenon

\* The cache implements BlockStore (bio.c:1-15): bread() returns the latest
\* contents to one process at a time, whatever is recycled, written back or
\* pinned in between.
THEOREM CoherentHolds == Spec => Coherent
BY InitSeen, BioInvariant, NextSeen, PTL DEF Spec, Coherent, S!SSpec
=============================================================================
