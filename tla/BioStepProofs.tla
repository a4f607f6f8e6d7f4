--------------------------- MODULE BioStepProofs ----------------------------
(***************************************************************************)
(* The inductive invariant of Bio for every number of processes, blocks    *)
(* and buffers, what it says of the LRU list, and that it holds at first   *)
(* and survives bget(), the lock, the read and the write of a buffer.      *)
(***************************************************************************)
EXTENDS Bio, FiniteSetTheorems, TLAPS

-----------------------------------------------------------------------------
(* The inductive invariant.                                                *)

\* The processes that, by f, work on buffer b.
Uses(f, b) == {p \in Procs : f[p] = b}

\* The list is o: nx and pv lead through all its buffers and back to the head.
Linked(o, nx, pv) ==
    /\ o \in [Bufs -> Bufs]
    /\ \A i, j \in Bufs : o[i] = o[j] => i = j
    /\ \A b \in Bufs : \E i \in Bufs : o[i] = b
    /\ nx[0] = o[1] /\ pv[0] = o[NBUF]
    /\ \A i \in Bufs : nx[o[i]] = IF i = NBUF THEN 0 ELSE o[i + 1]
    /\ \A i \in Bufs : pv[o[i]] = IF i = 1 THEN 0 ELSE o[i - 1]

RingInv == \E o \in [Bufs -> Bufs] : Linked(o, next, prev)

\* A reference is a process that works on the buffer, or the pin of its block.
RefInv ==
    \A b \in Bufs :
       refcnt[b] = Cardinality(Uses(buf, b)) + IF blockno[b] \in pinned THEN 1 ELSE 0

\* What a process that works on a buffer may rely on.
HoldInv ==
    \A p \in Procs :
       /\ buf[p] = 0 <=> pc[p] = "out"
       /\ pc[p] # "out" => blockno[buf[p]] \in Blocks
       /\ \A b \in Bufs : lock[b] = p <=> pc[p] \in {"read", "has"} /\ buf[p] = b
       /\ pc[p] = "has" => valid[buf[p]]
       /\ pc[p] \in {"out", "lock", "read"} => note[p] = "clean"
       /\ pc[p] = "has" /\ note[p] = "written" => data[buf[p]] = disk[blockno[buf[p]]]

\* A buffer that differs from the card is pinned or held by who changed it, so
\* that recycling loses nothing.
DataInv ==
    \A b \in Bufs : valid[b] =>
       /\ blockno[b] \in Blocks
       /\ \/ data[b] = disk[blockno[b]]
          \/ blockno[b] \in pinned
          \/ \E p \in Procs : pc[p] = "has" /\ buf[p] = b /\ note[p] = "changed"

\* A pinned block stays in the cache.
PinInv ==
    /\ IsFiniteSet(pinned) /\ Cardinality(pinned) <= MaxPins
    /\ \A n \in pinned : \E b \in Bufs : blockno[b] = n

IInv == TypeOK /\ OneBuffer /\ RingInv /\ RefInv /\ HoldInv /\ DataInv /\ PinInv

-----------------------------------------------------------------------------
\* Buffers are the numbers from 1 to NBUF, and 0 is bcache.head.
LEMMA Numbers ==
    /\ NBUF \in Nat \ {0} /\ 1 \in Bufs /\ NBUF \in Bufs /\ 0 \notin Bufs /\ 0 \in 0 .. NBUF
    /\ \A b : b \in Bufs <=> b \in 0 .. NBUF /\ b # 0
    /\ \A b \in Bufs : b \in Nat /\ 1 <= b /\ b <= NBUF
    /\ \A b \in Bufs : b # NBUF => b + 1 \in Bufs
    /\ \A b \in Bufs : b # 1 => b - 1 \in Bufs
BY BioAssumption DEF Bufs

(* Counting the users of a buffer.                                         *)

\* Finitely many processes use a buffer.
LEMMA UsesFinite ==
    ASSUME NEW f, NEW b
    PROVE  /\ IsFiniteSet(Uses(f, b)) /\ Cardinality(Uses(f, b)) \in Nat
           /\ Cardinality(Uses(f, b)) = 0 <=> Uses(f, b) = {}
<1>1. IsFiniteSet(Uses(f, b))
    BY BioAssumption, FS_Subset DEF Uses
<1>2. QED
    BY <1>1, FS_CardinalityType, FS_EmptySet

\* A process turns from one buffer (or none) to another.
LEMMA UsesMoved ==
    ASSUME NEW f, NEW g, NEW p \in Procs, g[p] # f[p], \A q \in Procs \ {p} : g[q] = f[q]
    PROVE  /\ Cardinality(Uses(g, g[p])) = Cardinality(Uses(f, g[p])) + 1
           /\ Cardinality(Uses(g, f[p])) = Cardinality(Uses(f, f[p])) - 1
           /\ \A b : b # g[p] /\ b # f[p] => Uses(g, b) = Uses(f, b)
<1>1. Uses(g, g[p]) = Uses(f, g[p]) \cup {p} /\ p \notin Uses(f, g[p])
    BY DEF Uses
<1>2. Uses(g, f[p]) = Uses(f, f[p]) \ {p} /\ p \in Uses(f, f[p])
    BY DEF Uses
<1>3. \A b : b # g[p] /\ b # f[p] => Uses(g, b) = Uses(f, b)
    BY DEF Uses
<1>4. IsFiniteSet(Uses(f, g[p])) /\ IsFiniteSet(Uses(f, f[p]))
    BY UsesFinite
<1>5. Cardinality(Uses(g, g[p])) = Cardinality(Uses(f, g[p])) + 1
    BY <1>1, <1>4, FS_AddElement, Zenon
<1>6. Cardinality(Uses(g, f[p])) = Cardinality(Uses(f, f[p])) - 1
    BY <1>2, <1>4, FS_RemoveElement, Zenon
<1>7. QED
    BY <1>3, <1>5, <1>6

\* A buffer without references has no user and is not pinned; one that is
\* worked on has a reference.
LEMMA NoReference ==
    ASSUME IInv, NEW b \in Bufs, refcnt[b] = 0
    PROVE  blockno[b] \notin pinned /\ \A p \in Procs : buf[p] # b
<1>1. Cardinality(Uses(buf, b)) = 0 /\ blockno[b] \notin pinned
    BY UsesFinite DEF IInv, RefInv
<1>2. Uses(buf, b) = {}
    BY <1>1, UsesFinite
<1>3. QED
    BY <1>1, <1>2 DEF Uses

\* A process that is past bget() works on a buffer of a block.
LEMMA Working ==
    ASSUME IInv, NEW p \in Procs, pc[p] # "out"
    PROVE  /\ buf[p] \in Bufs /\ blockno[buf[p]] \in Blocks
           /\ Cardinality(Uses(buf, buf[p])) \in Nat \ {0}
<1>1. buf[p] \in Bufs /\ blockno[buf[p]] \in Blocks
    <2>1. buf[p] \in 0 .. NBUF /\ buf[p] # 0 /\ blockno[buf[p]] \in Blocks
        BY DEF IInv, TypeOK, HoldInv
    <2>2. QED
        BY <2>1, Numbers
<1>2. p \in Uses(buf, buf[p])
    BY DEF Uses
<1>3. QED
    BY <1>1, <1>2, UsesFinite

-----------------------------------------------------------------------------
(* The list.                                                               *)

Less == {s \in Nat \X Nat : s[1] < s[2]}

\* A set of natural numbers that is not empty has a least member.
LEMMA Least ==
    ASSUME NEW T \in SUBSET Nat, T # {}
    PROVE  \E x \in T : \A y \in T : x <= y
<1>1. IsWellFoundedOn(Less, Nat)
    BY NatLessThanWellFounded DEF OpToRel, Less
<1>2. PICK x \in T : \A y \in T : ~(<<y, x>> \in Less)
    BY <1>1, WFMin, Zenon
<1>3. \A y \in T : <<y, x>> \in Nat \X Nat
    OBVIOUS
<1>4. \A y \in T : ~(y < x)
    BY <1>2, <1>3, Zenon DEF Less
<1>5. QED
    BY <1>4

\* The searches of bget() find what they look for.
LEMMA MinIn == ASSUME NEW T \in SUBSET Bufs, T # {} PROVE Min(T) \in T
<1>1. \E x \in T : \A y \in T : x <= y
    BY Least, BioAssumption DEF Bufs
<1>2. QED
    BY <1>1 DEF Min

\* The greatest position is one of the positions.
LEMMA MaxIn == ASSUME NEW T \in SUBSET Bufs, T # {} PROVE Max(T) \in T
<1> DEFINE U == {NBUF - i : i \in T}
<1>1. U \in SUBSET Nat /\ U # {}
    <2>1. \A i \in T : NBUF - i \in Nat
        BY BioAssumption DEF Bufs
    <2>2. QED
        BY <2>1
<1>2. PICK u \in U : \A y \in U : u <= y
    BY <1>1, Least, Zenon
<1>3. PICK x \in T : u = NBUF - x
    OBVIOUS
<1>4. \A y \in T : NBUF - x <= NBUF - y
    BY <1>2, <1>3
<1>5. \A y \in T : x >= y
    BY <1>4, BioAssumption DEF Bufs
<1>6. QED
    BY <1>5 DEF Max

\* The order that the next pointers give is the one the list has.
LEMMA OrderIs ==
    ASSUME NEW o, Linked(o, next, prev)
    PROVE  Order = o
<1> DEFINE Nth(f) == f = [i \in 0 .. NBUF |-> IF i = 0 THEN 0 ELSE next[f[i - 1]]]
           nth == CHOOSE f : Nth(f)
           g == [i \in 0 .. NBUF |-> IF i = 0 THEN 0 ELSE o[i]]
<1>1. Order = [i \in Bufs |-> nth[i]]
    BY DEF Order
<1>2. Nth(g)
    <2> SUFFICES ASSUME NEW i \in 0 .. NBUF, i # 0
                 PROVE  o[i] = next[g[i - 1]]
        OBVIOUS
    <2>1. i \in Bufs /\ i \in Nat /\ i - 1 \in 0 .. NBUF
        BY Numbers
    <2>2. CASE i = 1
        BY <2>1, <2>2 DEF Linked
    <2>3. CASE i # 1
        <3>1. i - 1 \in Bufs /\ i - 1 # NBUF /\ (i - 1) + 1 = i /\ i - 1 # 0
            BY <2>1, <2>3, Numbers
        <3>2. g[i - 1] = o[i - 1] /\ next[o[i - 1]] = o[i]
            BY <2>1, <3>1 DEF Linked
        <3>3. QED
            BY <3>2
    <2>4. QED
        BY <2>2, <2>3
<1>3. Nth(nth)
    BY <1>2, Zenon
<1> HIDE DEF nth
<1>4. \A i \in Bufs : nth[i] = o[i]
    <2> DEFINE T == {i \in Bufs : nth[i] # o[i]}
    <2>1. SUFFICES ASSUME T # {} PROVE FALSE
        OBVIOUS
    <2>2. PICK i \in T : \A j \in T : i <= j
        <3>1. T \in SUBSET Nat
            BY Numbers
        <3>2. QED
            BY <2>1, <3>1, Least, Zenon
    <2>3. i \in Bufs /\ i \in Nat /\ i \in 0 .. NBUF /\ i # 0 /\ nth[i] # o[i]
        BY Numbers
    <2>4. nth[i] = next[nth[i - 1]] /\ nth[0] = 0
        BY <1>3, <2>3, Numbers, Zenon
    <2>5. CASE i = 1
        BY <2>3, <2>4, <2>5 DEF Linked
    <2>6. CASE i # 1
        <3>1. i - 1 \in Bufs /\ i - 1 \notin T /\ i - 1 # NBUF /\ (i - 1) + 1 = i
            BY <2>2, <2>3, <2>6, Numbers
        <3>2. nth[i - 1] = o[i - 1] /\ next[o[i - 1]] = o[i]
            BY <3>1 DEF Linked
        <3>3. QED
            BY <2>3, <2>4, <3>2, Zenon
    <2>7. QED
        BY <2>5, <2>6
<1>5. QED
    BY <1>1, <1>4 DEF Linked

\* The six assignments of brelse() give the list with b at its front.
LEMMA Moved ==
    ASSUME TypeOK, RingInv, NEW b \in Bufs, ToFront(b)
    PROVE  RingInv' /\ next' \in [0 .. NBUF -> 0 .. NBUF] /\ prev' \in [0 .. NBUF -> 0 .. NBUF]
<1>1. PICK o : Linked(o, next, prev)
    BY DEF RingInv
<1>2. PICK k \in Bufs : o[k] = b
    BY <1>1, Zenon DEF Linked
<1> DEFINE nb == IF k = NBUF THEN 0 ELSE o[k + 1]
           pb == IF k = 1 THEN 0 ELSE o[k - 1]
           h == IF k = 1 THEN nb ELSE o[1]
           m == [i \in Bufs |-> IF i = 1 THEN b ELSE IF i <= k THEN o[i - 1] ELSE o[i]]
<1>3. /\ o \in [Bufs -> Bufs]
      /\ \A i, j \in Bufs : o[i] = o[j] => i = j
      /\ \A c \in Bufs : \E i \in Bufs : o[i] = c
      /\ next[0] = o[1] /\ prev[0] = o[NBUF]
      /\ \A i \in Bufs : next[o[i]] = IF i = NBUF THEN 0 ELSE o[i + 1]
      /\ \A i \in Bufs : prev[o[i]] = IF i = 1 THEN 0 ELSE o[i - 1]
    BY <1>1, Zenon DEF Linked
<1>4. next[b] = nb /\ prev[b] = pb
    BY <1>2, <1>3, Zenon
<1>5. nb \in 0 .. NBUF /\ pb \in 0 .. NBUF /\ h \in 0 .. NBUF /\ nb # b /\ pb # b /\ h # b
    <2>1. k \in Nat /\ k + 1 # k /\ k - 1 # k
        BY Numbers
    <2>2. k # NBUF => k + 1 \in Bufs /\ o[k + 1] \in Bufs /\ o[k + 1] # b
        BY <1>2, <1>3, <2>1, Numbers, Zenon
    <2>3. k # 1 => k - 1 \in Bufs /\ o[k - 1] \in Bufs /\ o[k - 1] # b /\ o[1] # b
        BY <1>2, <1>3, <2>1, Numbers, Zenon
    <2>4. o[1] \in Bufs /\ b # 0
        BY <1>3, Numbers, Zenon
    <2>5. QED
        BY <2>2, <2>3, <2>4, Numbers, Zenon
<1>6. h = IF pb = 0 THEN nb ELSE next[0]
    BY <1>2, <1>3, Numbers
<1>7. /\ next \in [0 .. NBUF -> 0 .. NBUF] /\ prev \in [0 .. NBUF -> 0 .. NBUF]
      /\ b # 0 /\ b \in 0 .. NBUF /\ 0 \in 0 .. NBUF
    BY Numbers, Zenon DEF TypeOK
<1> HIDE DEF nb, pb, h
<1>8. /\ next' \in [0 .. NBUF -> 0 .. NBUF] /\ prev' \in [0 .. NBUF -> 0 .. NBUF]
      /\ \A x \in 0 .. NBUF : next'[x] = IF x = 0 THEN b ELSE IF x = b THEN h
                                         ELSE IF x = pb THEN nb ELSE next[x]
      /\ \A x \in 0 .. NBUF : prev'[x] = IF x = h THEN b ELSE IF x = b THEN 0
                                         ELSE IF x = nb THEN pb ELSE prev[x]
    <2> DEFINE p1 == [prev EXCEPT ![next[b]] = prev[b]]
               n1 == [next EXCEPT ![prev[b]] = next[b]]
               n2 == [n1 EXCEPT ![b] = n1[0]]
               p2 == [p1 EXCEPT ![b] = 0]
    <2>1. n1 = [next EXCEPT ![pb] = nb] /\ p1 = [prev EXCEPT ![nb] = pb]
        BY <1>4
    <2>2. n1[0] = h /\ n1 \in [0 .. NBUF -> 0 .. NBUF]
        BY <1>5, <1>6, <1>7, <2>1, Zenon
    <2>3. n2 = [n1 EXCEPT ![b] = h] /\ n2[0] = h
        BY <1>7, <2>2, Zenon
    <2>4. prev' = [p2 EXCEPT ![h] = b] /\ next' = [n2 EXCEPT ![0] = b]
        BY <2>3, Zenon DEF ToFront
    <2> HIDE DEF p1, n1
    <2>5. p1 \in [0 .. NBUF -> 0 .. NBUF]
        BY <1>5, <1>7, <2>1, Zenon
    <2>6. \A x \in 0 .. NBUF : next'[x] = IF x = 0 THEN b ELSE IF x = b THEN h ELSE n1[x]
        BY <1>5, <2>2, <2>3, <2>4, Zenon
    <2>7. \A x \in 0 .. NBUF : prev'[x] = IF x = h THEN b ELSE IF x = b THEN 0 ELSE p1[x]
        BY <1>5, <2>4, <2>5, Zenon
    <2>8. /\ \A x \in 0 .. NBUF : n1[x] = IF x = pb THEN nb ELSE next[x]
          /\ \A x \in 0 .. NBUF : p1[x] = IF x = nb THEN pb ELSE prev[x]
        BY <1>5, <1>7, <2>1, Zenon
    <2>9. next' \in [0 .. NBUF -> 0 .. NBUF] /\ prev' \in [0 .. NBUF -> 0 .. NBUF]
        BY <1>5, <1>7, <2>2, <2>3, <2>4, <2>5, Zenon
    <2>10. QED
        BY <2>6, <2>7, <2>8, <2>9, Zenon
<1>9. /\ m \in [Bufs -> Bufs] /\ m[1] = b
      /\ \A i \in Bufs : i # 1 /\ i <= k => i - 1 \in Bufs /\ m[i] = o[i - 1]
      /\ \A i \in Bufs : i > k => m[i] = o[i]
    BY <1>2, <1>3, Numbers, SMTT(30)
<1> HIDE DEF m
<1>10. \A i, j \in Bufs : m[i] = m[j] => i = j
    <2> SUFFICES ASSUME NEW i \in Bufs, NEW j \in Bufs, m[i] = m[j], i < j
                 PROVE  FALSE
        BY Numbers
    <2>1. CASE j <= k
        <3>1. m[j] = o[j - 1] /\ j - 1 \in Bufs /\ j - 1 # k
            BY <1>9, <2>1, Numbers
        <3>2. CASE i = 1
            BY <1>2, <1>3, <1>9, <3>1, <3>2
        <3>3. CASE i # 1
            <4>1. m[i] = o[i - 1] /\ i - 1 \in Bufs /\ i - 1 # j - 1
                BY <1>9, <2>1, <3>3, Numbers
            <4>2. QED
                BY <1>3, <3>1, <4>1
        <3>4. QED
            BY <3>2, <3>3
    <2>2. CASE j > k
        <3>1. m[j] = o[j] /\ j # k
            BY <1>9, <2>2, Numbers
        <3>2. CASE i = 1
            BY <1>2, <1>3, <1>9, <3>1, <3>2
        <3>3. CASE i # 1 /\ i <= k
            <4>1. m[i] = o[i - 1] /\ i - 1 \in Bufs /\ i - 1 # j
                BY <1>9, <3>3, Numbers
            <4>2. QED
                BY <1>3, <3>1, <4>1
        <3>4. CASE i > k
            BY <1>3, <1>9, <3>1, <3>4, Numbers
        <3>5. QED
            BY <3>2, <3>3, <3>4, Numbers
    <2>3. QED
        BY <2>1, <2>2, Numbers
<1>11. \A c \in Bufs : \E i \in Bufs : m[i] = c
    <2> SUFFICES ASSUME NEW c \in Bufs PROVE \E i \in Bufs : m[i] = c
        BY Zenon
    <2>1. PICK j \in Bufs : o[j] = c
        BY <1>3, Zenon
    <2>2. CASE j = k
        BY <1>2, <1>9, <2>1, <2>2, Numbers, Zenon
    <2>3. CASE j < k
        <3>1. j + 1 \in Bufs /\ j + 1 # 1 /\ j + 1 <= k /\ (j + 1) - 1 = j
            BY <2>3, Numbers
        <3>2. m[j + 1] = c
            BY <1>9, <2>1, <3>1, Zenon
        <3>3. QED
            BY <3>1, <3>2, Zenon
    <2>4. CASE j > k
        BY <1>9, <2>1, <2>4, Zenon
    <2>5. QED
        BY <2>2, <2>3, <2>4, Numbers
\* Where the pointers that change lead, by position in the old order.
<1>12. \A i \in Bufs : /\ o[i] \in 0 .. NBUF /\ o[i] # 0
                       /\ o[i] = b <=> i = k
                       /\ o[i] = pb <=> i = k - 1
                       /\ o[i] = nb <=> i = k + 1
                       /\ o[i] = h <=> i = IF k = 1 THEN 2 ELSE 1
    <2> SUFFICES ASSUME NEW i \in Bufs
                 PROVE  /\ o[i] \in 0 .. NBUF /\ o[i] # 0
                        /\ o[i] = b <=> i = k
                        /\ o[i] = pb <=> i = k - 1
                        /\ o[i] = nb <=> i = k + 1
                        /\ o[i] = h <=> i = IF k = 1 THEN 2 ELSE 1
        BY Zenon
    <2>1. o[i] \in 0 .. NBUF /\ o[i] # 0 /\ (o[i] = b <=> i = k)
        BY <1>2, <1>3, Numbers, Zenon
    <2>2. o[i] = pb <=> i = k - 1
        BY <1>3, <2>1, Numbers, SMTT(30) DEF pb
    <2>3. o[i] = nb <=> i = k + 1
        <3>1. CASE k = NBUF
            BY <2>1, <3>1, Numbers DEF nb
        <3>2. CASE k # NBUF
            <4>1. k + 1 \in Bufs /\ nb = o[k + 1]
                BY <3>2, Numbers, Zenon DEF nb
            <4>2. QED
                BY <1>3, <4>1
        <3>3. QED
            BY <3>1, <3>2
    <2>4. o[i] = h <=> i = IF k = 1 THEN 2 ELSE 1
        BY <1>3, <2>3, Numbers, SMTT(30) DEF h
    <2>5. QED
        BY <2>1, <2>2, <2>3, <2>4, Zenon
<1>13. /\ next'[0] = b /\ next'[b] = h
       /\ \A i \in Bufs : i # k => next'[o[i]] = IF i = k - 1 THEN nb ELSE next[o[i]]
    BY <1>7, <1>8, <1>12, Zenon
<1>14. /\ prev'[b] = 0
       /\ \A i \in Bufs : i # k =>
             prev'[o[i]] = IF i = (IF k = 1 THEN 2 ELSE 1) THEN b
                           ELSE IF i = k + 1 THEN pb ELSE prev[o[i]]
    BY <1>5, <1>7, <1>8, <1>12, Zenon
<1>15. \A i \in Bufs : next'[m[i]] = IF i = NBUF THEN 0 ELSE m[i + 1]
    <2> SUFFICES ASSUME NEW i \in Bufs
                 PROVE  next'[m[i]] = IF i = NBUF THEN 0 ELSE m[i + 1]
        OBVIOUS
    <2>1. CASE i = 1
        <3>1. CASE NBUF = 1
            <4>1. k = 1 /\ h = 0
                BY <3>1, Numbers DEF h, nb
            <4>2. QED
                BY <1>9, <1>13, <2>1, <3>1, <4>1, Zenon
        <3>2. CASE NBUF # 1
            <4>1. 2 \in Bufs /\ i + 1 = 2 /\ i # NBUF
                BY <2>1, <3>2, Numbers
            <4>2. m[2] = h
                BY <1>9, <4>1, Numbers DEF h, nb
            <4>3. QED
                BY <1>9, <1>13, <2>1, <4>1, <4>2, Zenon
        <3>3. QED
            BY <3>1, <3>2, Zenon
    <2>2. CASE i # 1 /\ i = k
        <3>1. m[i] = o[i - 1] /\ i - 1 \in Bufs /\ i - 1 # k
            BY <1>9, <2>2, Numbers
        <3>2. next'[m[i]] = nb
            BY <1>13, <2>2, <3>1, Zenon
        <3>3. i # NBUF => m[i + 1] = o[i + 1]
            BY <1>9, <2>2, Numbers
        <3>4. QED
            BY <2>2, <3>2, <3>3, Zenon DEF nb
    <2>3. CASE i # 1 /\ i < k
        <3>1. m[i] = o[i - 1] /\ i - 1 \in Bufs /\ i - 1 # k /\ i - 1 # k - 1 /\ i - 1 # NBUF
            BY <1>9, <2>3, Numbers
        <3>2. next'[m[i]] = o[i]
            <4>1. next'[o[i - 1]] = next[o[i - 1]]
                BY <1>13, <3>1, Zenon
            <4>2. next[o[i - 1]] = o[(i - 1) + 1]
                BY <1>3, <3>1, Zenon
            <4>3. (i - 1) + 1 = i
                BY Numbers
            <4>4. QED
                BY <3>1, <4>1, <4>2, <4>3, Zenon
        <3>3. i # NBUF /\ m[i + 1] = o[i]
            BY <1>9, <2>3, Numbers
        <3>4. QED
            BY <3>2, <3>3, Zenon
    <2>4. CASE i > k
        <3>1. m[i] = o[i] /\ i # k /\ i # k - 1
            BY <1>9, <2>4, Numbers
        <3>2. i # NBUF => m[i + 1] = o[i + 1]
            BY <1>9, <2>4, Numbers
        <3>3. QED
            BY <1>3, <1>13, <3>1, <3>2
    <2>5. QED
        BY <2>1, <2>2, <2>3, <2>4, Numbers
<1>16. \A i \in Bufs : prev'[m[i]] = IF i = 1 THEN 0 ELSE m[i - 1]
    <2> SUFFICES ASSUME NEW i \in Bufs
                 PROVE  prev'[m[i]] = IF i = 1 THEN 0 ELSE m[i - 1]
        OBVIOUS
    <2>1. CASE i = 1
        BY <1>9, <1>14, <2>1, Zenon
    <2>2. CASE i = 2
        <3>1. m[2] = o[IF k = 1 THEN 2 ELSE 1] /\ (IF k = 1 THEN 2 ELSE 1) # k
            BY <1>9, <2>2, Numbers
        <3>2. prev'[m[2]] = b
            BY <1>14, <2>2, <3>1, Numbers, Zenon
        <3>3. QED
            BY <1>9, <2>2, <3>2
    <2>3. CASE i > 2 /\ i <= k
        <3>1. /\ m[i] = o[i - 1] /\ i - 1 \in Bufs /\ i - 1 # k /\ i - 1 # k + 1
              /\ i - 1 # 1 /\ k # 1
            BY <1>9, <2>3, Numbers
        <3>2. prev'[m[i]] = o[(i - 1) - 1]
            <4>1. prev'[o[i - 1]] = prev[o[i - 1]]
                BY <1>14, <3>1, Zenon
            <4>2. prev[o[i - 1]] = o[(i - 1) - 1]
                BY <1>3, <3>1, Zenon
            <4>3. QED
                BY <3>1, <4>1, <4>2, Zenon
        <3>3. m[i - 1] = o[(i - 1) - 1]
            BY <1>9, <2>3, <3>1, Numbers
        <3>4. QED
            BY <2>3, <3>2, <3>3, Numbers
    <2>4. CASE i > 2 /\ i = k + 1
        <3>1. m[i] = o[i] /\ i # k /\ i # 1 /\ k # 1
            BY <1>9, <2>4, Numbers
        <3>2. prev'[m[i]] = o[k - 1]
            BY <1>14, <2>4, <3>1, Zenon DEF pb
        <3>3. m[i - 1] = o[k - 1]
            BY <1>9, <2>4, <3>1, Numbers
        <3>4. QED
            BY <3>1, <3>2, <3>3, Zenon
    <2>5. CASE i > 2 /\ i > k + 1
        <3>1. m[i] = o[i] /\ i # k /\ i # 1 /\ i # 2 /\ i # k + 1
            BY <1>9, <2>5, Numbers
        <3>2. prev'[m[i]] = o[i - 1]
            BY <1>3, <1>14, <3>1
        <3>3. m[i - 1] = o[i - 1]
            BY <1>9, <2>5, Numbers
        <3>4. QED
            BY <3>1, <3>2, <3>3, Zenon
    <2>6. QED
        BY <2>1, <2>2, <2>3, <2>4, <2>5, Numbers
<1>17. prev'[0] = m[NBUF]
    <2>1. CASE NBUF = 1
        <3>1. k = 1 /\ h = 0
            BY <2>1, Numbers DEF h, nb
        <3>2. QED
            BY <1>7, <1>8, <1>9, <2>1, <3>1, Zenon
    <2>2. CASE NBUF # 1 /\ k = NBUF
        <3>1. h # 0 /\ nb = 0 /\ pb = o[NBUF - 1] /\ m[NBUF] = o[NBUF - 1]
            BY <1>9, <1>12, <2>2, Numbers, Zenon DEF h, nb, pb
        <3>2. QED
            BY <1>7, <1>8, <3>1, Zenon
    <2>3. CASE k # NBUF
        <3>1. h # 0 /\ nb # 0 /\ m[NBUF] = o[NBUF]
            BY <1>9, <1>12, <2>3, Numbers DEF h, nb
        <3>2. QED
            BY <1>3, <1>7, <1>8, <3>1, Zenon
    <2>4. QED
        BY <2>1, <2>2, <2>3, Zenon
<1>18. Linked(m, next', prev')
    BY <1>9, <1>10, <1>11, <1>13, <1>15, <1>16, <1>17, Zenon DEF Linked
<1>19. QED
    BY <1>8, <1>9, <1>18, Zenon DEF RingInv

\* What the searches of bget() find.
LEMMA HitBuffer ==
    ASSUME IInv, NEW n \in Blocks, Cached(n) # {}
    PROVE  Order[Min(Cached(n))] \in Bufs /\ blockno[Order[Min(Cached(n))]] = n
<1>1. PICK o : Linked(o, next, prev) /\ Order = o
    BY OrderIs, Zenon DEF IInv, RingInv
<1>2. Min(Cached(n)) \in Cached(n)
    BY MinIn, Zenon DEF Cached
<1>3. QED
    BY <1>1, <1>2, Zenon DEF Cached, Linked

\* When the search finds nothing, no buffer has the block (bio.c:66-74).
LEMMA MissBuffer ==
    ASSUME IInv, NEW n \in Blocks, Cached(n) = {}
    PROVE  \A b \in Bufs : blockno[b] # n
<1>1. PICK o : Linked(o, next, prev) /\ Order = o
    BY OrderIs, Zenon DEF IInv, RingInv
<1>2. QED
    BY <1>1 DEF Cached, Linked

\* The buffer that is recycled has no references (bio.c:78-79).
LEMMA FreeBuffer ==
    ASSUME IInv, Unused # {}
    PROVE  Order[Max(Unused)] \in Bufs /\ refcnt[Order[Max(Unused)]] = 0
<1>1. PICK o : Linked(o, next, prev) /\ Order = o
    BY OrderIs, Zenon DEF IInv, RingInv
<1>2. Max(Unused) \in Unused
    BY MaxIn, Zenon DEF Unused
<1>3. QED
    BY <1>1, <1>2, Zenon DEF Unused, Linked

-----------------------------------------------------------------------------
(* The invariant holds at first and every step keeps it.                   *)

\* binit() (bio.c:37-54) links all buffers into one list, and none is used.
LEMMA InitIInv == Init => IInv
<1> SUFFICES ASSUME Init PROVE IInv
    BY Zenon
<1> USE BioAssumption DEF Init
<1>1. TypeOK
    BY DEF TypeOK, Bufs
<1>2. OneBuffer
    BY DEF OneBuffer
<1>3. RingInv
    <2> DEFINE o == [i \in Bufs |-> NBUF + 1 - i]
    <2>1. o \in [Bufs -> Bufs]
        BY DEF Bufs
    <2>2. \A i, j \in Bufs : o[i] = o[j] => i = j
        BY DEF Bufs
    <2>3. \A b \in Bufs : \E i \in Bufs : o[i] = b
        <3> SUFFICES ASSUME NEW b \in Bufs PROVE \E i \in Bufs : o[i] = b
            BY Zenon
        <3>1. NBUF + 1 - b \in Bufs /\ o[NBUF + 1 - b] = b
            BY DEF Bufs
        <3>2. QED
            BY <3>1, Zenon
    <2>4. next[0] = o[1] /\ prev[0] = o[NBUF]
        BY DEF Bufs
    <2>5. \A i \in Bufs : next[o[i]] = IF i = NBUF THEN 0 ELSE o[i + 1]
        BY DEF Bufs
    <2>6. \A i \in Bufs : prev[o[i]] = IF i = 1 THEN 0 ELSE o[i - 1]
        BY DEF Bufs
    <2>7. QED
        BY <2>1, <2>2, <2>3, <2>4, <2>5, <2>6, Zenon DEF RingInv, Linked
<1>4. RefInv
    <2> SUFFICES ASSUME NEW b \in Bufs
                 PROVE  refcnt[b] = Cardinality(Uses(buf, b))
                                    + IF blockno[b] \in pinned THEN 1 ELSE 0
        BY Zenon DEF RefInv
    <2>1. Uses(buf, b) = {}
        BY DEF Uses, Bufs
    <2>2. Cardinality(Uses(buf, b)) = 0
        BY <2>1, FS_EmptySet, Zenon
    <2>3. QED
        BY <2>2
<1>5. HoldInv
    BY Zenon DEF HoldInv
<1>6. DataInv
    BY Zenon DEF DataInv
<1>7. PinInv
    BY FS_EmptySet DEF PinInv
<1>8. QED
    BY <1>1, <1>2, <1>3, <1>4, <1>5, <1>6, <1>7, Zenon DEF IInv

\* bget() finds the block in the cache (bio.c:66-73).
LEMMA HitStep == ASSUME IInv, NEW p \in Procs, NEW n \in Blocks, bget_hit(p, n) PROVE IInv'
<1> DEFINE b == Order[Min(Cached(n))]
<1>1. /\ pc[p] = "out" /\ buf[p] = 0 /\ note[p] = "clean"
      /\ \A c \in Bufs : lock[c] # p
    BY DEF bget_hit, IInv, HoldInv
<1>2. b \in Bufs /\ blockno[b] = n /\ b # 0
    BY HitBuffer DEF bget_hit, Bufs
<1>3. /\ refcnt' = [refcnt EXCEPT ![b] = @ + 1] /\ buf' = [buf EXCEPT ![p] = b]
      /\ pc' = [pc EXCEPT ![p] = "lock"]
      /\ UNCHANGED <<disk, next, prev, blockno, valid, lock, data, note, pinned>>
    BY Zenon DEF bget_hit, list
<1> HIDE DEF b
<1>4. TypeOK'
    <2>1. refcnt' \in [Bufs -> Nat]
        BY <1>2, <1>3 DEF IInv, TypeOK
    <2>2. buf' \in [Procs -> 0 .. NBUF]
        BY <1>2, <1>3, Numbers, Zenon DEF IInv, TypeOK
    <2>3. QED
        BY <1>3, <2>1, <2>2, Zenon DEF IInv, TypeOK
<1>5. OneBuffer' /\ RingInv' /\ PinInv'
    BY <1>3, Zenon DEF IInv, OneBuffer, RingInv, PinInv
<1>6. RefInv'
    <2> SUFFICES ASSUME NEW c \in Bufs
                 PROVE  refcnt'[c] = Cardinality(Uses(buf', c))
                                     + IF blockno[c] \in pinned THEN 1 ELSE 0
        BY <1>3, Zenon DEF RefInv
    <2>1. /\ Cardinality(Uses(buf', b)) = Cardinality(Uses(buf, b)) + 1
          /\ c # b => Uses(buf', c) = Uses(buf, c)
        <3>1. buf'[p] = b /\ \A q \in Procs \ {p} : buf'[q] = buf[q]
            BY <1>3 DEF IInv, TypeOK
        <3>2. b # buf[p] /\ c # buf[p]
            BY <1>1, <1>2, Numbers
        <3>3. QED
            BY <3>1, <3>2, UsesMoved, ZenonT(30)
    <2>2. Cardinality(Uses(buf, b)) \in Nat
        BY UsesFinite
    <2>3. QED
        BY <1>2, <1>3, <2>1, <2>2 DEF IInv, TypeOK, RefInv
<1>7. HoldInv'
    BY <1>1, <1>2, <1>3 DEF IInv, TypeOK, HoldInv
<1>8. DataInv'
    BY <1>1, <1>2, <1>3 DEF IInv, TypeOK, DataInv
<1>9. QED
    BY <1>4, <1>5, <1>6, <1>7, <1>8, Zenon DEF IInv

\* bget() recycles the least recently used buffer without references (bio.c:78-87).
LEMMA RecycleStep ==
    ASSUME IInv, NEW p \in Procs, NEW n \in Blocks, bget_recycle(p, n)
    PROVE  IInv'
<1> DEFINE b == Order[Max(Unused)]
<1>1. /\ pc[p] = "out" /\ buf[p] = 0 /\ note[p] = "clean"
      /\ \A c \in Bufs : lock[c] # p
    BY DEF bget_recycle, IInv, HoldInv
<1>2. b \in Bufs /\ refcnt[b] = 0 /\ b # 0
    BY FreeBuffer DEF bget_recycle, Bufs
<1>3. /\ blockno' = [blockno EXCEPT ![b] = n] /\ valid' = [valid EXCEPT ![b] = FALSE]
      /\ refcnt' = [refcnt EXCEPT ![b] = 1] /\ buf' = [buf EXCEPT ![p] = b]
      /\ pc' = [pc EXCEPT ![p] = "lock"]
      /\ UNCHANGED <<disk, next, prev, lock, data, note, pinned>>
    BY Zenon DEF bget_recycle, list
<1>4. \A c \in Bufs : blockno[c] # n
    BY MissBuffer, Zenon DEF bget_recycle
<1> HIDE DEF b
<1>5. blockno[b] \notin pinned /\ \A q \in Procs : buf[q] # b
    BY <1>2, NoReference, Zenon
<1>6. n \notin pinned /\ n # None
    BY <1>4, BioAssumption, Zenon DEF IInv, PinInv
<1>7. TypeOK'
    BY <1>2, <1>3 DEF IInv, TypeOK, Bufs
<1>8. OneBuffer'
    BY <1>2, <1>3, <1>4, Zenon DEF IInv, TypeOK, OneBuffer
<1>9. RingInv'
    BY <1>3, Zenon DEF IInv, RingInv
<1>10. PinInv'
    BY <1>2, <1>3, <1>5 DEF IInv, TypeOK, PinInv
<1>11. RefInv'
    <2> SUFFICES ASSUME NEW c \in Bufs
                 PROVE  refcnt'[c] = Cardinality(Uses(buf', c))
                                     + IF blockno'[c] \in pinned THEN 1 ELSE 0
        BY <1>3, Zenon DEF RefInv
    <2>1. /\ Cardinality(Uses(buf', b)) = Cardinality(Uses(buf, b)) + 1
          /\ c # b => Uses(buf', c) = Uses(buf, c)
        <3>1. buf'[p] = b /\ \A q \in Procs \ {p} : buf'[q] = buf[q]
            BY <1>3, Zenon DEF IInv, TypeOK
        <3>2. b # buf[p] /\ c # buf[p]
            BY <1>1, <1>2, Numbers, Zenon
        <3>3. QED
            BY <3>1, <3>2, UsesMoved, Zenon
    <2>2. Uses(buf, b) = {}
        BY <1>5, Zenon DEF Uses
    <2>3. Cardinality(Uses(buf, b)) = 0
        BY <2>2, FS_EmptySet, Zenon
    <2>4. CASE c = b
        BY <1>2, <1>3, <1>6, <2>1, <2>3, <2>4, SMTT(30) DEF IInv, TypeOK
    <2>5. CASE c # b
        BY <1>2, <1>3, <2>1, <2>5, Zenon DEF IInv, TypeOK, RefInv
    <2>6. QED
        BY <2>4, <2>5
<1>12. HoldInv'
    <2> SUFFICES ASSUME NEW q \in Procs
                 PROVE  /\ buf'[q] = 0 <=> pc'[q] = "out"
                        /\ pc'[q] # "out" => blockno'[buf'[q]] \in Blocks
                        /\ \A c \in Bufs : lock'[c] = q <=> pc'[q] \in {"read", "has"} /\ buf'[q] = c
                        /\ pc'[q] = "has" => valid'[buf'[q]]
                        /\ pc'[q] \in {"out", "lock", "read"} => note'[q] = "clean"
                        /\ pc'[q] = "has" /\ note'[q] = "written"
                             => data'[buf'[q]] = disk'[blockno'[buf'[q]]]
        BY Zenon DEF HoldInv
    <2>1. CASE q = p
        BY <1>1, <1>2, <1>3, <2>1, ZenonT(30) DEF IInv, TypeOK
    <2>2. CASE q # p
        <3>1. pc'[q] = pc[q] /\ buf'[q] = buf[q] /\ note'[q] = note[q] /\ buf[q] # b
            BY <1>3, <1>5, <2>2, Zenon DEF IInv, TypeOK
        <3>2. pc[q] # "out" => buf[q] \in Bufs
            BY Working, Zenon
        <3>3. pc[q] # "out" => /\ blockno'[buf[q]] = blockno[buf[q]]
                               /\ valid'[buf[q]] = valid[buf[q]]
            BY <1>3, <3>1, <3>2, Zenon DEF IInv, TypeOK
        <3>4. QED
            BY <1>3, <3>1, <3>3 DEF IInv, HoldInv
    <2>3. QED
        BY <2>1, <2>2, Zenon
<1>13. DataInv'
    BY <1>1, <1>2, <1>3 DEF IInv, TypeOK, DataInv
<1>14. QED
    BY <1>7, <1>8, <1>9, <1>10, <1>11, <1>12, <1>13 DEF IInv

\* acquiresleep(&b->lock) (bio.c:71, 85).
LEMMA LockStep == ASSUME IInv, NEW p \in Procs, acquiresleep(p) PROVE IInv'
<1> DEFINE b == buf[p]
<1>1. b \in Bufs /\ pc[p] = "lock" /\ lock[b] = None /\ None \notin Procs
    BY Working, BioAssumption, Zenon DEF acquiresleep
<1>2. /\ lock' = [lock EXCEPT ![b] = p] /\ pc' = [pc EXCEPT ![p] = "read"]
      /\ UNCHANGED <<disk, next, prev, blockno, valid, refcnt, data, buf, note, pinned>>
    BY Zenon DEF acquiresleep, list
<1>3. TypeOK'
    BY <1>1, <1>2, Zenon DEF IInv, TypeOK
<1>4. OneBuffer' /\ RingInv' /\ PinInv' /\ RefInv'
    BY <1>2, Zenon DEF IInv, OneBuffer, RingInv, PinInv, RefInv
<1>5. HoldInv'
    BY <1>1, <1>2 DEF IInv, TypeOK, HoldInv
<1>6. DataInv'
    BY <1>1, <1>2 DEF IInv, TypeOK, DataInv
<1>7. QED
    BY <1>3, <1>4, <1>5, <1>6, Zenon DEF IInv

\* The lock of its buffer makes a process the only one that has it.
LEMMA Alone ==
    ASSUME IInv, NEW p \in Procs, pc[p] \in {"read", "has"}, NEW q \in Procs,
           pc[q] \in {"read", "has"}, blockno[buf[q]] = blockno[buf[p]]
    PROVE  q = p
<1>1. /\ buf[p] \in Bufs /\ blockno[buf[p]] \in Blocks /\ lock[buf[p]] = p
      /\ buf[q] \in Bufs /\ lock[buf[q]] = q
    BY Working DEF IInv, HoldInv
<1>2. buf[q] = buf[p]
    BY <1>1, BioAssumption, Zenon DEF IInv, OneBuffer
<1>3. QED
    BY <1>1, <1>2, ZenonT(30)

\* bread() fills the buffer from the card unless it is valid (bio.c:98-102).
LEMMA ReadStep == ASSUME IInv, NEW p \in Procs, bread(p) PROVE IInv'
<1> DEFINE b == buf[p]
<1>1. b \in Bufs /\ blockno[b] \in Blocks /\ pc[p] = "read" /\ note[p] = "clean"
    BY Working, Zenon DEF bread, IInv, HoldInv
<1>2. /\ data' = IF valid[b] THEN data ELSE [data EXCEPT ![b] = disk[blockno[b]]]
      /\ valid' = [valid EXCEPT ![b] = TRUE] /\ pc' = [pc EXCEPT ![p] = "has"]
      /\ UNCHANGED <<disk, next, prev, blockno, refcnt, lock, buf, note, pinned>>
    BY Zenon DEF bread, list
<1>3. TypeOK'
    BY <1>1, <1>2, Zenon DEF IInv, TypeOK
<1>4. OneBuffer' /\ RingInv' /\ PinInv' /\ RefInv'
    BY <1>2, Zenon DEF IInv, OneBuffer, RingInv, PinInv, RefInv
<1>5. \A c \in Bufs : c # b => data'[c] = data[c] /\ valid'[c] = valid[c]
    BY <1>1, <1>2, Zenon DEF IInv, TypeOK
<1>6. \A q \in Procs \ {p} : pc'[q] = pc[q] /\ (pc[q] = "has" => buf[q] \in Bufs \ {b})
    BY <1>1, <1>2, Alone, Working, Zenon DEF IInv, TypeOK
<1>7. HoldInv'
    <2> SUFFICES ASSUME NEW q \in Procs
                 PROVE  /\ buf[q] = 0 <=> pc'[q] = "out"
                        /\ pc'[q] # "out" => blockno[buf[q]] \in Blocks
                        /\ \A c \in Bufs : lock[c] = q <=> pc'[q] \in {"read", "has"} /\ buf[q] = c
                        /\ pc'[q] = "has" => valid'[buf[q]]
                        /\ pc'[q] \in {"out", "lock", "read"} => note[q] = "clean"
                        /\ pc'[q] = "has" /\ note[q] = "written"
                             => data'[buf[q]] = disk[blockno[buf[q]]]
        BY <1>2, SMTT(30) DEF HoldInv
    <2>1. CASE q = p
        BY <1>1, <1>2, <2>1, SMTT(30) DEF IInv, TypeOK, HoldInv
    <2>2. CASE q # p
        <3>1. pc'[q] = pc[q] /\ (pc[q] = "has" => valid'[buf[q]] = valid[buf[q]]
                                                 /\ data'[buf[q]] = data[buf[q]])
            BY <1>5, <1>6, <2>2, ZenonT(30)
        <3>2. /\ buf[q] = 0 <=> pc[q] = "out"
              /\ pc[q] # "out" => blockno[buf[q]] \in Blocks
              /\ \A c \in Bufs : lock[c] = q <=> pc[q] \in {"read", "has"} /\ buf[q] = c
              /\ pc[q] = "has" => valid[buf[q]]
              /\ pc[q] \in {"out", "lock", "read"} => note[q] = "clean"
              /\ pc[q] = "has" /\ note[q] = "written" => data[buf[q]] = disk[blockno[buf[q]]]
            BY Zenon DEF IInv, HoldInv
        <3>3. QED
            BY <3>1, <3>2, ZenonT(30)
    <2>3. QED
        BY <2>1, <2>2, Zenon
<1>8. DataInv'
    <2> SUFFICES ASSUME NEW c \in Bufs, valid'[c]
                 PROVE  /\ blockno[c] \in Blocks
                        /\ \/ data'[c] = disk[blockno[c]]
                           \/ blockno[c] \in pinned
                           \/ \E q \in Procs : pc'[q] = "has" /\ buf[q] = c /\ note[q] = "changed"
        BY <1>2, SMTT(30) DEF DataInv
    <2>1. \A q \in Procs : pc[q] = "has" => pc'[q] = "has"
        BY <1>2, Zenon DEF IInv, TypeOK
    <2>2. CASE c = b /\ ~valid[b]
        BY <1>1, <1>2, <2>2, ZenonT(30) DEF IInv, TypeOK
    <2>3. CASE c # b \/ valid[b]
        BY <1>2, <1>5, <2>1, <2>3 DEF IInv, DataInv
    <2>4. QED
        BY <2>2, <2>3, ZenonT(30)
<1>9. QED
    BY <1>3, <1>4, <1>7, <1>8 DEF IInv

\* A process changes the buffer it has locked.
LEMMA ChangeStep == ASSUME IInv, NEW p \in Procs, NEW d \in Data, Change(p, d) PROVE IInv'
<1> DEFINE b == buf[p]
<1>1. b \in Bufs /\ blockno[b] \in Blocks /\ pc[p] = "has"
    BY Working, Zenon DEF Change
<1>2. /\ data' = [data EXCEPT ![b] = d] /\ note' = [note EXCEPT ![p] = "changed"]
      /\ UNCHANGED <<disk, next, prev, blockno, valid, refcnt, lock, pc, buf, pinned>>
    BY Zenon DEF Change, list
<1>3. TypeOK'
    BY <1>1, <1>2, Zenon DEF IInv, TypeOK
<1>4. OneBuffer' /\ RingInv' /\ PinInv' /\ RefInv'
    BY <1>2, Zenon DEF IInv, OneBuffer, RingInv, PinInv, RefInv
<1>5. /\ \A c \in Bufs \ {b} : data'[c] = data[c]
      /\ note'[p] = "changed" /\ \A q \in Procs \ {p} : note'[q] = note[q]
    BY <1>1, <1>2, Zenon DEF IInv, TypeOK
<1>6. \A q \in Procs \ {p} : pc[q] = "has" => buf[q] \in Bufs \ {b}
    BY <1>1, Alone, Working, ZenonT(30)
<1>7. HoldInv'
    BY <1>1, <1>2, <1>5, <1>6, SMTT(30) DEF IInv, HoldInv
<1>8. DataInv'
    BY <1>1, <1>2, <1>5, SMTT(30) DEF IInv, DataInv
<1>9. QED
    BY <1>3, <1>4, <1>7, <1>8, Zenon DEF IInv

\* bwrite() copies the locked buffer to the card (bio.c:107-113).
LEMMA WriteStep == ASSUME IInv, NEW p \in Procs, bwrite(p) PROVE IInv'
<1> DEFINE b == buf[p]
           n == blockno[b]
<1>1. b \in Bufs /\ n \in Blocks /\ pc[p] = "has" /\ n # None
    BY Working, BioAssumption, Zenon DEF bwrite
<1>2. /\ disk' = [disk EXCEPT ![n] = data[b]] /\ note' = [note EXCEPT ![p] = "written"]
      /\ UNCHANGED <<next, prev, blockno, valid, refcnt, lock, data, pc, buf, pinned>>
    BY Zenon DEF bwrite, list
<1>3. TypeOK'
    BY <1>1, <1>2, Zenon DEF IInv, TypeOK
<1>4. OneBuffer' /\ RingInv' /\ PinInv' /\ RefInv'
    BY <1>2, Zenon DEF IInv, OneBuffer, RingInv, PinInv, RefInv
<1>5. /\ disk'[n] = data[b] /\ \A m \in Blocks \ {n} : disk'[m] = disk[m]
      /\ note'[p] = "written" /\ \A q \in Procs \ {p} : note'[q] = note[q]
    BY <1>1, <1>2, Zenon DEF IInv, TypeOK
<1>6. \A q \in Procs \ {p} : pc[q] = "has" => blockno[buf[q]] # n /\ buf[q] # b
    BY <1>1, Alone, Working, ZenonT(30)
<1>7. HoldInv'
    BY <1>1, <1>2, <1>5, <1>6, SMTT(30) DEF IInv, HoldInv
<1>8. DataInv'
    <2> SUFFICES ASSUME NEW c \in Bufs, valid[c]
                 PROVE  /\ blockno[c] \in Blocks
                        /\ \/ data[c] = disk'[blockno[c]]
                           \/ blockno[c] \in pinned
                           \/ \E q \in Procs : pc[q] = "has" /\ buf[q] = c /\ note'[q] = "changed"
        BY <1>2, SMTT(30) DEF DataInv
    <2>1. CASE c = b
        BY <1>1, <1>5, <2>1, Zenon
    <2>2. CASE c # b
        <3>1. blockno[c] \in Blocks /\ blockno[c] # n
            BY <1>1, <2>2 DEF IInv, DataInv, OneBuffer
        <3>2. QED
            BY <1>5, <1>6, <2>2, <3>1 DEF IInv, DataInv
    <2>3. QED
        BY <2>1, <2>2, Zenon
<1>9. QED
    BY <1>3, <1>4, <1>7, <1>8 DEF IInv
=============================================================================
