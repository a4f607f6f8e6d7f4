----------------------------- MODULE LogProofs ------------------------------
(***************************************************************************)
(* Theorems about Log for every finite set of processes, every set of      *)
(* blocks and of block contents, and every size of the log.                *)
(***************************************************************************)
EXTENDS LogStepProofs

\* A round of write_log() (log.c:184-191) keeps the invariant.
LEMMA WriteLogInv ==
    ASSUME IInv, NEW p \in Procs, write_log(p)
    PROVE  IInv'
<1> USE SizeAssumption DEF IInv
<1> USE DEF write_log, memory
<1>1. lh[tail] \in Blocks /\ tail \in Slots /\ tail \in DOMAIN lh
  BY DEF TypeOK, Slots
<1>2. TypeOK' /\ (Distinct(lh) /\ Distinct(head))'
  BY <1>1 DEF TypeOK, Distinct
<1>3. BootInv' /\ HoldInv'
  BY ZenonT(30) DEF BootInv, HoldInv
<1>4. CommitInv'
  BY Zenon DEF CommitInv, InOp
<1>5. /\ Writing /\ ~Installing /\ ~Installing' /\ ~Finishing'
  BY DEF CommitInv, CommitSteps, Writing, Installing, Finishing
<1>6. Pinned' = Pinned
  BY <1>5, Zenon DEF Pinned
<1>7. \A i \in DOMAIN lh : i < tail + 1 => logarea'[i] = cache[lh[i]]
  <2> TAKE i \in DOMAIN lh
  <2>1. i \in Slots /\ i \in Nat
    BY DEF TypeOK, Slots
  <2>2. i < tail => logarea[i] = cache[lh[i]]
    BY <1>5 DEF StepInv
  <2> QED
    BY <1>1, <2>1, <2>2 DEF TypeOK
<1>8. StepInv'
  BY <1>5, <1>7, Zenon DEF StepInv
<1>9. CleanInv'
  BY <1>6, Zenon DEF CleanInv, Held
<1> QED
  BY <1>2, <1>3, <1>4, <1>8, <1>9, Zenon

\* The commit point (log.c:199) keeps the invariant.
LEMMA WriteHeadInv ==
    ASSUME IInv, NEW p \in Procs, write_head(p)
    PROVE  IInv'
<1> USE SizeAssumption DEF IInv
<1> USE DEF write_head, memory
<1>1. TypeOK' /\ (Distinct(lh) /\ Distinct(head))'
  BY DEF TypeOK, CommitSteps, Distinct
<1>2. /\ pc'[p] = "install"
      /\ \A q \in Procs \ {p} : pc'[q] = pc[q] /\ pc[q] \notin CommitSteps
  BY Zenon DEF TypeOK, CommitInv, CommitSteps
<1>3. boot = "up" /\ InOp' = InOp
  BY <1>2, Zenon DEF BootInv, InOp
<1>4. \A q \in Procs : pc'[q] \in CommitSteps <=> pc[q] \in CommitSteps
  BY <1>2, Zenon DEF CommitSteps
<1>5. BootInv' /\ CommitInv'
  BY <1>3, <1>4, Zenon DEF BootInv, CommitInv
<1>6. Writing /\ ~Installing /\ Installing' /\ ~Writing' /\ ~Finishing'
  BY <1>2, Zenon DEF CommitSteps, Writing, Installing, Finishing
<1>7. \A i \in DOMAIN lh : i \in Nat /\ i < tail /\ ~(i < 1)
  BY DEF TypeOK
<1>8. StepInv'
  BY <1>6, <1>7, Zenon DEF StepInv
<1>9. Pinned' = Pinned
  BY <1>6, <1>7, Zenon DEF Pinned
<1>10. HoldInv'
  BY <1>2, Zenon DEF HoldInv
<1>11. CleanInv'
  BY <1>9, Zenon DEF CleanInv, Held
<1> QED
  BY <1>1, <1>5, <1>8, <1>10, <1>11, Zenon

\* A round of install_trans(0) (log.c:71-83) keeps the invariant.
LEMMA InstallTransInv ==
    ASSUME IInv, NEW p \in Procs, install_trans(p)
    PROVE  IInv'
<1> USE SizeAssumption DEF IInv
<1> USE DEF install_trans
<1>1. /\ lh[tail] \in Blocks /\ tail \in Slots /\ tail \in DOMAIN lh
      /\ tail \in Nat
  BY DEF TypeOK, Slots
<1>2. /\ boot = "up" /\ Installing /\ Installing' /\ ~Writing' /\ ~Finishing'
  BY Zenon DEF BootInv, Writing, Installing, Finishing, CommitInv, CommitSteps
<1>3. /\ head = lh
      /\ \A i \in DOMAIN lh : logarea[i] = cache[lh[i]]
      /\ \A i \in DOMAIN lh : i < tail => home[lh[i]] = logarea[i]
  BY <1>2, Zenon DEF StepInv
<1>4. cache' = cache
  BY <1>1, <1>3, ZenonT(30) DEF TypeOK
<1>5. \A i \in DOMAIN lh : i \in Nat /\ lh[i] \in Blocks
  BY DEF TypeOK
<1>6. \A i \in DOMAIN lh : lh[i] = lh[tail] => i = tail
  BY <1>1 DEF Distinct
<1>7. lh[tail] \in Pinned /\ Pinned' = Pinned \ {lh[tail]}
  <2>1. \A i \in DOMAIN lh : ~(i < tail + 1) <=> ~(i < tail) /\ i # tail
    BY <1>1, <1>5
  <2>2. lh[tail] \in Pinned
    BY <1>1, <1>2 DEF Pinned
  <2>3. Pinned' = {lh[i] : i \in {j \in DOMAIN lh : ~(j < tail) /\ j # tail}}
    BY <1>2, <2>1, Zenon DEF Pinned
  <2> QED
    BY <1>2, <1>6, <2>2, <2>3, Zenon DEF Pinned
<1>8. pins[lh[tail]] = 1
  BY <1>1, <1>2, <1>7, Zenon DEF CleanInv
<1>9. /\ pins' \in [Blocks -> Nat]
      /\ pins'[lh[tail]] = 0
      /\ \A b \in Blocks \ {lh[tail]} : pins'[b] = pins[b]
  BY <1>1, <1>8, SMTT(30) DEF TypeOK
<1>10. /\ home' \in [Blocks -> Data]
       /\ home'[lh[tail]] = cache[lh[tail]]
       /\ \A b \in Blocks \ {lh[tail]} : home'[b] = home[b]
  BY <1>1, <1>3, ZenonT(30) DEF TypeOK
<1>11. TypeOK' /\ (Distinct(lh) /\ Distinct(head))'
  BY <1>4, <1>9, <1>10, SMTT(30) DEF TypeOK, Distinct
<1>12. BootInv' /\ HoldInv'
  BY <1>2, Zenon DEF BootInv, HoldInv
<1>13. CommitInv'
  BY Zenon DEF CommitInv, InOp
<1>14. \A i \in DOMAIN lh : i < tail + 1 => home'[lh[i]] = logarea[i]
  BY <1>1, <1>3, <1>5, <1>6, <1>10, SMTT(30)
<1>15. StepInv'
  BY <1>2, <1>3, <1>4, <1>14, SMTT(30) DEF StepInv
<1>16. CleanInv'
  BY <1>1, <1>2, <1>4, <1>7, <1>9, <1>10, ZenonT(30) DEF CleanInv, Held
<1> QED
  BY <1>11, <1>12, <1>13, <1>15, <1>16, Zenon

\* Erasing the committed transaction (log.c:201-202) keeps the invariant.
LEMMA EraseInv ==
    ASSUME IInv, NEW p \in Procs, erase(p)
    PROVE  IInv'
<1> USE SizeAssumption DEF IInv
<1> USE DEF erase
<1>1. TypeOK' /\ (Distinct(lh) /\ Distinct(head))'
  BY DEF TypeOK, CommitSteps, Distinct
<1>2. /\ pc'[p] = "finish"
      /\ \A q \in Procs \ {p} : pc'[q] = pc[q] /\ pc[q] \notin CommitSteps
  BY Zenon DEF TypeOK, CommitInv, CommitSteps
<1>3. boot = "up" /\ InOp' = InOp
  BY <1>2, Zenon DEF BootInv, InOp
<1>4. \A q \in Procs : pc'[q] \in CommitSteps <=> pc[q] \in CommitSteps
  BY <1>2, Zenon DEF CommitSteps
<1>5. BootInv' /\ CommitInv'
  BY <1>3, <1>4, Zenon DEF BootInv, CommitInv
<1>6. Installing /\ ~Installing' /\ ~Writing'
  BY <1>2, Zenon DEF CommitSteps, Writing, Installing
<1>7. StepInv'
  BY <1>6, Zenon DEF StepInv
<1>8. \A i \in DOMAIN lh : i < tail
  BY DEF TypeOK
<1>9. Pinned = {}
  BY <1>6, <1>8, Zenon DEF Pinned
<1>10. Pinned' = {}
  BY DEF Pinned
<1>11. HoldInv'
  BY <1>2, Zenon DEF HoldInv
<1>12. CleanInv'
  BY <1>9, <1>10, Zenon DEF CleanInv, Held
<1> QED
  BY <1>1, <1>5, <1>7, <1>11, <1>12, Zenon

-----------------------------------------------------------------------------
(* The room that begin_op() reserves is never given away.                  *)

\* The room reserved is finite.
LEMMA ReserveFinite ==
    IsFiniteSet(Reserve) /\ Cardinality(Reserve) \in Nat
<1>1. IsFiniteSet(InOp) /\ IsFiniteSet(1 .. MAXOPBLOCKS)
  BY InOpFinite, FS_Interval, SizeAssumption
<1>2. IsFiniteSet(InOp \X (1 .. MAXOPBLOCKS))
  BY <1>1, FS_Product, Zenon
<1>3. Reserve \in SUBSET (InOp \X (1 .. MAXOPBLOCKS))
  BY DEF Reserve
<1> QED
  BY <1>2, <1>3, FS_Subset, FS_CardinalityType, Zenon

\* What a call has in the log is finite, and at most what it wrote.
LEMMA DoneFinite ==
    ASSUME CallInv, NEW p \in InOp
    PROVE  /\ IsFiniteSet(Done(p)) /\ Cardinality(Done(p)) \in Nat
           /\ Cardinality(Done(p)) <= OpBlocks
<1>1. IsFiniteSet(wrote[p]) /\ Cardinality(wrote[p]) <= OpBlocks
  BY Zenon DEF CallInv
<1>2. /\ IsFiniteSet(Done(p)) /\ Cardinality(Done(p)) <= Cardinality(wrote[p])
  BY <1>1, FS_Intersection, Zenon DEF Done
<1>3. Cardinality(Done(p)) \in Nat /\ Cardinality(wrote[p]) \in Nat
  BY <1>1, <1>2, FS_CardinalityType, Zenon
<1> QED
  BY <1>1, <1>2, <1>3, SizeAssumption

\* A step that starts no call and takes nothing out of the log reserves nothing.
LEMMA ReserveShrinks ==
    ASSUME CallInv, CallInv', InOp' \subseteq InOp, Elems(lh) \subseteq Elems(lh)',
           \A p \in InOp' : wrote[p] \subseteq wrote'[p]
    PROVE  Reserve' \subseteq Reserve
<1>1. \A p \in InOp' : Cardinality(Done(p)) <= Cardinality(Done(p)')
  <2> TAKE p \in InOp'
  <2>1. IsFiniteSet(Done(p)') 
    <3>1. IsFiniteSet(wrote'[p])
      BY DEF CallInv
    <3> QED
      BY <3>1, FS_Intersection, Zenon DEF Done
  <2>2. Done(p) \in SUBSET (Done(p)')
    BY DEF Done
  <2> QED
    BY <2>1, <2>2, FS_Subset, Zenon
<1>2. \A p \in InOp' : Cardinality(Done(p)) \in Nat /\ Cardinality(Done(p)') \in Nat
  <2> TAKE p \in InOp'
  <2>1. Cardinality(Done(p)) \in Nat
    BY DoneFinite, Zenon
  <2>2. IsFiniteSet(wrote'[p])
    BY DEF CallInv
  <2> QED
    BY <2>1, <2>2, FS_Intersection, FS_CardinalityType, Zenon DEF Done
<1> QED
  BY <1>1, <1>2 DEF Reserve

\* Such a step keeps the room if it appends nothing.
LEMMA ReserveKept ==
    ASSUME ReserveInv, CallInv', InOp' \subseteq InOp, lh' = lh, IInv,
           \A p \in InOp' : wrote[p] \subseteq wrote'[p]
    PROVE  ReserveInv'
<1>1. Reserve' \in SUBSET Reserve
  BY ReserveShrinks, Zenon DEF ReserveInv
<1>2. Cardinality(Reserve') <= Cardinality(Reserve) /\ Cardinality(Reserve') \in Nat
  BY <1>1, ReserveFinite, FS_Subset, FS_CardinalityType, Zenon
<1>3. Len(lh) \in Nat /\ Cardinality(Reserve) \in Nat
  BY ReserveFinite DEF IInv, TypeOK
<1> QED
  BY <1>2, <1>3, SizeAssumption DEF ReserveInv

\* With no call under way nothing is reserved.
LEMMA ReserveNone ==
    ASSUME InOp' = {}, Len(lh') \in Nat, Len(lh') <= LOGBLOCKS
    PROVE  ReserveInv'
<1>1. Reserve' = {}
  BY DEF Reserve
<1>2. Cardinality(Reserve') = 0
  BY <1>1, FS_EmptySet, Zenon
<1> QED
  BY <1>2 DEF ReserveInv, CallInv

\* begin_op() lets a call in when the log has room for it and for all others.
LEMMA BeginOpReserve ==
    ASSUME IInv, ReserveInv, NEW p \in Procs, begin_op(p)
    PROVE  ReserveInv'
<1> USE DEF IInv
<1>1. CASE pc' = [pc EXCEPT ![p] = "asleep"] /\ UNCHANGED wrote
  <2>1. InOp' = InOp /\ UNCHANGED <<lh, buf>>
    BY <1>1, Zenon DEF TypeOK, begin_op, InOp
  <2>2. CallInv'
    BY <1>1, <2>1, Zenon DEF ReserveInv, CallInv
  <2> QED
    BY <1>1, <2>1, <2>2, ReserveKept, Zenon
<1>2. CASE /\ ~LogFull /\ pc' = [pc EXCEPT ![p] = "op"] /\ UNCHANGED <<lh, buf>>
           /\ wrote' = [wrote EXCEPT ![p] = {}]
  <2>1. p \notin InOp /\ InOp' = InOp \cup {p} /\ buf[p] = {}
    BY <1>2, ZenonT(30) DEF TypeOK, begin_op, InOp, HoldInv
  <2>2. Cardinality(InOp') = outstanding + 1 /\ IsFiniteSet(InOp')
    BY <2>1, InOpFinite, FS_AddElement DEF CommitInv
  <2>3. CallInv'
    <3>1. IsFiniteSet({}) /\ Cardinality({}) <= OpBlocks
      BY FS_EmptySet, SizeAssumption
    <3> QED
      BY <1>2, <2>1, <3>1 DEF ReserveInv, CallInv, TypeOK
  <2>4. Cardinality(1 .. MAXOPBLOCKS) = MAXOPBLOCKS /\ IsFiniteSet(1 .. MAXOPBLOCKS)
    BY FS_Interval, SizeAssumption
  <2>5. /\ IsFiniteSet(InOp' \X (1 .. MAXOPBLOCKS))
        /\ Cardinality(InOp' \X (1 .. MAXOPBLOCKS)) = (outstanding + 1) * MAXOPBLOCKS
    BY <2>2, <2>4, FS_Product, ZenonT(30)
  <2>6. Reserve' \in SUBSET (InOp' \X (1 .. MAXOPBLOCKS))
    BY DEF Reserve
  <2>7. Cardinality(Reserve') <= (outstanding + 1) * MAXOPBLOCKS /\ Cardinality(Reserve') \in Nat
    BY <2>5, <2>6, FS_Subset, FS_CardinalityType
  <2>8. Len(lh) + (outstanding + 1) * MAXOPBLOCKS <= LOGBLOCKS
    BY <1>2, SizeAssumption DEF LogFull, TypeOK
  <2>9. Len(lh) \in Nat /\ (outstanding + 1) * MAXOPBLOCKS \in Nat
    BY SizeAssumption DEF TypeOK
  <2>10. Len(lh') + Cardinality(Reserve') <= LOGBLOCKS
    <3> HIDE DEF IInv
    <3> DEFINE room == (outstanding + 1) * MAXOPBLOCKS
    <3> HIDE DEF room
    <3>1. room \in Nat /\ Cardinality(Reserve') <= room /\ Len(lh) + room <= LOGBLOCKS
      BY <2>7, <2>8, <2>9, Zenon DEF room
    <3> QED
      BY <1>2, <2>7, <2>9, <3>1, SizeAssumption
  <2> QED
    BY <2>3, <2>10, Zenon DEF ReserveInv
<1> QED
  BY <1>1, <1>2, Zenon DEF begin_op

\* The caller's change of a block stays within what a call writes.
LEMMA ModifyReserve ==
    ASSUME IInv, ReserveInv, NEW p \in Procs, NEW b \in Blocks, NEW d \in Data,
           modify(p, b, d)
    PROVE  ReserveInv'
<1>1. /\ InOp' = InOp /\ p \in InOp /\ lh' = lh
      /\ wrote' = [wrote EXCEPT ![p] = @ \cup {b}] /\ buf' = [buf EXCEPT ![p] = {b}]
      /\ Cardinality(wrote[p] \cup {b}) <= OpBlocks
  BY Zenon DEF modify, InOp
<1>2. IsFiniteSet(wrote[p] \cup {b})
  BY <1>1, FS_AddElement, Zenon DEF ReserveInv, CallInv
<1>3. CallInv' /\ \A q \in InOp' : wrote[q] \subseteq wrote'[q]
  BY <1>1, <1>2 DEF ReserveInv, CallInv, IInv, TypeOK, InOp
<1> QED
  BY <1>1, <1>3, ReserveKept, Zenon

\* A block that log_write() appends was reserved.
LEMMA LogWriteReserve ==
    ASSUME IInv, ReserveInv, NEW p \in Procs, NEW b \in Blocks, log_write(p, b),
           OpBlocks < MAXOPBLOCKS
    PROVE  ReserveInv'
<1>1. /\ InOp' = InOp /\ p \in InOp /\ b \in buf[p]
      /\ wrote' = wrote /\ buf' = [buf EXCEPT ![p] = {}]
  BY Zenon DEF log_write, InOp, NoBuf
<1>2. CallInv' /\ b \in wrote[p]
  BY <1>1, Zenon DEF ReserveInv, CallInv, IInv, TypeOK, InOp
<1>3. CASE b \in Elems(lh)
  BY <1>1, <1>2, <1>3, ReserveKept, Zenon DEF log_write
<1>4. CASE b \notin Elems(lh)
  <2>1. /\ lh' = Append(lh, b) /\ Len(lh') = Len(lh) + 1
        /\ Elems(lh)' = Elems(lh) \cup {b}
    <3>1. lh' = Append(lh, b) /\ lh \in Seq(Blocks)
      BY <1>4, Zenon DEF log_write, IInv, TypeOK
    <3>2. Len(lh') = Len(lh) + 1 /\ Elems(lh') = Elems(lh) \cup {b}
      BY <3>1, AppendFacts, Zenon
    <3> QED
      BY <3>1, <3>2, Zenon DEF Elems
  <2>2. Reserve' \subseteq Reserve
    BY <1>1, <1>2, <2>1, ReserveShrinks, Zenon DEF ReserveInv
  <2> DEFINE n == Cardinality(Done(p))
  <2>3. n \in Nat /\ n <= OpBlocks /\ IsFiniteSet(Done(p))
    BY <1>1, DoneFinite, Zenon DEF ReserveInv
  <2>4. Cardinality(Done(p)') = n + 1
    <3>1. Done(p)' = Done(p) \cup {b} /\ b \notin Done(p)
      BY <1>1, <1>2, <1>4, <2>1, Zenon DEF Done
    <3> QED
      BY <2>3, <3>1, FS_AddElement, Zenon
  <2> HIDE DEF n
  <2>5. n + 1 \in 1 .. MAXOPBLOCKS
    BY <2>3, SizeAssumption
  <2>6. <<p, n + 1>> \in Reserve
    BY <1>1, <2>3, <2>5 DEF Reserve, n
  <2>7. <<p, n + 1>> \notin Reserve'
    <3>1. ASSUME <<p, n + 1>> \in Reserve' PROVE n + 1 > Cardinality(Done(p)')
      BY <3>1, Zenon DEF Reserve
    <3> QED
      BY <2>3, <2>4, <3>1
  <2>8. Reserve' \in SUBSET (Reserve \ {<<p, n + 1>>})
    BY <2>2, <2>7, Zenon
  <2>9. /\ IsFiniteSet(Reserve \ {<<p, n + 1>>})
        /\ Cardinality(Reserve \ {<<p, n + 1>>}) = Cardinality(Reserve) - 1
    BY <2>6, ReserveFinite, FS_RemoveElement, Zenon
  <2>10. Cardinality(Reserve') <= Cardinality(Reserve) - 1 /\ Cardinality(Reserve') \in Nat
    BY <2>8, <2>9, FS_Subset, FS_CardinalityType
  <2>11. Len(lh) \in Nat /\ Cardinality(Reserve) \in Nat
    BY ReserveFinite DEF IInv, TypeOK
  <2> QED
    BY <1>2, <2>1, <2>10, <2>11, SizeAssumption, SMTT(30) DEF ReserveInv
<1> QED
  BY <1>3, <1>4, Zenon

\* end_op() gives back what its call reserved.
LEMMA EndOpReserve ==
    ASSUME IInv, ReserveInv, NEW p \in Procs, end_op(p)
    PROVE  ReserveInv'
<1>1. UNCHANGED <<lh, buf, wrote>>
  BY Zenon DEF end_op
<1>2. InOp' \subseteq InOp
  BY WakeupTypes, Zenon DEF end_op, InOp, IInv, TypeOK, CommitSteps
<1>3. CallInv'
  BY <1>1, <1>2, Zenon DEF CallInv, ReserveInv
<1> QED
  BY <1>1, <1>2, <1>3, ReserveKept, Zenon

\* The other steps start no call and leave the log as it is, or run when there
\* is no call.
LEMMA ReserveStep ==
    ASSUME IInv, ReserveInv, [Next]_vars, IInv', OpBlocks < MAXOPBLOCKS
    PROVE  ReserveInv'
<1>1. ASSUME InOp' = InOp, UNCHANGED <<lh, buf, wrote>> PROVE ReserveInv'
  <2>1. CallInv'
    BY <1>1, Zenon DEF CallInv, ReserveInv
  <2> QED
    BY <1>1, <2>1, ReserveKept, Zenon
<1>2. Len(lh') \in Nat /\ Len(lh') <= LOGBLOCKS
  BY DEF IInv, TypeOK
<1>3. CASE Recovery
  <2>1. InOp' = {}
    BY <1>3, Zenon DEF Recovery, read_head, install_recovering, erase_recovered, IInv, BootInv, InOp
  <2> QED
    BY <1>2, <2>1, ReserveNone, Zenon
<1>4. CASE Crash
  <2>1. InOp' = {}
    BY <1>4, Zenon DEF Crash, InOp
  <2> QED
    BY <1>2, <2>1, ReserveNone
<1>5. ASSUME NEW b \in Blocks, bget_recycle(b) PROVE ReserveInv'
  BY <1>1, <1>5, Zenon DEF bget_recycle, InOp
<1>6. ASSUME NEW p \in Procs, syscall(p) \/ kkill(p) PROVE ReserveInv'
  BY <1>1, <1>6, Zenon DEF syscall, kkill, memory, InOp, IInv, TypeOK
<1>7. ASSUME NEW p \in Procs, commit(p) PROVE ReserveInv'
  <2>1. InOp = {}
    BY <1>7, Zenon DEF commit, write_log, write_head, install_trans, erase, finish, IInv, CommitInv,
                CommitSteps
  <2>2. CASE finish(p)
    <3>1. InOp' = {}
      BY <2>1, <2>2, WakeupTypes, Zenon DEF finish, IInv, InOp
    <3> QED
      BY <1>2, <3>1, ReserveNone, Zenon
  <2>3. CASE ~finish(p)
    <3>1. InOp' = {}
      <4>1. pc \in [Procs -> {"out", "begin", "asleep", "op"} \cup CommitSteps]
        BY Zenon DEF IInv, TypeOK
      <4>2. \A q \in Procs : pc'[q] = pc[q] \/ pc'[q] # "op"
        BY <1>7, <2>3, <4>1 DEF commit, write_log, write_head, install_trans, erase
      <4> QED
        BY <2>1, <4>2, Zenon DEF InOp
    <3> QED
      BY <1>2, <3>1, ReserveNone
  <2> QED
    BY <2>2, <2>3, Zenon
<1>8. CASE UNCHANGED vars
  BY <1>1, <1>8, Zenon DEF vars, memory, InOp
<1> QED
  BY <1>3, <1>4, <1>5, <1>6, <1>7, <1>8, BeginOpReserve, ModifyReserve, LogWriteReserve,
     EndOpReserve, Zenon DEF Next

-----------------------------------------------------------------------------
\* Every step of the log, of its callers and of a crash keeps the invariant.
LEMMA IInvStep == IInv /\ [Next]_vars => IInv'
<1> SUFFICES ASSUME IInv, [Next]_vars PROVE IInv'
  OBVIOUS
<1>1. CASE Recovery
  BY <1>1, ReadHeadInv, InstallRecoveringInv, EraseRecoveredInv, Zenon DEF Recovery
<1>2. ASSUME NEW p \in Procs, syscall(p) \/ begin_op(p) \/ end_op(p) \/ kkill(p) PROVE IInv'
  BY <1>2, SyscallInv, BeginOpInv, EndOpInv, KkillInv, Zenon
<1>3. ASSUME NEW p \in Procs, commit(p) PROVE IInv'
  BY <1>3, WriteLogInv, WriteHeadInv, InstallTransInv, EraseInv, FinishInv, Zenon DEF commit
<1>4. ASSUME NEW p \in Procs, NEW b \in Blocks,
             log_write(p, b) \/ \E d \in Data : modify(p, b, d)
      PROVE  IInv'
  BY <1>4, LogWriteInv, ModifyInv, Zenon
<1>5. CASE Crash \/ \E b \in Blocks : bget_recycle(b)
  BY <1>5, BgetRecycleInv, CrashInv, Zenon
<1>6. CASE UNCHANGED vars
  BY <1>6, IInvStutter, Zenon
<1> QED
  BY <1>1, <1>2, <1>3, <1>4, <1>5, <1>6, Zenon DEF Next

\* IInv holds in every reachable state.
THEOREM IInvHolds == Spec => []IInv
  BY IInvInit, IInvStep, PTL DEF Spec

\* Every variable keeps its type; pins and log.outstanding never go negative.
THEOREM TypeCorrect == Spec => []TypeOK
<1>1. IInv => TypeOK
  BY DEF IInv
<1> QED
  BY <1>1, IInvHolds, PTL

\* end_op() never meets a commit under way and log_write() never runs
\* outside a transaction: of the panics of log.c only "too big a
\* transaction" is left to the sizes chosen in param.h.
OnlyTooBig ==
    \A p \in Procs : /\ buf[p] # {} => ~OutsideOfTrans
                     /\ pc[p] = "op" => ~committing

\* log.c:155 and 224 are never reached, whatever the sizes.
THEOREM OnlyTooBigHolds == Spec => []OnlyTooBig
<1>1. ASSUME IInv, NEW p \in Procs, pc[p] = "op"
      PROVE  ~OutsideOfTrans /\ ~committing
  <2>1. p \in InOp
    BY <1>1, Zenon DEF InOp
  <2>2. Cardinality(InOp) # 0 /\ Cardinality(InOp) \in Nat
    BY <2>1, InOpFinite, FS_EmptySet, Zenon
  <2> QED
    BY <1>1, <2>1, <2>2 DEF IInv, CommitInv, OutsideOfTrans
<1>2. IInv => OnlyTooBig
  BY <1>1 DEF IInv, HoldInv, OnlyTooBig
<1> QED
  BY <1>2, IInvHolds, PTL

\* While every call writes fewer blocks than begin_op() reserves for it, none
\* of the panics of log_write() and end_op() (log.c:155, 222, 224) is reached,
\* for any size of the log and any number of processes. Fewer, because
\* log_write() tests for a full log before it looks for the block in it.
THEOREM NoLogPanicHolds ==
    ASSUME OpBlocks < MAXOPBLOCKS
    PROVE  Spec => []NoLogPanic
<1>1. Init => ReserveInv
  <2> SUFFICES ASSUME Init PROVE ReserveInv
    BY Zenon
  <2>1. InOp = {} /\ Len(lh) = 0
    BY DEF Init, InOp
  <2>2. Cardinality(Reserve) = 0
    BY <2>1, FS_EmptySet, Zenon DEF Reserve
  <2> QED
    BY <2>1, <2>2, SizeAssumption DEF ReserveInv, CallInv
<1>2. IInv /\ ReserveInv /\ [Next]_vars => ReserveInv'
  BY IInvStep, ReserveStep, Zenon
<1>3. ASSUME IInv, ReserveInv PROVE NoLogPanic
  <2> SUFFICES ASSUME NEW p \in Procs, pc[p] = "op"
               PROVE  ~TooBig /\ ~OutsideOfTrans /\ ~committing
    BY <1>3, Zenon DEF IInv, HoldInv, NoLogPanic
  <2>1. p \in InOp
    BY Zenon DEF InOp
  <2>2. ~OutsideOfTrans /\ ~committing
    <3>1. Cardinality(InOp) # 0 /\ Cardinality(InOp) \in Nat
      BY <2>1, InOpFinite, FS_EmptySet, Zenon
    <3> QED
      BY <1>3, <2>1, <3>1 DEF IInv, CommitInv, OutsideOfTrans
  <2>3. Cardinality(Done(p)) \in Nat /\ Cardinality(Done(p)) <= OpBlocks
    BY <1>3, <2>1, DoneFinite, Zenon DEF ReserveInv
  <2>4. <<p, MAXOPBLOCKS>> \in Reserve
    BY <2>1, <2>3, SizeAssumption DEF Reserve
  <2>5. Cardinality(Reserve) # 0 /\ Cardinality(Reserve) \in Nat
    BY <2>4, ReserveFinite, FS_EmptySet, Zenon
  <2> QED
    <3>1. lh \in Seq(Blocks) /\ Len(lh) + Cardinality(Reserve) <= LOGBLOCKS
      BY <1>3, Zenon DEF ReserveInv, IInv, TypeOK
    <3>2. Len(lh) \in Nat /\ LOGBLOCKS \in Nat
      BY <3>1, SizeAssumption
    <3>3. ~(Len(lh) >= LOGBLOCKS)
      BY <2>5, <3>1, <3>2
    <3> QED
      BY <2>2, <3>3, Zenon DEF TooBig
<1> QED
  BY <1>1, <1>2, <1>3, IInvHolds, PTL DEF Spec

-----------------------------------------------------------------------------
(* What recovery brings back.                                              *)

\* Recovery yields f when the log blocks carry f for the blocks the header
\* names and the other blocks carry it at home.
LEMMA RecoverIs ==
    ASSUME NEW hd \in Seq(Blocks), Distinct(hd), NEW area, NEW blocks,
           NEW f \in [Blocks -> Data],
           \A i \in DOMAIN hd : area[i] = f[hd[i]],
           \A b \in Blocks : b \notin Elems(hd) => blocks[b] = f[b]
    PROVE  Recover(hd, area, blocks) = f
<1>1. ASSUME NEW b \in Blocks, b \in Elems(hd)
      PROVE  area[CHOOSE i \in DOMAIN hd : hd[i] = b] = f[b]
  <2>1. \E i \in DOMAIN hd : hd[i] = b
    BY <1>1, Zenon DEF Elems
  <2> QED
    BY <2>1, Zenon
<1>2. ASSUME NEW b \in Blocks
      PROVE  Recover(hd, area, blocks)[b] = f[b]
  <2>1. CASE b \in Elems(hd)
    BY <1>1, <2>1, Zenon DEF Recover
  <2>2. CASE b \notin Elems(hd)
    BY <2>2, Zenon DEF Recover
  <2> QED
    BY <2>1, <2>2, Zenon
<1>3. Recover(hd, area, blocks) = [b \in Blocks |-> Recover(hd, area, blocks)[b]]
  BY DEF Recover
<1> QED
  BY <1>2, <1>3, Zenon

\* With an empty header recovery changes no block.
LEMMA RecoverErased ==
    ASSUME NEW area, NEW blocks \in [Blocks -> Data]
    PROVE  Recover(<< >>, area, blocks) = blocks
  BY DEF Recover, Elems

\* What the blocks named by the header hold at home does not matter.
LEMMA RecoverSame ==
    ASSUME NEW hd, NEW area, NEW f, NEW g,
           \A b \in Blocks : b \notin Elems(hd) => f[b] = g[b]
    PROVE  Recover(hd, area, f) = Recover(hd, area, g)
  BY DEF Recover

\* No call under way and nothing logged: every buffer agrees with the card.
LEMMA CleanCache ==
    ASSUME IInv, boot = "up", Pinned = {}, \A p \in Procs : buf[p] = {}
    PROVE  cache = home
  BY DEF IInv, CleanInv, Held, TypeOK

\* The step on which the committing process leaves end_op() leaves the card
\* with all that the buffer cache shows.
THEOREM CommitDurableHolds == Spec => CommitDurable
<1>1. ASSUME IInv, [Next]_vars, NEW p \in Procs,
             pc[p] = "finish", pc'[p] = "out", boot' = "up"
      PROVE  Recovered' = cache'
  <2>1. finish(p)
    <3> USE <1>1 DEF TypeOK, IInv
    <3>1. CASE \E q \in Procs : finish(q)
      <4>1. PICK q \in Procs : finish(q)
        BY <3>1, ZenonT(30)
      <4> QED
        BY <4>1, WakeupTypes, ZenonT(30) DEF finish, CommitInv, CommitSteps
    <3>2. CASE \E q \in Procs : end_op(q)
      BY <3>2, ZenonT(30) DEF end_op, CommitInv, CommitSteps
    <3>3. CASE UNCHANGED vars
      BY <3>3, Zenon DEF vars
    <3>4. CASE Recovery \/ Crash \/ \E b \in Blocks : bget_recycle(b)
      BY <3>4, ZenonT(30) DEF Recovery, read_head, install_recovering, erase_recovered,
                  Crash, bget_recycle
    <3>5. CASE \E q \in Procs : syscall(q) \/ begin_op(q) \/ kkill(q)
      BY <3>5, ZenonT(30) DEF syscall, begin_op, kkill
    <3>6. CASE \E q \in Procs : write_log(q) \/ write_head(q)
                                \/ install_trans(q) \/ erase(q)
      BY <3>6, ZenonT(30) DEF write_log, write_head, install_trans, erase
    <3>7. CASE \E q \in Procs, b \in Blocks : log_write(q, b)
      BY <3>7, Zenon DEF log_write
    <3>8. CASE \E q \in Procs, b \in Blocks, d \in Data : modify(q, b, d)
      BY <3>8, ZenonT(30) DEF modify
    <3> HIDE <1>1 DEF TypeOK, IInv
    <3> QED
      BY <1>1, <3>1, <3>2, <3>3, <3>4, <3>5, <3>6, <3>7, <3>8, ZenonT(30) DEF Next, commit
  <2>2. /\ boot = "up" /\ lh = << >> /\ ~Installing
        /\ head = << >>
        /\ \A q \in Procs : buf[q] = {}
    BY <1>1, ZenonT(30) DEF IInv, BootInv, CommitInv, StepInv, HoldInv, CommitSteps,
                Installing, Finishing, InOp
  <2>3. Pinned = {}
    BY <2>2 DEF Pinned
  <2>4. cache = home
    BY <1>1, <2>2, <2>3, CleanCache, Zenon
  <2>5. head' = << >> /\ cache' = home'
    BY <2>1, <2>2, <2>4, Zenon DEF finish, disk
  <2>6. home' \in [Blocks -> Data]
    BY <1>1, <2>1, Zenon DEF finish, disk, IInv, TypeOK
  <2> QED
    BY <2>5, <2>6, RecoverErased, Zenon DEF Recovered
<1>2. IInv /\ [Next]_vars =>
        [\A p \in Procs : pc[p] = "finish" /\ pc'[p] = "out" /\ boot' = "up"
              => Recovered' = cache']_vars
  BY <1>1
<1> QED
  BY <1>2, IInvHolds, PTL DEF Spec, CommitDurable

\* bget() never discards a modification: a buffer with refcnt 0 is clean.
THEOREM RecycleInvisibleHolds == Spec => RecycleInvisible
<1>1. ASSUME IInv, NEW b \in Blocks, bget_recycle(b)
      PROVE  cache' = cache
  <2>1. cache[b] = home[b]
    BY <1>1 DEF IInv, BootInv, CleanInv, Held, bget_recycle
  <2> QED
    BY <1>1, <2>1, ZenonT(30) DEF bget_recycle, IInv, TypeOK
<1>2. IInv /\ [Next]_vars =>
        [\A b \in Blocks : bget_recycle(b) => cache' = cache]_vars
  BY <1>1, Zenon
<1> QED
  BY <1>2, IInvHolds, PTL DEF Spec, RecycleInvisible

-----------------------------------------------------------------------------
(* Log implements AtomicDisk.                                              *)

\* The card as mkfs leaves it is an initial state of AtomicDisk.
LEMMA RefinesInit == Init => A!AInit
<1> SUFFICES ASSUME Init PROVE A!AInit
  BY Zenon
<1>1. Recovered = home /\ home \in [Blocks -> Data]
  BY RecoverErased, Zenon DEF Init, Recovered
<1>2. Visible = Recovered /\ InOp = {}
  BY Zenon DEF Init, Visible, InOp
<1> QED
  BY <1>1, <1>2, Zenon DEF A!AInit

Stutter == UNCHANGED <<Recovered, Visible, InOp>>

\* read_head() (log.c:86-98) is invisible in AtomicDisk.
LEMMA ReadHeadRefines ==
    ASSUME IInv, read_head
    PROVE  Stutter
<1> USE DEF IInv, Stutter
<1> QED
  BY Zenon DEF read_head, disk, Recovered, Visible, InOp

\* A round of install_trans(1) (log.c:71-83) is invisible in AtomicDisk.
LEMMA InstallRecoveringRefines ==
    ASSUME IInv, install_recovering
    PROVE  Stutter
<1> USE DEF IInv, Stutter
<1>1. tail \in DOMAIN head /\ lh = head
  BY DEF install_recovering, BootInv, TypeOK
<1>2. Recovered' = Recovered
  <2>1. \A b \in Blocks : b \notin Elems(head) => home'[b] = home[b]
    BY <1>1, Zenon DEF install_recovering, Elems, TypeOK
  <2>2. UNCHANGED <<head, logarea>>
    BY Zenon DEF install_recovering
  <2> QED
    BY <2>1, <2>2, RecoverSame, ZenonT(30) DEF Recovered
<1> QED
  BY <1>2, ZenonT(30) DEF install_recovering, Visible, InOp

\* Erasing the log after recovery (log.c:122-123) is invisible in AtomicDisk.
LEMMA EraseRecoveredRefines ==
    ASSUME IInv, erase_recovered
    PROVE  Stutter
<1> USE DEF IInv, Stutter
<1>1. /\ head = lh /\ cache = home
      /\ \A i \in DOMAIN head : logarea[i] = home[head[i]]
  BY DEF erase_recovered, BootInv, TypeOK
<1>2. Recovered = home
  <2>1. head \in Seq(Blocks) /\ Distinct(head) /\ home \in [Blocks -> Data]
    BY Zenon DEF TypeOK
  <2> QED
    BY <1>1, <2>1, RecoverIs, SMTT(30) DEF Recovered
<1>3. Recovered' = home
  BY RecoverErased, ZenonT(30) DEF erase_recovered, Recovered, TypeOK
<1> QED
  BY <1>1, <1>2, <1>3, ZenonT(30) DEF erase_recovered, Visible, InOp

\* The start of a call is invisible in AtomicDisk.
LEMMA SyscallRefines ==
    ASSUME IInv, NEW p \in Procs, syscall(p)
    PROVE  Stutter
<1> USE DEF IInv, Stutter
<1> QED
  BY Zenon DEF syscall, disk, memory, Recovered, Visible, InOp, TypeOK

\* begin_op() (log.c:127-143) is a begin of AtomicDisk, or nothing.
LEMMA BeginOpRefines ==
    ASSUME IInv, NEW p \in Procs, begin_op(p)
    PROVE  Stutter \/ A!ABegin(p)
<1> USE DEF IInv, Stutter
<1>1. UNCHANGED <<Recovered, Visible>>
  BY Zenon DEF begin_op, disk, Recovered, Visible
<1>2. CASE committing \/ LogFull
  BY <1>1, <1>2, ZenonT(30) DEF begin_op, InOp, TypeOK
<1>3. CASE ~(committing \/ LogFull)
  <2>1. InOp' = InOp \cup {p} /\ p \notin InOp
    BY <1>3, ZenonT(30) DEF begin_op, InOp, TypeOK
  <2> QED
    BY <1>1, <2>1, Zenon DEF A!ABegin
<1> QED
  BY <1>2, <1>3, Zenon

\* Changing a locked buffer (log.c:206-214) is a write of AtomicDisk.
LEMMA ModifyRefines ==
    ASSUME IInv, NEW p \in Procs, NEW b \in Blocks, NEW d \in Data, modify(p, b, d)
    PROVE  A!AWrite(p, b, d)
<1> USE DEF IInv, Stutter
<1>1. boot = "up" /\ p \in InOp
  BY Zenon DEF modify, BootInv, InOp
<1> QED
  BY <1>1, ZenonT(30) DEF modify, disk, A!AWrite, Recovered, Visible, InOp

\* log_write() (log.c:215-236) is invisible in AtomicDisk.
LEMMA LogWriteRefines ==
    ASSUME IInv, NEW p \in Procs, NEW b \in Blocks, log_write(p, b)
    PROVE  Stutter
<1> USE DEF IInv, Stutter
<1> QED
  BY Zenon DEF log_write, disk, Recovered, Visible, InOp

\* end_op() up to the commit (log.c:147-165) is an end of AtomicDisk.
LEMMA EndOpRefines ==
    ASSUME IInv, NEW p \in Procs, end_op(p)
    PROVE  A!AEnd(p)
<1> USE DEF IInv, Stutter
<1>1. UNCHANGED <<Recovered, Visible>> /\ p \in InOp
  BY Zenon DEF end_op, disk, Recovered, Visible, InOp
<1>2. CASE outstanding' = 0
  <2>1. InOp' = InOp \ {p}
    BY <1>2, ZenonT(30) DEF end_op, InOp, TypeOK
  <2> QED
    BY <1>1, <2>1, Zenon DEF A!AEnd
<1>3. CASE outstanding' # 0
  <2>1. pc' = WakeupExcept(p, "out")
    BY <1>3, Zenon DEF end_op
  <2>2. InOp' = InOp \ {p}
    BY <2>1, WakeupTypes, Zenon DEF InOp
  <2> QED
    BY <1>1, <2>2 DEF A!AEnd
<1> QED
  BY <1>2, <1>3, Zenon

\* A round of write_log() (log.c:184-191) is invisible in AtomicDisk.
LEMMA WriteLogRefines ==
    ASSUME IInv, NEW p \in Procs, write_log(p)
    PROVE  Stutter
<1> USE DEF IInv, Stutter
<1>1. boot = "up" /\ ~Installing
  BY ZenonT(30) DEF write_log, BootInv, CommitInv, CommitSteps, Installing
<1>2. head = << >> /\ home \in [Blocks -> Data]
  BY <1>1, SMTT(30) DEF StepInv, TypeOK
<1>3. Recovered = home /\ Recovered' = home
  BY <1>2, RecoverErased, Zenon DEF write_log, Recovered
<1> QED
  BY <1>1, <1>3, Zenon DEF write_log, memory, Visible, InOp

\* The commit point (log.c:199) is the commit of AtomicDisk.
LEMMA WriteHeadRefines ==
    ASSUME IInv, NEW p \in Procs, write_head(p)
    PROVE  A!ACommit
<1> USE DEF IInv, Stutter
<1>1. boot = "up" /\ InOp = {} /\ ~Installing
  BY Zenon DEF write_head, BootInv, CommitInv, CommitSteps, Installing
<1>2. InOp' = {}
  <2>1. \A q \in Procs : pc'[q] = pc[q] \/ pc'[q] = "install"
    BY Zenon DEF write_head, TypeOK
  <2> QED
    BY <1>1, <2>1, Zenon DEF InOp
<1>3. \A i \in DOMAIN lh : logarea[i] = cache[lh[i]]
  <2>1. \A i \in DOMAIN lh : i < tail => logarea[i] = cache[lh[i]]
    BY Zenon DEF write_head, StepInv, Writing
  <2>2. lh \in Seq(Blocks) /\ tail \in Nat /\ tail > Len(lh)
    BY Zenon DEF write_head, TypeOK
  <2> HIDE DEF IInv
  <2>3. \A i \in DOMAIN lh : i < tail
    BY <2>2
  <2> QED
    BY <2>1, <2>3, Zenon
<1>4. Pinned = Elems(lh) /\ \A q \in Procs : buf[q] = {}
  BY <1>1, Zenon DEF Pinned, Elems, HoldInv, InOp
<1>5. \A b \in Blocks : b \notin Elems(lh) => home[b] = cache[b]
  BY <1>1, <1>4, ZenonT(30) DEF CleanInv, Held
<1>6. Recover(lh, logarea, home) = cache
  <2>1. lh \in Seq(Blocks) /\ Distinct(lh) /\ cache \in [Blocks -> Data]
    BY Zenon DEF TypeOK
  <2> QED
    BY <1>3, <1>5, <2>1, RecoverIs, SMTT(30)
<1>7. Recovered' = cache
  BY <1>6, Zenon DEF write_head, Recovered
<1> QED
  BY <1>1, <1>2, <1>7, ZenonT(30) DEF write_head, memory, A!ACommit, Visible

\* A round of install_trans(0) (log.c:71-83) is invisible in AtomicDisk.
LEMMA InstallTransRefines ==
    ASSUME IInv, NEW p \in Procs, install_trans(p)
    PROVE  Stutter
<1>1. /\ lh \in Seq(Blocks) /\ tail \in Nat \ {0} /\ tail <= Len(lh)
      /\ home \in [Blocks -> Data] /\ cache \in [Blocks -> Data]
      /\ boot = "up" /\ Installing
  BY Zenon DEF IInv, install_trans, BootInv, Installing, TypeOK
<1>2. tail \in DOMAIN lh /\ lh[tail] \in Blocks
  BY <1>1
<1>3. head = lh /\ logarea[tail] = cache[lh[tail]]
  BY <1>1, <1>2, Zenon DEF IInv, StepInv
<1>4. Recovered' = Recovered
  <2>1. \A b \in Blocks : b \notin Elems(head) => home'[b] = home[b]
    BY <1>1, <1>2, <1>3, Zenon DEF install_trans, Elems
  <2>2. UNCHANGED <<head, logarea>>
    BY Zenon DEF install_trans
  <2> QED
    BY <2>1, <2>2, RecoverSame, Zenon DEF Recovered
<1>5. cache' = cache
  BY <1>1, <1>2, <1>3, Zenon DEF install_trans
<1>6. boot' = boot /\ pc' = pc
  BY Zenon DEF install_trans
<1> QED
  BY <1>4, <1>5, <1>6, Zenon DEF Visible, InOp, Stutter

\* Erasing the committed transaction (log.c:201-202) is invisible in AtomicDisk.
LEMMA EraseRefines ==
    ASSUME IInv, NEW p \in Procs, erase(p)
    PROVE  Stutter
<1>1. /\ boot = "up" /\ head = lh
      /\ \A i \in DOMAIN head : logarea[i] = home[head[i]]
  <2>1. lh \in Seq(Blocks) /\ tail \in Nat /\ tail > Len(lh)
    BY Zenon DEF IInv, erase, TypeOK
  <2>2. \A i \in DOMAIN lh : i < tail
    BY <2>1
  <2>3. boot = "up" /\ Installing
    BY Zenon DEF IInv, erase, BootInv, Installing
  <2> QED
    BY <2>2, <2>3, ZenonT(30) DEF IInv, StepInv
<1>2. Recovered = home
  <2>1. head \in Seq(Blocks) /\ Distinct(head) /\ home \in [Blocks -> Data]
    BY Zenon DEF IInv, TypeOK
  <2> QED
    BY <1>1, <2>1, RecoverIs DEF Recovered
<1>3. Recovered' = home
  BY RecoverErased, Zenon DEF IInv, erase, Recovered, TypeOK
<1>4. InOp' = InOp
  <2>1. \A q \in Procs : pc'[q] = pc[q] \/ (pc[q] = "install" /\ pc'[q] = "finish")
    BY Zenon DEF IInv, erase, TypeOK
  <2> QED
    BY <2>1, Zenon DEF InOp
<1>5. boot' = boot /\ cache' = cache
  BY Zenon DEF erase
<1> QED
  BY <1>1, <1>2, <1>3, <1>4, <1>5, ZenonT(30) DEF Visible, Stutter

\* The end of end_op() (log.c:171-174) is invisible in AtomicDisk.
LEMMA FinishRefines ==
    ASSUME IInv, NEW p \in Procs, finish(p)
    PROVE  Stutter
<1> USE DEF IInv, Stutter
<1>1. InOp' = InOp
  BY WakeupTypes, Zenon DEF finish, InOp
<1> QED
  BY <1>1, Zenon DEF finish, disk, Recovered, Visible

\* Recycling a buffer is invisible in AtomicDisk.
LEMMA BgetRecycleRefines ==
    ASSUME IInv, NEW b \in Blocks, bget_recycle(b)
    PROVE  Stutter
<1> USE DEF IInv, Stutter
<1>1. boot = "up" => cache[b] = home[b]
  BY SMTT(30) DEF CleanInv, Held, bget_recycle
<1>2. boot = "up" => cache' = cache
  BY <1>1, Zenon DEF bget_recycle, TypeOK
<1> QED
  BY <1>2, Zenon DEF bget_recycle, disk, Recovered, Visible, InOp

\* Waking a killed process is invisible in AtomicDisk.
LEMMA KkillRefines ==
    ASSUME IInv, NEW p \in Procs, kkill(p)
    PROVE  Stutter
<1> USE DEF IInv, Stutter
<1> QED
  BY Zenon DEF kkill, disk, memory, Recovered, Visible, InOp, TypeOK

\* A crash is the crash of AtomicDisk.
LEMMA CrashRefines ==
    ASSUME IInv, Crash
    PROVE  A!ACrash
<1> USE DEF IInv, Stutter
<1> QED
  BY Zenon DEF Crash, disk, A!ACrash, Recovered, Visible, InOp

\* Every step is a step of AtomicDisk or invisible in it.
LEMMA RefinesStep == IInv /\ [Next]_vars => [A!ANext]_(A!avars)
<1>1. UNCHANGED vars => Stutter
  BY Zenon DEF vars, disk, memory, Recovered, Visible, InOp, Stutter
<1>2. Stutter => UNCHANGED A!avars
  BY DEF A!avars, Stutter
<1>3. ASSUME IInv, Recovery PROVE Stutter
  BY <1>3, ReadHeadRefines, InstallRecoveringRefines, EraseRecoveredRefines, Zenon DEF Recovery
<1>4. ASSUME IInv, NEW p \in Procs,
             syscall(p) \/ begin_op(p) \/ end_op(p) \/ kkill(p) \/ commit(p)
      PROVE  Stutter \/ A!ANext
  BY <1>4, SyscallRefines, BeginOpRefines, EndOpRefines, KkillRefines, WriteLogRefines,
     WriteHeadRefines, InstallTransRefines, EraseRefines, FinishRefines, ZenonT(30)
     DEF commit, A!ANext
<1>5. ASSUME IInv, NEW p \in Procs, NEW b \in Blocks,
             log_write(p, b) \/ \E d \in Data : modify(p, b, d)
      PROVE  Stutter \/ A!ANext
  BY <1>5, ModifyRefines, LogWriteRefines, Zenon DEF A!ANext
<1>6. ASSUME IInv, Crash \/ \E b \in Blocks : bget_recycle(b) PROVE Stutter \/ A!ANext
  BY <1>6, BgetRecycleRefines, CrashRefines, Zenon DEF A!ANext
<1> QED
  BY <1>1, <1>2, <1>3, <1>4, <1>5, <1>6, Zenon DEF Next

\* The log is an atomic disk: calls become durable in whole groups at the
\* write of the header (log.c:100-102, 199), and a crash anywhere, in
\* recovery too, brings back the last group.
THEOREM CrashAtomicHolds == Spec => CrashAtomic
  BY RefinesInit, RefinesStep, IInvHolds, PTL DEF Spec, CrashAtomic, A!ASpec
=============================================================================
