--------------------------- MODULE LogStepProofs ----------------------------
(***************************************************************************)
(* The initial states satisfy the invariant of LogInvariant, and the steps *)
(* of file system calls, the buffer cache, recovery and a crash keep it.   *)
(***************************************************************************)
EXTENDS LogInvariant, TLAPS, FiniteSetTheorems

\* The calls in progress, which log.outstanding counts, are finitely many.
LEMMA InOpFinite == IsFiniteSet(InOp) /\ Cardinality(InOp) \in Nat
  BY SizeAssumption, FS_Subset, FS_CardinalityType, Zenon DEF InOp

\* wakeup() changes the step of sleepers only.
LEMMA WakeupTypes ==
    ASSUME TypeOK, NEW p \in Procs, NEW step \in {"out"},
           pc' = WakeupExcept(p, step)
    PROVE  /\ pc' \in [Procs -> {"out", "begin", "asleep", "op"} \cup CommitSteps]
           /\ pc'[p] = step
           /\ \A q \in Procs \ {p} :
                 pc'[q] = IF pc[q] = "asleep" THEN "begin" ELSE pc[q]
  BY DEF WakeupExcept, TypeOK, CommitSteps

\* Appending a new block keeps the log header well formed.
LEMMA AppendFacts ==
    ASSUME NEW s \in Seq(Blocks), NEW b \in Blocks
    PROVE  /\ Append(s, b) \in Seq(Blocks)
           /\ Len(Append(s, b)) = Len(s) + 1
           /\ DOMAIN s = 1 .. Len(s)
           /\ DOMAIN Append(s, b) = 1 .. Len(s) + 1
           /\ \A i \in 1 .. Len(s) : Append(s, b)[i] = s[i]
           /\ Append(s, b)[Len(s) + 1] = b
           /\ Elems(Append(s, b)) = Elems(s) \cup {b}
           /\ Distinct(s) /\ b \notin Elems(s) => Distinct(Append(s, b))
<1>1. /\ Append(s, b) \in Seq(Blocks)
      /\ Len(Append(s, b)) = Len(s) + 1
      /\ DOMAIN s = 1 .. Len(s)
      /\ DOMAIN Append(s, b) = 1 .. Len(s) + 1
      /\ \A i \in 1 .. Len(s) : Append(s, b)[i] = s[i]
      /\ Append(s, b)[Len(s) + 1] = b
  OBVIOUS
<1>2. Elems(Append(s, b)) = Elems(s) \cup {b}
  <2>1. Len(s) \in Nat
    OBVIOUS
  <2> QED
    BY <1>1, <2>1 DEF Elems
<1>3. Distinct(s) /\ b \notin Elems(s) => Distinct(Append(s, b))
  BY <1>1 DEF Distinct, Elems
<1> QED
  BY <1>1, <1>2, <1>3

\* The invariant holds when the machine is first started on a new card.
LEMMA IInvInit == Init => IInv
<1> SUFFICES ASSUME Init PROVE IInv
  OBVIOUS
<1>1. TypeOK
  <2>1. << >> \in Seq(Blocks) /\ Len(<< >>) <= LOGBLOCKS
    BY SizeAssumption
  <2>2. pc \in [Procs -> {"out", "begin", "asleep", "op"} \cup CommitSteps]
    BY DEF Init
  <2>3. /\ buf \in [Procs -> SUBSET Blocks]
        /\ wrote \in [Procs -> SUBSET Blocks]
    BY DEF Init, NoBuf
  <2>4. pins \in [Blocks -> Nat] /\ cache \in [Blocks -> Data]
    BY DEF Init
  <2>5. /\ home \in [Blocks -> Data] /\ logarea \in [Slots -> Data]
        /\ head = << >> /\ lh = << >>
        /\ outstanding \in Nat /\ tail \in Nat \ {0}
    BY DEF Init
  <2>6. committing \in BOOLEAN /\ boot \in {"read_head", "install", "up"}
    BY Zenon DEF Init
  <2> QED
    BY <2>1, <2>2, <2>3, <2>4, <2>5, <2>6, Zenon DEF TypeOK
<1>2. InOp = {} /\ ~Writing /\ ~Installing /\ ~Finishing
  BY DEF Init, InOp, Writing, Installing, Finishing
<1>3. CommitInv
  BY <1>2, FS_EmptySet, Zenon DEF Init, CommitInv, CommitSteps
<1>4. BootInv /\ Distinct(lh) /\ Distinct(head)
  BY DEF Init, BootInv, Distinct
<1>5. StepInv /\ HoldInv /\ CleanInv
  BY <1>2 DEF Init, StepInv, HoldInv, CleanInv, NoBuf
<1> QED
  BY <1>1, <1>3, <1>4, <1>5, Zenon DEF IInv

\* The invariant speaks of the variables only.
LEMMA IInvStutter == IInv /\ UNCHANGED vars => IInv'
<1> SUFFICES ASSUME IInv, UNCHANGED vars PROVE IInv'
  OBVIOUS
<1> USE DEF IInv, vars, disk, memory
<1>1. TypeOK' /\ (Distinct(lh) /\ Distinct(head))'
  BY DEF TypeOK, Distinct
<1>2. BootInv' /\ HoldInv'
  BY DEF BootInv, HoldInv
<1>3. CommitInv'
  BY DEF CommitInv, InOp
<1>4. PhasesSame /\ Pinned' = Pinned
  BY DEF PhasesSame, Writing, Installing, Finishing, Pinned
<1>5. StepInv'
  BY <1>4 DEF StepInv, PhasesSame
<1>6. CleanInv'
  BY <1>4 DEF CleanInv, Held
<1> QED
  BY <1>1, <1>2, <1>3, <1>5, <1>6, Zenon

\* A process that moves between steps outside commit() and outside a call.
LEMMA IInvMove ==
    ASSUME IInv, NEW p \in Procs, boot = "up", pc[p] \in {"out", "begin", "asleep"},
           NEW step \in {"begin", "asleep"},
           pc' = [pc EXCEPT ![p] = step],
           UNCHANGED <<disk, memory, tail, boot, buf, wrote>>
    PROVE  IInv'
<1> USE DEF IInv, disk, memory
<1>1. TypeOK' /\ (Distinct(lh) /\ Distinct(head))'
  BY DEF TypeOK, Distinct
<1>2. /\ pc'[p] = step
      /\ \A q \in Procs \ {p} : pc'[q] = pc[q]
  BY DEF TypeOK
<1>3. /\ InOp' = InOp
      /\ \A q \in Procs : pc'[q] \in CommitSteps <=> pc[q] \in CommitSteps
  BY <1>2, Zenon DEF InOp, CommitSteps
<1>4. BootInv'
  BY DEF BootInv
<1>5. CommitInv'
  BY <1>3 DEF CommitInv
<1>6. PhasesSame
  BY <1>2 DEF PhasesSame, Writing, Installing, Finishing
<1>7. Pinned' = Pinned
  BY <1>6, Zenon DEF Pinned, PhasesSame
<1>8. StepInv'
  BY <1>6, Zenon DEF StepInv, PhasesSame
<1>9. HoldInv'
  BY <1>2, Zenon DEF HoldInv
<1>10. CleanInv'
  BY <1>7 DEF CleanInv, Held
<1> QED
  BY <1>1, <1>4, <1>5, <1>8, <1>9, <1>10, Zenon

\* The start of a call keeps the invariant.
LEMMA SyscallInv ==
    ASSUME IInv, NEW p \in Procs, syscall(p)
    PROVE  IInv'
<1> USE SizeAssumption DEF IInv
<1> QED
  BY IInvMove, Zenon DEF syscall

\* begin_op() (log.c:127-143) keeps the invariant.
LEMMA BeginOpInv ==
    ASSUME IInv, NEW p \in Procs, begin_op(p)
    PROVE  IInv'
<1> USE SizeAssumption DEF IInv
<1>1. boot = "up"
  BY DEF BootInv, begin_op
<1>2. CASE committing \/ LogFull
  BY <1>1, <1>2, IInvMove, Zenon DEF begin_op, memory
<1>3. CASE ~(committing \/ LogFull)
  <2>1. /\ pc' = [pc EXCEPT ![p] = "op"] /\ pc[p] = "begin"
        /\ outstanding' = outstanding + 1
        /\ wrote' = [wrote EXCEPT ![p] = {}]
        /\ UNCHANGED <<home, logarea, head, cache, pins, lh, committing,
                       tail, boot, buf>>
        /\ ~committing
    BY <1>3, Zenon DEF begin_op, disk
  <2>2. TypeOK' /\ (Distinct(lh) /\ Distinct(head))'
    <3>1. {} \in SUBSET Blocks
      BY Zenon
    <3>2. wrote' \in [Procs -> SUBSET Blocks]
      BY <2>1, <3>1, Zenon DEF TypeOK
    <3>3. outstanding' \in Nat
      BY <2>1 DEF TypeOK
    <3> QED
      BY <2>1, <3>2, <3>3, Zenon DEF TypeOK, Distinct
  <2>3. /\ pc'[p] = "op"
        /\ \A q \in Procs \ {p} : pc'[q] = pc[q]
    BY <2>1, Zenon DEF TypeOK
  <2>4. InOp' = InOp \cup {p} /\ p \notin InOp
    BY <2>1, <2>3 DEF InOp
  <2>5. outstanding' = Cardinality(InOp')
    BY <2>1, <2>4, InOpFinite, FS_AddElement, Zenon DEF CommitInv
  <2>6. \A q \in Procs : pc'[q] \in CommitSteps <=> pc[q] \in CommitSteps
    BY <2>1, <2>3, Zenon DEF CommitSteps
  <2>7. CommitInv' /\ BootInv'
    BY <1>1, <2>1, <2>5, <2>6, Zenon DEF CommitInv, BootInv
  <2>8. PhasesSame
    BY <2>1, <2>3, Zenon DEF PhasesSame, Writing, Installing, Finishing
  <2>9. Pinned' = Pinned
    BY <2>1, <2>8, Zenon DEF Pinned, PhasesSame
  <2>10. StepInv'
    BY <2>1, <2>8, Zenon DEF StepInv, PhasesSame
  <2>11. HoldInv' /\ CleanInv'
    BY <2>1, <2>3, <2>9, Zenon DEF HoldInv, CleanInv, Held
  <2> QED
    BY <2>2, <2>7, <2>10, <2>11, Zenon
<1> QED
  BY <1>2, <1>3, Zenon

\* Changing a locked buffer (log.c:206-214) keeps the invariant.
LEMMA ModifyInv ==
    ASSUME IInv, NEW p \in Procs, NEW b \in Blocks, NEW d \in Data, modify(p, b, d)
    PROVE  IInv'
<1> USE SizeAssumption DEF IInv
<1> USE DEF modify, disk
<1>1. TypeOK' /\ (Distinct(lh) /\ Distinct(head))'
  BY DEF TypeOK, Distinct
<1>2. boot = "up" /\ \A q \in Procs : pc[q] \notin CommitSteps
  BY Zenon DEF BootInv, CommitInv, InOp
<1>3. ~Writing' /\ ~Installing' /\ ~Installing /\ ~Finishing'
  BY <1>2, Zenon DEF Writing, Installing, Finishing, CommitSteps
<1>4. Pinned' = Pinned
  BY <1>3, Zenon DEF Pinned
<1>5. BootInv' /\ CommitInv'
  BY <1>2, Zenon DEF BootInv, CommitInv, InOp
<1>6. StepInv'
  BY <1>3, Zenon DEF StepInv
<1>7. buf'[p] = {b} /\ \A q \in Procs \ {p} : buf'[q] = buf[q]
  BY Zenon DEF TypeOK
<1>8. HoldInv'
  BY <1>7 DEF HoldInv
<1>9. Held(b)' /\ \A c \in Blocks : Held(c) => Held(c)'
  BY <1>7, Zenon DEF Held, NoBuf
<1>10. \A c \in Blocks \ {b} : cache'[c] = cache[c]
  BY Zenon DEF TypeOK
<1>11. CleanInv'
  BY <1>4, <1>9, <1>10, Zenon DEF CleanInv
<1> QED
  BY <1>1, <1>5, <1>6, <1>8, <1>11, Zenon

\* log_write() (log.c:215-236) keeps the invariant.
LEMMA LogWriteInv ==
    ASSUME IInv, NEW p \in Procs, NEW b \in Blocks, log_write(p, b)
    PROVE  IInv'
<1> USE SizeAssumption DEF IInv
<1> USE DEF log_write, disk
<1>1. boot = "up" /\ \A q \in Procs : pc[q] \notin CommitSteps
  BY Zenon DEF BootInv, CommitInv, InOp
<1>2. ~Writing' /\ ~Installing' /\ ~Installing /\ ~Finishing'
  BY <1>1, Zenon DEF Writing, Installing, Finishing, CommitSteps
<1>3. Pinned = Elems(lh) /\ Pinned' = Elems(lh')
  BY <1>2, Zenon DEF Pinned, Elems
<1>4. BootInv' /\ CommitInv'
  BY <1>1, Zenon DEF BootInv, CommitInv, InOp
<1>5. StepInv'
  BY <1>2, Zenon DEF StepInv
<1>6. /\ buf' \in [Procs -> SUBSET Blocks]
      /\ buf'[p] = {} /\ \A q \in Procs \ {p} : buf'[q] = buf[q]
  <2>1. buf' = [buf EXCEPT ![p] = {}] /\ {} \in SUBSET Blocks
    BY Zenon DEF NoBuf
  <2> QED
    BY <2>1, ZenonT(30) DEF TypeOK
<1>7. HoldInv'
  BY <1>6, ZenonT(30) DEF HoldInv
<1>8. \A c \in Blocks \ {b} : Held(c) => Held(c)'
  BY <1>6, Zenon DEF Held, HoldInv
<1>9. CASE b \in Elems(lh)
  <2>1. TypeOK' /\ (Distinct(lh) /\ Distinct(head))'
    BY <1>6, <1>9, Zenon DEF TypeOK, Distinct
  <2>2. CleanInv'
    BY <1>3, <1>8, <1>9, Zenon DEF CleanInv
  <2> QED
    BY <1>4, <1>5, <1>7, <2>1, <2>2, Zenon
<1>10. CASE b \notin Elems(lh)
  <2>1. lh' = Append(lh, b) /\ pins' = [pins EXCEPT ![b] = @ + 1]
    BY <1>10, Zenon
  <2>2. TypeOK'
    BY <1>6, <2>1, AppendFacts, SMTT(30) DEF TypeOK, TooBig
  <2>3. /\ Distinct(lh') /\ Distinct(head')
        /\ Elems(lh') = Elems(lh) \cup {b}
    BY <1>10, <2>1, AppendFacts, Zenon DEF TypeOK
  <2>4. pins[b] = 0 /\ pins'[b] = 1 /\ \A c \in Blocks \ {b} : pins'[c] = pins[c]
    BY <1>1, <1>3, <1>10, <2>1, SMTT(30) DEF CleanInv, TypeOK
  <2>5. CleanInv'
    BY <1>1, <1>3, <1>8, <2>3, <2>4, Zenon DEF CleanInv
  <2> QED
    BY <1>4, <1>5, <1>7, <2>2, <2>3, <2>5, Zenon
<1> QED
  BY <1>9, <1>10, Zenon

\* end_op() up to the commit (log.c:147-165) keeps the invariant.
LEMMA EndOpInv ==
    ASSUME IInv, NEW p \in Procs, end_op(p)
    PROVE  IInv'
<1> USE SizeAssumption DEF IInv
<1>1. /\ boot = "up" /\ pc[p] = "op" /\ buf[p] = {} /\ ~committing
      /\ outstanding' = outstanding - 1
      /\ UNCHANGED <<home, logarea, head, cache, pins, lh, boot, buf, wrote>>
  BY Zenon DEF end_op, disk, BootInv, NoBuf
<1>2. (\A q \in Procs : pc[q] \notin CommitSteps) /\ p \in InOp
  BY <1>1, Zenon DEF CommitInv, InOp
<1>3. ~Installing /\ head = << >>
  BY <1>1, <1>2, Zenon DEF Installing, CommitSteps, StepInv
<1>4. outstanding' = Cardinality(InOp \ {p}) /\ outstanding' \in Nat
  <2>1. /\ IsFiniteSet(InOp \ {p})
        /\ Cardinality(InOp \ {p}) = Cardinality(InOp) - 1
    BY <1>2, InOpFinite, FS_RemoveElement, Zenon
  <2>2. Cardinality(InOp \ {p}) \in Nat
    BY <2>1, FS_CardinalityType, Zenon
  <2> QED
    BY <1>1, <2>1, <2>2, Zenon DEF CommitInv
<1>5. CASE outstanding' = 0
  <2>1. InOp \ {p} = {}
    BY <1>4, <1>5, InOpFinite, FS_RemoveElement, FS_EmptySet, Zenon
  <2>2. /\ committing' = TRUE /\ tail' = 1
        /\ pc' = [pc EXCEPT ![p] = IF lh = << >> THEN "finish" ELSE "write_log"]
    BY <1>5, Zenon DEF end_op
  <2>3. /\ pc'[p] \in {"write_log", "finish"}
        /\ lh # << >> => pc'[p] = "write_log"
        /\ \A q \in Procs \ {p} : pc'[q] = pc[q]
        /\ pc' \in [Procs -> {"out", "begin", "asleep", "op"} \cup CommitSteps]
    BY <2>2, Zenon DEF TypeOK, CommitSteps
  <2>4. TypeOK' /\ (Distinct(lh) /\ Distinct(head))'
    <3>1. committing' \in BOOLEAN
      BY <2>2, Zenon
    <3> QED
      BY <1>1, <1>4, <2>2, <2>3, <3>1 DEF TypeOK, Distinct
  <2>5. InOp' = {} /\ ~Installing' /\ (Finishing' => lh = << >>)
    BY <1>2, <2>1, <2>3, ZenonT(30) DEF InOp, Installing, Finishing, CommitSteps
  <2>6. BootInv'
    BY <1>1, Zenon DEF BootInv
  <2>7. CommitInv'
    <3>1. pc'[p] \in CommitSteps /\ \A q \in Procs \ {p} : pc'[q] \notin CommitSteps
      BY <1>2, <2>3, Zenon DEF CommitSteps
    <3> QED
      BY <1>5, <2>2, <2>5, <3>1, FS_EmptySet, Zenon DEF CommitInv
  <2>8. StepInv'
    <3>1. \A i \in DOMAIN lh : ~(i < 1)
      BY DEF TypeOK
    <3> QED
      BY <1>1, <1>3, <2>2, <2>5, <3>1, Zenon DEF StepInv
  <2>9. Pinned' = Pinned
    BY <1>1, <1>3, <2>5, Zenon DEF Pinned
  <2>10. HoldInv'
    BY <1>1, <2>3, Zenon DEF HoldInv
  <2>11. CleanInv'
    BY <1>1, <2>9, Zenon DEF CleanInv, Held
  <2> QED
    BY <2>4, <2>6, <2>7, <2>8, <2>10, <2>11, Zenon
<1>6. CASE outstanding' # 0
  <2>1. pc' = WakeupExcept(p, "out") /\ UNCHANGED <<committing, tail>>
    BY <1>6, Zenon DEF end_op
  <2>2. /\ pc'[p] = "out"
        /\ \A q \in Procs \ {p} :
              pc'[q] = IF pc[q] = "asleep" THEN "begin" ELSE pc[q]
        /\ pc' \in [Procs -> {"out", "begin", "asleep", "op"} \cup CommitSteps]
    BY <2>1, WakeupTypes, Zenon
  <2>3. TypeOK' /\ (Distinct(lh) /\ Distinct(head))'
    BY <1>1, <1>4, <2>1, <2>2, Zenon DEF TypeOK, Distinct
  <2>4. \A q \in Procs : pc'[q] \notin CommitSteps
    BY <1>2, <2>2, Zenon DEF CommitSteps
  <2>5. ~Writing' /\ ~Installing' /\ ~Finishing'
    BY <2>4, Zenon DEF Writing, Installing, Finishing, CommitSteps
  <2>6. InOp' = InOp \ {p}
    BY <2>2, Zenon DEF InOp
  <2>7. Pinned' = Pinned
    BY <1>1, <1>3, <2>5, Zenon DEF Pinned
  <2>8. BootInv' /\ CommitInv'
    BY <1>1, <1>4, <2>1, <2>4, <2>6, Zenon DEF BootInv, CommitInv
  <2>9. StepInv'
    BY <1>1, <1>3, <2>5, Zenon DEF StepInv
  <2>10. HoldInv'
    BY <1>1, <2>2, Zenon DEF HoldInv
  <2>11. CleanInv'
    BY <1>1, <2>7 DEF CleanInv, Held
  <2> QED
    BY <2>3, <2>8, <2>9, <2>10, <2>11, Zenon
<1> QED
  BY <1>5, <1>6, Zenon

\* The end of end_op() (log.c:171-174) keeps the invariant.
LEMMA FinishInv ==
    ASSUME IInv, NEW p \in Procs, finish(p)
    PROVE  IInv'
<1> USE SizeAssumption DEF IInv
<1>1. /\ pc[p] = "finish" /\ ~committing'
      /\ UNCHANGED <<home, logarea, head, cache, pins, lh, outstanding, tail,
                     boot, buf, wrote>>
  BY Zenon DEF finish, disk
<1>2. /\ pc'[p] = "out"
      /\ \A q \in Procs \ {p} :
            pc'[q] = IF pc[q] = "asleep" THEN "begin" ELSE pc[q]
      /\ pc' \in [Procs -> {"out", "begin", "asleep", "op"} \cup CommitSteps]
  BY WakeupTypes, Zenon DEF finish
<1>3. TypeOK' /\ (Distinct(lh) /\ Distinct(head))'
  <2>1. committing' \in BOOLEAN
    BY Zenon DEF finish
  <2> QED
    BY <1>1, <1>2, <2>1, Zenon DEF TypeOK, Distinct
<1>4. \A q \in Procs : pc'[q] \notin CommitSteps
  BY <1>1, <1>2, Zenon DEF CommitInv, CommitSteps
<1>5. ~Writing' /\ ~Installing' /\ ~Finishing' /\ ~Installing
  BY <1>1, <1>4, Zenon DEF Writing, Installing, Finishing, CommitSteps, CommitInv
<1>6. InOp' = InOp
  BY <1>1, <1>2, Zenon DEF InOp
<1>7. boot = "up"
  BY <1>1, Zenon DEF BootInv
<1>8. BootInv' /\ CommitInv'
  BY <1>1, <1>4, <1>6, <1>7, Zenon DEF BootInv, CommitInv
<1>9. StepInv'
  BY <1>1, <1>5, Zenon DEF StepInv
<1>10. Pinned' = Pinned
  BY <1>1, <1>5, Zenon DEF Pinned
<1>11. HoldInv'
  BY <1>1, <1>2, Zenon DEF HoldInv
<1>12. CleanInv'
  BY <1>1, <1>10, Zenon DEF CleanInv, Held
<1> QED
  BY <1>3, <1>8, <1>9, <1>11, <1>12

\* Recycling a buffer keeps the invariant.
LEMMA BgetRecycleInv ==
    ASSUME IInv, NEW b \in Blocks, bget_recycle(b)
    PROVE  IInv'
<1> USE SizeAssumption DEF IInv
<1>1. cache[b] = home[b]
  BY DEF bget_recycle, CleanInv, BootInv, Held
<1>2. cache' = cache
  BY <1>1, Zenon DEF bget_recycle, TypeOK
<1> QED
  BY <1>2, IInvStutter, Zenon DEF bget_recycle, vars, memory

\* Waking a killed process keeps the invariant.
LEMMA KkillInv ==
    ASSUME IInv, NEW p \in Procs, kkill(p)
    PROVE  IInv'
<1> USE SizeAssumption DEF IInv
<1>1. boot = "up"
  BY Zenon DEF kkill, BootInv
<1> QED
  BY <1>1, IInvMove, Zenon DEF kkill

\* A crash keeps the invariant.
LEMMA CrashInv ==
    ASSUME IInv, Crash
    PROVE  IInv'
<1> USE SizeAssumption DEF IInv
<1>1. TypeOK'
  <2>1. lh' \in Seq(Blocks) /\ Len(lh') <= LOGBLOCKS
    BY DEF Crash
  <2>2. pc' \in [Procs -> {"out", "begin", "asleep", "op"} \cup CommitSteps]
    BY DEF Crash
  <2>3. /\ buf' \in [Procs -> SUBSET Blocks]
        /\ wrote' \in [Procs -> SUBSET Blocks]
    BY DEF Crash, NoBuf
  <2>4. /\ pins' \in [Blocks -> Nat] /\ outstanding' \in Nat
        /\ tail' \in Nat \ {0}
    BY DEF Crash
  <2>5. committing' \in BOOLEAN /\ boot' \in {"read_head", "install", "up"}
    BY Zenon DEF Crash
  <2>6. cache' = home /\ UNCHANGED <<home, logarea, head>>
    BY Zenon DEF Crash, disk
  <2> QED
    BY <2>1, <2>2, <2>3, <2>4, <2>5, <2>6, ZenonT(30) DEF TypeOK
<1> USE DEF Crash, disk
<1>2. (Distinct(lh) /\ Distinct(head))' /\ BootInv'
  BY DEF Distinct, BootInv
<1>3. InOp' = {} /\ ~Writing' /\ ~Installing' /\ ~Finishing'
  BY Zenon DEF InOp, Writing, Installing, Finishing
<1>4. CommitInv'
  BY <1>3, FS_EmptySet, Zenon DEF CommitInv, CommitSteps
<1>5. StepInv' /\ HoldInv' /\ CleanInv'
  BY <1>3, Zenon DEF StepInv, HoldInv, CleanInv, NoBuf
<1> QED
  BY <1>1, <1>2, <1>4, <1>5, Zenon

\* read_head() (log.c:86-98) keeps the invariant.
LEMMA ReadHeadInv ==
    ASSUME IInv, read_head
    PROVE  IInv'
<1> USE SizeAssumption DEF IInv
<1> USE DEF read_head, disk
<1>1. TypeOK' /\ (Distinct(lh) /\ Distinct(head))'
  BY DEF TypeOK, Distinct
<1>2. BootInv'
  BY DEF TypeOK, BootInv
<1>3. CommitInv' /\ HoldInv'
  BY Zenon DEF CommitInv, InOp, HoldInv
<1>4. ~Writing' /\ ~Installing' /\ ~Finishing'
  BY Zenon DEF BootInv, Writing, Installing, Finishing
<1>5. StepInv' /\ CleanInv'
  BY <1>4, Zenon DEF StepInv, CleanInv
<1> QED
  BY <1>1, <1>2, <1>3, <1>5, Zenon

\* A round of install_trans(1) (log.c:71-83) keeps the invariant.
LEMMA InstallRecoveringInv ==
    ASSUME IInv, install_recovering
    PROVE  IInv'
<1> USE SizeAssumption DEF IInv
<1> USE DEF install_recovering
<1>1. lh[tail] \in Blocks /\ tail \in Slots /\ tail \in DOMAIN lh
  BY DEF TypeOK, Slots
<1>2. TypeOK' /\ (Distinct(lh) /\ Distinct(head))'
  BY <1>1 DEF TypeOK, Distinct
<1>3. \A i \in DOMAIN lh : i < tail + 1 => home'[lh[i]] = logarea[i]
  <2> TAKE i \in DOMAIN lh
  <2>1. i \in Nat /\ lh[i] \in Blocks /\ tail \in Nat
    BY SMTT(30) DEF TypeOK
  <2>2. CASE i = tail
    BY <1>1, <2>2, Zenon DEF TypeOK
  <2>3. CASE i # tail
    <3>1. lh[i] # lh[tail]
      BY <1>1, <2>3, Zenon DEF Distinct
    <3>2. home'[lh[i]] = home[lh[i]]
      BY <1>1, <2>1, <3>1, SMTT(30) DEF TypeOK
    <3> QED
      BY <2>1, <2>3, <3>2 DEF BootInv
  <2> QED
    BY <2>2, <2>3, Zenon
<1>4. BootInv'
  BY <1>3, SMTT(30) DEF BootInv
<1>5. CommitInv' /\ HoldInv'
  BY DEF CommitInv, InOp, HoldInv
<1>6. ~Writing' /\ ~Installing' /\ ~Finishing'
  BY SMTT(30) DEF BootInv, Writing, Installing, Finishing
<1>7. StepInv' /\ CleanInv'
  BY <1>6 DEF StepInv, CleanInv
<1> QED
  BY <1>2, <1>4, <1>5, <1>7, Zenon

\* Erasing the log after recovery (log.c:122-123) keeps the invariant.
LEMMA EraseRecoveredInv ==
    ASSUME IInv, erase_recovered
    PROVE  IInv'
<1> USE SizeAssumption DEF IInv
<1> USE DEF erase_recovered
<1>1. TypeOK' /\ (Distinct(lh) /\ Distinct(head))'
  BY DEF TypeOK, Distinct
<1>2. BootInv'
  BY SMTT(30) DEF BootInv
<1>3. CommitInv' /\ HoldInv'
  BY SMTT(30) DEF CommitInv, InOp, HoldInv
<1>4. Pinned' = {} /\ ~Writing' /\ ~Installing'
  BY SMTT(30) DEF Pinned, BootInv, Writing, Installing
<1>5. StepInv' /\ CleanInv'
  BY <1>4 DEF StepInv, CleanInv, BootInv, TypeOK
<1> QED
  BY <1>1, <1>2, <1>3, <1>5, SMTT(30)
=============================================================================
