---------------------------- MODULE LogInvariant ----------------------------
(***************************************************************************)
(* The inductive invariant of Log: what each step of commit() and of       *)
(* recovery has done so far, that is which log blocks and which home       *)
(* blocks already carry the transaction, and which buffers are still       *)
(* pinned. It is needed because the properties speak of the card after a   *)
(* crash, and every block write of a commit changes the card.              *)
(***************************************************************************)
EXTENDS Log

Distinct(s) == \A i, j \in DOMAIN s : s[i] = s[j] => i = j

Writing == \E p \in Procs : pc[p] = "write_log"
Installing == \E p \in Procs : pc[p] = "install"
Finishing == \E p \in Procs : pc[p] = "finish"

\* The blocks of log.lh that install_trans() has not written yet.
Pinned == {lh[i] : i \in {j \in DOMAIN lh : ~(Installing /\ j < tail)}}

BootInv ==
    /\ boot # "up" =>
         /\ \A p \in Procs : pc[p] = "out"
         /\ outstanding = 0
         /\ ~committing
         /\ \A b \in Blocks : pins[b] = 0
         /\ cache = home
    /\ boot = "install" =>
         /\ lh = head
         /\ \A i \in DOMAIN lh : i < tail => home[lh[i]] = logarea[i]

\* Calls are counted, and one process commits when there is none.
CommitInv ==
    /\ outstanding = Cardinality(InOp)
    /\ committing <=> \E p \in Procs : pc[p] \in CommitSteps
    /\ \A p, q \in Procs :
          pc[p] \in CommitSteps /\ pc[q] \in CommitSteps => p = q
    /\ committing => InOp = {}

\* What each step of commit() has done.
StepInv ==
    /\ boot = "up" /\ ~Installing => head = << >>
    /\ Writing => \A i \in DOMAIN lh : i < tail => logarea[i] = cache[lh[i]]
    /\ Installing =>
         /\ head = lh
         /\ \A i \in DOMAIN lh : logarea[i] = cache[lh[i]]
         /\ \A i \in DOMAIN lh : i < tail => home[lh[i]] = logarea[i]
    /\ Finishing => lh = << >>

HoldInv ==
    /\ \A p \in Procs : buf[p] # {} => pc[p] = "op"
    /\ \A p \in Procs : \A b, c \in buf[p] : b = c

Held(b) == \E p \in Procs : b \in buf[p]

\* A buffer that differs from its home block is pinned or held.
CleanInv ==
    boot = "up" =>
      \A b \in Blocks :
         /\ pins[b] = IF b \in Pinned THEN 1 ELSE 0
         /\ cache[b] # home[b] => b \in Pinned \/ Held(b)

IInv ==
    /\ TypeOK
    /\ Distinct(lh) /\ Distinct(head)
    /\ BootInv
    /\ CommitInv
    /\ StepInv
    /\ HoldInv
    /\ CleanInv

\* Who holds log.lock and does not touch the steps of commit() leaves them.
PhasesSame ==
    /\ Writing' = Writing /\ Installing' = Installing /\ Finishing' = Finishing

-----------------------------------------------------------------------------
(* The room of the log, which begin_op() reserves for a call and log_write() *)
(* uses up.                                                                *)

\* The blocks of a call that are in the log, and what is left of the room that
\* begin_op() reserved for the calls under way: a pair for each block.
Done(p) == wrote[p] \cap Elems(lh)
Reserve == {r \in InOp \X (1 .. MAXOPBLOCKS) : r[2] > Cardinality(Done(r[1]))}

\* The log has room for what is reserved, and a call writes no more than that.
CallInv ==
    \A p \in InOp : /\ buf[p] \subseteq wrote[p]
                    /\ IsFiniteSet(wrote[p]) /\ Cardinality(wrote[p]) <= OpBlocks
ReserveInv == CallInv /\ Len(lh) + Cardinality(Reserve) <= LOGBLOCKS
=============================================================================
