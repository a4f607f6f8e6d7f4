---------------------------- MODULE SchedProofs -----------------------------
(***************************************************************************)
(* Theorems about Sched for any set of CPUs and any number of processes.   *)
(***************************************************************************)
EXTENDS Sched, TLAPS

-----------------------------------------------------------------------------
(* The inductive invariant. Which spin locks a CPU holds, how deep its     *)
(* push_off() nesting is and whether it can be interrupted follow from     *)
(* where it is, in the scheduler or in the process that it runs.           *)

Label(c) == IF proc[c] = None THEN spc[c] ELSE pc[proc[c]]

HasLk == {"A2", "S1", "S2", "R2", "W0", "W1", "W2"}
HasOwn == {"F", "S2", "S3", "S4", "Y2", "Y3", "Y4", "D2", "D3"}
Interruptible == {"U", "CS", "A1", "R1", "D0", "D1", "wfi"}

\* The locks held at label a, with i the process dispatched and w the one that
\* wakeup() looks at.
Holds(a, i, w, l) == \/ l = lk /\ a \in HasLk
                     \/ l = i /\ a \in HasOwn
                     \/ l = w /\ a = "W2"

Depth(a) == IF a \in {"S2", "W2"} THEN 2
            ELSE IF a \in Interruptible \cup {"Y1"} THEN 0 ELSE 1

Looks(c) == IF proc[c] = None THEN None ELSE widx[proc[c]]
Wants(c) == IF proc[c] = None THEN idx[c] ELSE Wanted(proc[c])

\* While a CPU runs a process, its scheduler stays where it dispatched it.
CpuInv(c) ==
    /\ \A l \in Locks : cpu[l] = c <=> Holds(Label(c), idx[c], Looks(c), l)
    /\ noff[c] = Depth(Label(c)) + IF spin[c] = None THEN 0 ELSE 1
    /\ spin[c] # None => Label(c) \in DOMAIN Acquiring \cup {"D1"} /\ spin[c] = Wants(c)
    /\ intr[c] => spin[c] = None /\ Label(c) \in Interruptible
    /\ proc[c] # None => spc[c] = "D2" /\ idx[c] = proc[c]
    /\ spc[c] \in {"D2", "D3"} => idx[c] \in Procs

OnCpu(p) == \E c \in Cpus : proc[c] = p

\* The state of a process follows from where it is. Off the CPU it is in
\* sched(), or has never run.
StateInv ==
    \A p \in Procs :
       /\ OnCpu(p) => state[p] = IF pc[p] = "S3" THEN "SLEEPING"
                                 ELSE IF pc[p] = "Y3" THEN "RUNNABLE" ELSE "RUNNING"
       /\ ~OnCpu(p) => /\ pc[p] \in {"F", "S4", "Y4"} /\ state[p] # "RUNNING"
                       /\ state[p] = "SLEEPING" => pc[p] = "S4"
       /\ pc[p] \in {"S3", "S4"} => chan[p]

OnceInv == \A c, d \in Cpus : proc[c] = proc[d] /\ c # d => proc[c] = None

\* Who is between acquiresleep() and releasesleep() holds the sleep lock; who
\* goes to sleep has seen it taken, under lk.
HolderInv == /\ \A p \in Procs : InCS(p) <=> holder = p
             /\ \A p \in Procs : pc[p] \in {"S1", "S2"} => holder # None

WidxInv == \A p \in Procs : pc[p] \in {"W1", "W2"} => widx[p] \in Procs /\ widx[p] # p

IInv == /\ TypeOK
        /\ \A c \in Cpus : CpuInv(c)
        /\ StateInv /\ OnceInv /\ HolderInv /\ WidxInv /\ NoLostWakeup

-----------------------------------------------------------------------------
\* A CPU that a step leaves alone keeps its part of the invariant.
LEMMA Frame ==
    ASSUME NEW d \in Cpus, CpuInv(d),
           proc'[d] = proc[d], spc'[d] = spc[d], idx'[d] = idx[d], noff'[d] = noff[d],
           spin'[d] = spin[d], intr'[d] = intr[d],
           proc[d] # None => pc'[proc[d]] = pc[proc[d]] /\ widx'[proc[d]] = widx[proc[d]],
           \A l \in Locks : cpu'[l] = d <=> cpu[l] = d
    PROVE  CpuInv(d)'
<1>1. Label(d)' = Label(d) /\ Looks(d)' = Looks(d) /\ Wants(d)' = Wants(d)
  BY Zenon DEF Label, Looks, Wants, Wanted
<1>2. \A l \in Locks : Holds(Label(d), idx[d], Looks(d), l)' = Holds(Label(d), idx[d], Looks(d), l)
  BY <1>1, Zenon DEF Holds
<1> QED
  BY <1>1, <1>2, Zenon DEF CpuInv

\* What the invariant says of a CPU that runs process p.
LEMMA Running ==
    ASSUME IInv, NEW c \in Cpus, NEW p \in Procs, proc[c] = p
    PROVE  /\ spc[c] = "D2" /\ idx[c] = p
           /\ \A l \in Locks : cpu[l] = c <=> Holds(pc[p], p, widx[p], l)
           /\ noff[c] = Depth(pc[p]) + IF spin[c] = None THEN 0 ELSE 1
           /\ spin[c] # None => pc[p] \in DOMAIN Acquiring /\ spin[c] = Wanted(p)
           /\ intr[c] => spin[c] = None /\ pc[p] \in Interruptible
<1>1. p # None
  BY SchedAssumption DEF Procs
<1>2. pc[p] # "D1"
  BY ZenonT(30) DEF IInv, TypeOK
<1>3. Label(c) = pc[p] /\ Looks(c) = widx[p] /\ Wants(c) = Wanted(p)
  BY <1>1, Zenon DEF Label, Looks, Wants
<1> QED
  BY <1>1, <1>2, <1>3 DEF IInv, CpuInv

\* The converse, after a step.
LEMMA StillRunning ==
    ASSUME NEW c \in Cpus, NEW p \in Procs,
           proc'[c] = p, spc'[c] = "D2", idx'[c] = p,
           \A l \in Locks : cpu'[l] = c <=> Holds(pc'[p], p, widx'[p], l),
           noff'[c] = Depth(pc'[p]) + IF spin'[c] = None THEN 0 ELSE 1,
           spin'[c] # None => pc'[p] \in DOMAIN Acquiring /\ spin'[c] = Wanted(p)',
           intr'[c] => spin'[c] = None /\ pc'[p] \in Interruptible
    PROVE  CpuInv(c)'
<1>1. p # None
  BY SchedAssumption DEF Procs
<1>2. Label(c)' = pc'[p] /\ Looks(c)' = widx'[p] /\ Wants(c)' = Wanted(p)'
  BY <1>1, Zenon DEF Label, Looks, Wants
<1>3. \A l \in Locks : Holds(Label(c), idx[c], Looks(c), l)' = Holds(pc'[p], p, widx'[p], l)
  BY <1>2, Zenon DEF Holds
<1> QED
  BY <1>1, <1>2, <1>3, Zenon DEF CpuInv

\* The same of a CPU in the scheduler.
LEMMA Idle ==
    ASSUME IInv, NEW c \in Cpus, proc[c] = None
    PROVE  /\ \A l \in Locks : cpu[l] = c <=> Holds(spc[c], idx[c], None, l)
           /\ noff[c] = Depth(spc[c]) + IF spin[c] = None THEN 0 ELSE 1
           /\ spin[c] # None => spc[c] = "D1" /\ spin[c] = idx[c]
           /\ intr[c] => spin[c] = None /\ spc[c] \in Interruptible
           /\ spc[c] \in {"D2", "D3"} => idx[c] \in Procs
<1>1. spc[c] \notin DOMAIN Acquiring
  BY Zenon DEF IInv, TypeOK, Acquiring
<1>2. Label(c) = spc[c] /\ Looks(c) = None /\ Wants(c) = idx[c]
  BY Zenon DEF Label, Looks, Wants
<1> QED
  BY <1>1, <1>2 DEF IInv, CpuInv

\* What makes up CpuInv of a CPU that runs no process.
LEMMA StillIdle ==
    ASSUME NEW c \in Cpus, proc'[c] = None,
           \A l \in Locks : cpu'[l] = c <=> Holds(spc'[c], idx'[c], None, l),
           noff'[c] = Depth(spc'[c]) + IF spin'[c] = None THEN 0 ELSE 1,
           spin'[c] # None => spc'[c] = "D1" /\ spin'[c] = idx'[c],
           intr'[c] => spin'[c] = None /\ spc'[c] \in Interruptible,
           spc'[c] \in {"D2", "D3"} => idx'[c] \in Procs
    PROVE  CpuInv(c)'
<1>1. Label(c)' = spc'[c] /\ Looks(c)' = None /\ Wants(c)' = idx'[c]
  BY Zenon DEF Label, Looks, Wants
<1>2. \A l \in Locks : Holds(Label(c), idx[c], Looks(c), l)' = Holds(spc'[c], idx'[c], None, l)
  BY <1>1, Zenon DEF Holds
<1> QED
  BY <1>1, <1>2, Zenon DEF CpuInv

\* A step of CPU c, on behalf of process p if it runs one, that touches no other
\* CPU and no other process.
OthersSame(c, p) ==
    /\ \A d \in Cpus \ {c} :
         /\ proc'[d] = proc[d] /\ spc'[d] = spc[d] /\ idx'[d] = idx[d]
         /\ noff'[d] = noff[d] /\ spin'[d] = spin[d] /\ intr'[d] = intr[d]
         /\ \A l \in Locks : cpu'[l] = d <=> cpu[l] = d
    /\ \A q \in Procs \ {p} : pc'[q] = pc[q] /\ widx'[q] = widx[q]

\* What is said of the other CPUs survives a step of this one.
LEMMA Others ==
    ASSUME IInv, NEW c \in Cpus, NEW p, proc[c] = p, OthersSame(c, p),
           NEW d \in Cpus \ {c}
    PROVE  CpuInv(d)'
<1>1. proc[d] # None => proc[d] \in Procs \ {p}
  BY DEF IInv, OnceInv, TypeOK
<1> QED
  BY <1>1, Frame, Zenon DEF IInv, OthersSame

\* A step that moves process p on and changes nothing the others look at.
LEMMA Moves ==
    ASSUME IInv, NEW c \in Cpus, NEW p \in Procs, proc[c] = p, TypeOK',
           UNCHANGED <<proc, state, widx, holder>>,
           \A q \in Procs \ {p} : pc'[q] = pc[q] /\ ret'[q] = ret[q] /\ chan'[q] = chan[q],
           pc[p] \notin {"S3", "Y3"}, pc'[p] \notin {"S3", "S4", "Y3"},
           pc[p] \in {"W0", "W1", "W2"} => pc'[p] \in {"W0", "W1", "W2"},
           pc'[p] \in {"S1", "S2"} => holder # None,
           pc'[p] \in {"W1", "W2"} => widx[p] \in Procs /\ widx[p] # p,
           InCS(p)' <=> InCS(p)
    PROVE  StateInv' /\ OnceInv' /\ HolderInv' /\ WidxInv' /\ NoLostWakeup'
<1>1. \A q \in Procs : OnCpu(q)' <=> OnCpu(q)
  BY Zenon DEF OnCpu
<1>2. StateInv'
  BY <1>1 DEF IInv, StateInv, OnCpu
<1>3. OnceInv'
  BY Zenon DEF IInv, OnceInv
<1>4. HolderInv'
  <2>1. \A q \in Procs : InCS(q)' <=> InCS(q)
    BY ZenonT(30) DEF InCS, Yielding
  <2> QED
    BY <2>1, Zenon DEF IInv, HolderInv
<1>5. WidxInv'
  BY ZenonT(30) DEF IInv, WidxInv
<1>6. NoLostWakeup'
  BY ZenonT(30) DEF IInv, NoLostWakeup
<1> QED
  BY <1>2, <1>3, <1>4, <1>5, <1>6, Zenon

-----------------------------------------------------------------------------
(* The steps of a process.                                                 *)

\* A process begins an acquire(): push_off() (spinlock.c:22-27).
LEMMA proc_acquire_inv ==
    ASSUME IInv, NEW c \in Cpus, NEW p \in Procs, proc_acquire(c, p)
    PROVE  IInv'
<1> USE SchedAssumption DEF Procs, Locks, lk
<1>1. /\ proc[c] = p /\ spin[c] = None /\ pc[p] \in DOMAIN Acquiring
      /\ spc[c] = "D2" /\ idx[c] = p /\ noff[c] = Depth(pc[p])
      /\ \A l \in Locks : cpu[l] = c <=> Holds(pc[p], p, widx[p], l)
  BY Running DEF proc_acquire, acquire, Depth
<1>2. noff[c] \in {0, 1}
  BY <1>1, Zenon DEF Depth, Acquiring, Interruptible
<1>3. Wanted(p) \in Locks
  BY Zenon DEF IInv, WidxInv, TypeOK, Wanted
<1>4. TypeOK'
  <2>1. intr' \in [Cpus -> BOOLEAN] /\ intena' \in [Cpus -> BOOLEAN]
    BY ZenonT(30) DEF IInv, TypeOK, proc_acquire, acquire, push_off
  <2>2. noff' \in [Cpus -> 0 .. 2 + NPROC] /\ spin' \in [Cpus -> Locks \cup {None}]
    BY <1>2, <1>3, SMTT(30) DEF IInv, TypeOK, proc_acquire, acquire, push_off
  <2> QED
    BY <2>1, <2>2, Zenon DEF IInv, TypeOK, proc_acquire, acquire, sch
<1>5. CpuInv(c)'
  <2>1. /\ proc'[c] = p /\ pc' = pc /\ widx' = widx /\ spin'[c] = Wanted(p) /\ spin'[c] # None
        /\ spc'[c] = "D2" /\ idx'[c] = p /\ cpu' = cpu /\ noff'[c] = noff[c] + 1 /\ ~intr'[c]
    BY <1>1, <1>3, SMTT(30) DEF IInv, TypeOK, proc_acquire, acquire, push_off, sch
  <2>2. Wanted(p)' = Wanted(p)
    BY <2>1, Zenon DEF Wanted
  <2> QED
    BY <1>1, <1>2, <2>1, <2>2, StillRunning, Zenon
<1>6. OthersSame(c, p)
  BY ZenonT(30) DEF OthersSame, IInv, TypeOK, proc_acquire, acquire, push_off, sch
<1>7. StateInv' /\ OnceInv' /\ HolderInv' /\ WidxInv' /\ NoLostWakeup'
  <2>1. pc[p] \notin {"S3", "S4", "Y3"}
    BY <1>1, Zenon DEF Acquiring
  <2>2. UNCHANGED <<proc, state, chan, pc, ret, widx, holder>>
    BY Zenon DEF proc_acquire, acquire
  <2>3. InCS(p)' <=> InCS(p)
    BY <2>2, Zenon DEF InCS, Yielding
  <2> QED
    BY <1>1, <1>4, <2>1, <2>2, <2>3, Moves, Zenon DEF IInv, HolderInv, WidxInv
<1> QED
  BY <1>1, <1>4, <1>5, <1>6, <1>7, Others, Zenon DEF IInv

\* A process gets the spin lock it tries (spinlock.c:29-45).
LEMMA proc_spin_inv ==
    ASSUME IInv, NEW c \in Cpus, NEW p \in Procs, proc_spin(c, p)
    PROVE  IInv'
<1> USE SchedAssumption DEF Procs, Locks, lk
<1>1. /\ proc[c] = p /\ spin[c] = Wanted(p) /\ pc[p] \in DOMAIN Acquiring
      /\ spc[c] = "D2" /\ idx[c] = p /\ noff[c] = Depth(pc[p]) + 1 /\ ~intr[c]
      /\ \A l \in Locks : cpu[l] = c <=> Holds(pc[p], p, widx[p], l)
  BY Running DEF proc_spin
<1>2. spin[c] \in Locks
  BY ZenonT(30) DEF IInv, TypeOK, proc_spin
<1>3. TypeOK'
  <2>1. pc' \in [Procs -> {"F", "U", "CS", "A1", "A2", "S1", "S2", "S3", "S4",
                          "R1", "R2", "W0", "W1", "W2", "Y1", "Y2", "Y3", "Y4"}]
    <3>1. Acquiring[pc[p]] \in {"A2", "S2", "R2", "W2", "Y2"}
      BY <1>1 DEF Acquiring
    <3> QED
      BY <3>1, Zenon DEF IInv, TypeOK, proc_spin
  <2>2. cpu' \in [Locks -> Cpus \cup {None}] /\ spin' \in [Cpus -> Locks \cup {None}]
    BY <1>2, Zenon DEF IInv, TypeOK, proc_spin
  <2> QED
    BY <2>1, <2>2, Zenon DEF IInv, TypeOK, proc_spin, cpus, sch
<1>4. pc'[p] = Acquiring[pc[p]]
  BY Zenon DEF IInv, TypeOK, proc_spin
<1>5. CpuInv(c)'
  <2>1. /\ proc'[c] = p /\ widx' = widx /\ spin'[c] = None
        /\ spc'[c] = "D2" /\ idx'[c] = p /\ noff'[c] = noff[c] /\ ~intr'[c]
        /\ \A l \in Locks : cpu'[l] = c <=> cpu[l] = c \/ l = spin[c]
    BY <1>1, <1>2, ZenonT(30) DEF IInv, TypeOK, proc_spin, cpus, sch
  <2>2. noff'[c] = Depth(pc'[p])
    BY <1>1, <1>4, <2>1 DEF Depth, Interruptible, Acquiring
  <2>3. \A l \in Locks : Holds(pc'[p], p, widx[p], l) <=> Holds(pc[p], p, widx[p], l) \/ l = spin[c]
    BY <1>1, <1>4 DEF Holds, HasLk, HasOwn, Acquiring, Wanted
  <2> QED
    BY <1>1, <2>1, <2>2, <2>3, StillRunning, SMTT(30) DEF Depth
<1>6. OthersSame(c, p)
  BY <1>2, ZenonT(30) DEF OthersSame, IInv, TypeOK, proc_spin, cpus, sch
<1>7. StateInv' /\ OnceInv' /\ HolderInv' /\ WidxInv' /\ NoLostWakeup'
  <2>1. InCS(p)' <=> InCS(p)
    BY <1>1, <1>4 DEF InCS, Yielding, Acquiring, proc_spin
  <2>2. /\ pc[p] \in {"W1", "S1"} <=> pc'[p] \in {"W2", "S2"}
        /\ pc[p] \notin {"S3", "Y3", "W0", "W2"} 
        /\ pc'[p] \notin {"S1", "S3", "S4", "Y3", "W1"}
        /\ pc[p] = "W1" => pc'[p] = "W2"
        /\ pc[p] = "S1" => pc'[p] = "S2"
    BY <1>1, <1>4 DEF Acquiring
  <2>3. \A q \in Procs \ {p} : pc'[q] = pc[q]
    BY Zenon DEF IInv, TypeOK, proc_spin
  <2>4. /\ pc[p] = "S1" => holder # None
        /\ pc[p] = "W1" => widx[p] \in Procs /\ widx[p] # p
    BY Zenon DEF IInv, HolderInv, WidxInv
  <2>5. UNCHANGED <<proc, state, chan, ret, widx, holder>>
    BY Zenon DEF proc_spin
  <2> QED
    BY <1>1, <1>3, <2>1, <2>2, <2>3, <2>4, <2>5, Moves, Zenon
<1> QED
  BY <1>1, <1>3, <1>5, <1>6, <1>7, Others, Zenon DEF IInv

\* A new process releases its p->lock in forkret().
LEMMA forkret_inv ==
    ASSUME IInv, NEW c \in Cpus, NEW p \in Procs, forkret(c, p)
    PROVE  IInv'
<1> USE SchedAssumption DEF Procs, Locks, lk
<1>1. /\ proc[c] = p /\ pc[p] = "F" /\ spin[c] = None /\ noff[c] = 1 /\ ~intr[c]
      /\ spc[c] = "D2" /\ idx[c] = p /\ \A l \in Locks : cpu[l] = c <=> l = p
  BY Running DEF forkret, At, Depth, Holds, HasLk, HasOwn, Interruptible
<1>2. TypeOK'
  BY <1>1, SMTT(30) DEF IInv, TypeOK, forkret, sch
<1>3. CpuInv(c)'
  <2>1. /\ proc'[c] = p /\ pc'[p] = "U" /\ spin'[c] = None /\ noff'[c] = 0
        /\ spc'[c] = "D2" /\ idx'[c] = p /\ \A l \in Locks : cpu'[l] # c
    BY <1>1 DEF IInv, TypeOK, forkret, sch
  <2> QED
    BY <2>1, StillRunning, SMTT(30) DEF Depth, Holds, HasLk, HasOwn, Interruptible
<1>4. OthersSame(c, p)
  BY <1>1, SMTT(30) DEF OthersSame, IInv, TypeOK, forkret, sch
<1>5. StateInv' /\ OnceInv' /\ HolderInv' /\ WidxInv' /\ NoLostWakeup'
  <2>1. /\ pc'[p] = "U" /\ \A q \in Procs \ {p} : pc'[q] = pc[q]
        /\ UNCHANGED <<proc, state, chan, ret, widx, holder>>
    BY Zenon DEF IInv, TypeOK, forkret
  <2>2. InCS(p)' <=> InCS(p)
    BY <1>1, <2>1, Zenon DEF InCS, Yielding
  <2> QED
    BY <1>1, <1>2, <2>1, <2>2, Moves, Zenon
<1> QED
  BY <1>1, <1>2, <1>3, <1>4, <1>5, Others, Zenon DEF IInv

\* A process starts a call that takes or gives back a sleep lock.
LEMMA call_inv ==
    ASSUME IInv, NEW c \in Cpus, NEW p \in Procs, call(c, p)
    PROVE  IInv'
<1> USE SchedAssumption DEF Procs, Locks, lk
<1>1. /\ proc[c] = p /\ pc[p] \in {"U", "CS"} /\ spin[c] = None /\ noff[c] = 0
      /\ spc[c] = "D2" /\ idx[c] = p /\ \A l \in Locks : cpu[l] # c
  BY Running DEF call, At, Depth, Holds, HasLk, HasOwn, Interruptible
<1>2. TypeOK' /\ pc'[p] = IF pc[p] = "U" THEN "A1" ELSE "R1"
  <2>1. pc' = [pc EXCEPT ![p] = IF pc[p] = "U" THEN "A1" ELSE "R1"]
    BY Zenon DEF call, At
  <2> QED
    BY <2>1, Zenon DEF IInv, TypeOK, call, cpus, sch
<1>3. CpuInv(c)'
  <2>1. /\ proc'[c] = p /\ spin'[c] = None /\ noff'[c] = 0
        /\ spc'[c] = "D2" /\ idx'[c] = p /\ \A l \in Locks : cpu'[l] # c
    BY <1>1, Zenon DEF call, cpus, sch
  <2> QED
    BY <1>2, <2>1, StillRunning, SMTT(30) DEF Depth, Holds, HasLk, HasOwn, Interruptible
<1>4. OthersSame(c, p)
  BY ZenonT(30) DEF OthersSame, IInv, TypeOK, call, cpus, sch
<1>5. StateInv' /\ OnceInv' /\ HolderInv' /\ WidxInv' /\ NoLostWakeup'
  <2>1. \A q \in Procs \ {p} : pc'[q] = pc[q]
    BY ZenonT(30) DEF IInv, TypeOK, call
  <2>2. InCS(p)' <=> InCS(p)
    BY <1>1, <1>2, Zenon DEF InCS, Yielding
  <2> QED
    BY <1>1, <1>2, <2>1, <2>2, Moves, Zenon DEF call
<1> QED
  BY <1>1, <1>2, <1>3, <1>4, <1>5, Others, Zenon DEF IInv

\* acquiresleep() finds the lock free (sleeplock.c:25-30).
LEMMA take_inv ==
    ASSUME IInv, NEW c \in Cpus, NEW p \in Procs, take(c, p)
    PROVE  IInv'
<1> USE SchedAssumption DEF Procs, Locks, lk
<1>1. /\ proc[c] = p /\ pc[p] = "A2" /\ spin[c] = None /\ noff[c] = 1 /\ ~intr[c]
      /\ spc[c] = "D2" /\ idx[c] = p /\ \A l \in Locks : cpu[l] = c <=> l = lk
  BY Running DEF take, At, Depth, Holds, HasLk, HasOwn, Interruptible
<1>2. TypeOK'
  BY <1>1, SMTT(30) DEF IInv, TypeOK, take, release, pop_off, sch
<1>3. CpuInv(c)'
  <2>1. /\ proc'[c] = p /\ pc'[p] = "CS" /\ spin'[c] = None /\ noff'[c] = 0
        /\ spc'[c] = "D2" /\ idx'[c] = p /\ \A l \in Locks : cpu'[l] # c
    BY <1>1, SMTT(30) DEF IInv, TypeOK, take, release, pop_off, sch
  <2> QED
    BY <2>1, StillRunning, SMTT(30) DEF Depth, Holds, HasLk, HasOwn, Interruptible
<1>4. OthersSame(c, p)
  BY <1>1, SMTT(30) DEF OthersSame, IInv, TypeOK, take, release, pop_off, sch
<1>5. StateInv'
  BY <1>1, SMTT(30) DEF IInv, StateInv, TypeOK, OnCpu, take
<1>6. OnceInv'
  BY Zenon DEF IInv, OnceInv, take
<1>7. HolderInv'
  BY <1>1, SMTT(30) DEF IInv, HolderInv, TypeOK, take, At, InCS, Yielding
<1>8. WidxInv'
  BY <1>1, ZenonT(30) DEF IInv, WidxInv, TypeOK, take
<1>9. NoLostWakeup'
  BY DEF IInv, NoLostWakeup, take
<1> QED
  BY <1>1, <1>2, <1>3, <1>4, <1>5, <1>6, <1>7, <1>8, <1>9, Others, Zenon DEF IInv

\* acquiresleep() finds the lock taken and calls sleep() (sleeplock.c:25-26).
LEMMA busy_inv ==
    ASSUME IInv, NEW c \in Cpus, NEW p \in Procs, busy(c, p)
    PROVE  IInv'
<1> USE SchedAssumption DEF Procs, Locks, lk
<1>1. /\ proc[c] = p /\ pc[p] = "A2" /\ spin[c] = None /\ noff[c] = 1 /\ ~intr[c]
      /\ spc[c] = "D2" /\ idx[c] = p /\ \A l \in Locks : cpu[l] = c <=> l = lk
  BY Running DEF busy, At, Depth, Holds, HasLk, HasOwn, Interruptible
<1>2. TypeOK'
  BY <1>1, Zenon DEF IInv, TypeOK, busy, cpus, sch
<1>3. /\ pc'[p] = "S1" /\ holder # None /\ \A q \in Procs \ {p} : pc'[q] = pc[q]
      /\ UNCHANGED <<cpu, cpus, spin, proc, sch, state, chan, ret, widx, holder>>
  BY Zenon DEF IInv, TypeOK, busy, cpus, sch
<1>4. CpuInv(c)'
  BY <1>1, <1>3, StillRunning, SMTT(30) DEF Depth, Holds, HasLk, HasOwn, Interruptible, cpus, sch
<1>5. OthersSame(c, p)
  BY <1>3, Zenon DEF OthersSame, cpus, sch
<1>6. StateInv' /\ OnceInv' /\ HolderInv' /\ WidxInv' /\ NoLostWakeup'
  <2>1. InCS(p)' <=> InCS(p)
    BY <1>1, <1>3, Zenon DEF InCS, Yielding
  <2> QED
    BY <1>1, <1>2, <1>3, <2>1, Moves, Zenon
<1> QED
  BY <1>1, <1>2, <1>4, <1>5, <1>6, Others, Zenon DEF IInv

\* The one that goes to sleep saw the lock taken, and lk has kept it so.
LEMMA sleep_inv ==
    ASSUME IInv, NEW c \in Cpus, NEW p \in Procs, sleep(c, p)
    PROVE  IInv'
<1> USE SchedAssumption DEF Procs, Locks, lk
<1>1. /\ proc[c] = p /\ pc[p] = "S2" /\ spin[c] = None /\ noff[c] = 2 /\ ~intr[c]
      /\ spc[c] = "D2" /\ idx[c] = p /\ \A l \in Locks : cpu[l] = c <=> l \in {lk, p}
  BY Running DEF sleep, At, Depth, Holds, HasLk, HasOwn, Interruptible
<1>2. TypeOK'
  BY <1>1, SMTT(30) DEF IInv, TypeOK, sleep, release, pop_off, sch
<1>3. CpuInv(c)'
  <2>1. /\ proc'[c] = p /\ pc'[p] = "S3" /\ spin'[c] = None /\ noff'[c] = 1 /\ ~intr'[c]
        /\ spc'[c] = "D2" /\ idx'[c] = p /\ \A l \in Locks : cpu'[l] = c <=> l = p
    BY <1>1, SMTT(30) DEF IInv, TypeOK, sleep, release, pop_off, sch
  <2> QED
    BY <2>1, StillRunning, SMTT(30) DEF Depth, Holds, HasLk, HasOwn, Interruptible
<1>4. OthersSame(c, p)
  BY <1>1, SMTT(30) DEF OthersSame, IInv, TypeOK, sleep, release, pop_off, sch
<1>5. StateInv'
  BY <1>1, SMTT(30) DEF IInv, StateInv, TypeOK, OnCpu, sleep
<1>6. OnceInv'
  BY Zenon DEF IInv, OnceInv, sleep
<1>7. HolderInv'
  <2>1. /\ pc'[p] = "S3" /\ \A q \in Procs \ {p} : pc'[q] = pc[q]
        /\ UNCHANGED <<ret, holder>>
    BY ZenonT(30) DEF IInv, TypeOK, sleep
  <2> QED
    BY <1>1, <2>1, Zenon DEF IInv, HolderInv, InCS, Yielding
<1>8. WidxInv'
  BY <1>1, ZenonT(30) DEF IInv, WidxInv, TypeOK, sleep
<1>9. NoLostWakeup'
  <2>1. holder' # None
    BY <1>1, Zenon DEF IInv, HolderInv, sleep
  <2> QED
    BY <2>1, Zenon DEF NoLostWakeup
<1> QED
  BY <1>1, <1>2, <1>3, <1>4, <1>5, <1>6, <1>7, <1>8, <1>9, Others, Zenon DEF IInv

\* yield() gives up the CPU after an interrupt of the timer.
LEMMA yield_inv ==
    ASSUME IInv, NEW c \in Cpus, NEW p \in Procs, yield(c, p)
    PROVE  IInv'
<1> USE SchedAssumption DEF Procs, Locks, lk
<1>1. /\ proc[c] = p /\ pc[p] = "Y2" /\ spin[c] = None /\ noff[c] = 1 /\ ~intr[c]
      /\ spc[c] = "D2" /\ idx[c] = p /\ \A l \in Locks : cpu[l] = c <=> l = p
  BY Running DEF yield, At, Depth, Holds, HasLk, HasOwn, Interruptible
<1>2. TypeOK'
  BY <1>1, Zenon DEF IInv, TypeOK, yield, cpus, sch
<1>3. CpuInv(c)'
  <2>1. /\ proc'[c] = p /\ pc'[p] = "Y3" /\ spin'[c] = None /\ noff'[c] = 1 /\ ~intr'[c]
        /\ spc'[c] = "D2" /\ idx'[c] = p /\ \A l \in Locks : cpu'[l] = c <=> l = p
    BY <1>1, ZenonT(30) DEF IInv, TypeOK, yield, cpus, sch
  <2> QED
    BY <2>1, StillRunning, SMTT(30) DEF Depth, Holds, HasLk, HasOwn, Interruptible
<1>4. OthersSame(c, p)
  BY <1>1, ZenonT(30) DEF OthersSame, IInv, TypeOK, yield, cpus, sch
<1>5. StateInv'
  BY <1>1, SMTT(30) DEF IInv, StateInv, TypeOK, OnCpu, yield
<1>6. OnceInv'
  BY Zenon DEF IInv, OnceInv, yield
<1>7. HolderInv'
  BY <1>1, SMTT(30) DEF IInv, HolderInv, TypeOK, yield, InCS, Yielding
<1>8. WidxInv'
  BY <1>1, ZenonT(30) DEF IInv, WidxInv, TypeOK, yield
<1>9. NoLostWakeup'
  <2>1. /\ \A q \in Procs : state'[q] = "SLEEPING" => state[q] = "SLEEPING"
        /\ pc'[p] = "Y3" /\ \A q \in Procs \ {p} : pc'[q] = pc[q]
        /\ UNCHANGED <<widx, holder>>
    BY ZenonT(30) DEF IInv, TypeOK, yield
  <2> QED
    BY <1>1, <2>1, Zenon DEF IInv, NoLostWakeup
<1> QED
  BY <1>1, <1>2, <1>3, <1>4, <1>5, <1>6, <1>7, <1>8, <1>9, Others, Zenon DEF IInv

\* The switch to the scheduler: c goes on with p->lock held.
LEMMA sched_inv ==
    ASSUME IInv, NEW c \in Cpus, NEW p \in Procs, sched(c, p)
    PROVE  IInv'
<1> USE SchedAssumption DEF Procs, Locks, lk
<1>1. /\ proc[c] = p /\ pc[p] \in {"S3", "Y3"} /\ spin[c] = None /\ noff[c] = 1 /\ ~intr[c]
      /\ spc[c] = "D2" /\ idx[c] = p /\ \A l \in Locks : cpu[l] = c <=> l = p
  BY Running DEF sched, At, Depth, Holds, HasLk, HasOwn, Interruptible
<1>2. TypeOK'
  BY <1>1, SMTT(30) DEF IInv, TypeOK, sched, cpus
<1>3. /\ pc'[p] = IF pc[p] = "S3" THEN "S4" ELSE "Y4"
      /\ \A q \in Procs \ {p} : pc'[q] = pc[q]
  BY ZenonT(30) DEF IInv, TypeOK, sched, At
<1>4. CpuInv(c)'
  <2>1. /\ proc'[c] = None /\ spin'[c] = None /\ noff'[c] = 1 /\ ~intr'[c]
        /\ spc'[c] = "D3" /\ idx'[c] = p /\ \A l \in Locks : cpu'[l] = c <=> l = p
    BY <1>1, ZenonT(30) DEF IInv, TypeOK, sched, cpus
  <2> QED
    BY <2>1, StillIdle, SMTT(30) DEF Depth, Holds, HasLk, HasOwn, Interruptible
<1>5. OthersSame(c, p)
  BY <1>3, ZenonT(30) DEF OthersSame, IInv, TypeOK, sched, cpus
<1>6. OnceInv'
  BY ZenonT(30) DEF IInv, OnceInv, TypeOK, sched
<1>7. StateInv'
  <2>1. ~OnCpu(p)' /\ \A q \in Procs \ {p} : OnCpu(q)' <=> OnCpu(q)
    BY <1>1, SMTT(30) DEF IInv, OnceInv, TypeOK, OnCpu, sched
  <2>2. OnCpu(p)
    BY <1>1, Zenon DEF OnCpu
  <2> QED
    BY <1>1, <1>3, <2>1, <2>2 DEF IInv, StateInv, sched
<1>8. HolderInv'
  BY <1>1, <1>3, ZenonT(30) DEF IInv, HolderInv, sched, InCS, Yielding
<1>9. WidxInv' /\ NoLostWakeup'
  BY <1>1, <1>3, ZenonT(30) DEF IInv, WidxInv, NoLostWakeup, sched
<1> QED
  BY <1>1, <1>2, <1>4, <1>5, <1>6, <1>7, <1>8, <1>9, Others, Zenon DEF IInv

\* sched() returns with p->lock held.
LEMMA resume_inv ==
    ASSUME IInv, NEW c \in Cpus, NEW p \in Procs, resume(c, p)
    PROVE  IInv'
<1> USE SchedAssumption DEF Procs, Locks, lk
<1>1. /\ proc[c] = p /\ pc[p] \in {"S4", "Y4"} /\ spin[c] = None /\ noff[c] = 1 /\ ~intr[c]
      /\ spc[c] = "D2" /\ idx[c] = p /\ \A l \in Locks : cpu[l] = c <=> l = p
  BY Running, SMTT(30) DEF resume, At, Depth, Holds, HasLk, HasOwn, Interruptible
<1>2. /\ pc'[p] = IF pc[p] = "S4" THEN "A1" ELSE ret[p]
      /\ pc'[p] \in {"U", "CS", "A1", "R1"} 
      /\ \A q \in Procs \ {p} : pc'[q] = pc[q] /\ chan'[q] = chan[q]
  BY ZenonT(30) DEF IInv, TypeOK, resume
<1>3. TypeOK'
  BY <1>1, <1>2, SMTT(30) DEF IInv, TypeOK, resume, sch
<1>4. CpuInv(c)'
  <2>1. /\ proc'[c] = p /\ spin'[c] = None /\ noff'[c] = 0
        /\ spc'[c] = "D2" /\ idx'[c] = p /\ \A l \in Locks : cpu'[l] # c
    BY <1>1, SMTT(30) DEF IInv, TypeOK, resume, sch
  <2>2. /\ Depth(pc'[p]) = 0 /\ pc'[p] \in Interruptible
        /\ \A l \in Locks : ~Holds(pc'[p], p, widx'[p], l)
    BY <1>2, Zenon DEF Depth, Holds, HasLk, HasOwn, Interruptible
  <2> HIDE SchedAssumption DEF Procs, Locks
  <2> QED
    BY <2>1, <2>2, StillRunning
<1>5. OthersSame(c, p)
  <2>1. \A l \in Locks : cpu'[l] = IF l = p THEN None ELSE cpu[l]
    BY Zenon DEF IInv, TypeOK, resume
  <2>2. \A d \in Cpus \ {c} : noff'[d] = noff[d] /\ intr'[d] = intr[d]
    BY ZenonT(30) DEF IInv, TypeOK, resume
  <2> QED
    BY <1>1, <1>2, <2>1, <2>2, SMTT(30) DEF OthersSame, resume, sch
<1>6. StateInv' /\ OnceInv' /\ HolderInv' /\ WidxInv' /\ NoLostWakeup'
  <2>1. UNCHANGED <<proc, state, ret, widx, holder>>
    BY Zenon DEF resume
  <2>2. InCS(p)' <=> InCS(p)
    BY <1>1, <1>2, <2>1, Zenon DEF InCS, Yielding
  <2> QED
    BY <1>1, <1>2, <1>3, <2>1, <2>2, Moves, ZenonT(30)
<1> QED
  BY <1>1, <1>3, <1>4, <1>5, <1>6, Others, Zenon DEF IInv

\* Nobody is between the test of lk->locked and sleep(): that takes lk.
LEMMA releasesleep_inv ==
    ASSUME IInv, NEW c \in Cpus, NEW p \in Procs, releasesleep(c, p)
    PROVE  IInv'
<1> USE SchedAssumption DEF Procs, Locks, lk
<1>1. /\ proc[c] = p /\ pc[p] = "R2" /\ spin[c] = None /\ noff[c] = 1 /\ ~intr[c]
      /\ spc[c] = "D2" /\ idx[c] = p /\ \A l \in Locks : cpu[l] = c <=> l = lk
  BY Running DEF releasesleep, At, Depth, Holds, HasLk, HasOwn, Interruptible
<1>2. TypeOK'
  BY <1>1, SMTT(30) DEF IInv, TypeOK, releasesleep, cpus, sch
<1>3. CpuInv(c)'
  <2>1. /\ proc'[c] = p /\ pc'[p] = "W0" /\ spin'[c] = None /\ noff'[c] = 1 /\ ~intr'[c]
        /\ spc'[c] = "D2" /\ idx'[c] = p /\ \A l \in Locks : cpu'[l] = c <=> l = lk
    BY <1>1, ZenonT(30) DEF IInv, TypeOK, releasesleep, cpus, sch
  <2> QED
    BY <2>1, StillRunning, SMTT(30) DEF Depth, Holds, HasLk, HasOwn, Interruptible
<1>4. OthersSame(c, p)
  BY <1>1, ZenonT(30) DEF OthersSame, IInv, TypeOK, releasesleep, cpus, sch
<1>5. StateInv'
  BY <1>1, SMTT(30) DEF IInv, StateInv, TypeOK, OnCpu, releasesleep
<1>6. OnceInv'
  BY Zenon DEF IInv, OnceInv, releasesleep
<1>7. HolderInv'
  <2>1. ASSUME NEW q \in Procs, pc[q] \in {"S1", "S2"} PROVE FALSE
    <3>1. PICK d \in Cpus : proc[d] = q
      BY <2>1, Zenon DEF IInv, StateInv, OnCpu
    <3>2. cpu[lk] = d
      BY <2>1, <3>1, Running DEF Holds, HasLk
    <3> QED
      BY <1>1, <2>1, <3>1, <3>2, Zenon
  <2>2. \A q \in Procs : pc'[q] \notin {"S1", "S2"} /\ ~InCS(q)'
    BY <1>1, <2>1, SMTT(30) DEF IInv, HolderInv, TypeOK, InCS, Yielding, releasesleep
  <2> QED
    BY <2>2 DEF HolderInv, releasesleep
<1>8. WidxInv'
  BY <1>1, ZenonT(30) DEF IInv, WidxInv, TypeOK, releasesleep
<1>9. NoLostWakeup'
  BY <1>1 DEF IInv, NoLostWakeup, TypeOK, releasesleep
<1> QED
  BY <1>1, <1>2, <1>3, <1>4, <1>5, <1>6, <1>7, <1>8, <1>9, Others, Zenon DEF IInv

\* wakeup() passes over its caller, which is running.
LEMMA wakeup_loop_inv ==
    ASSUME IInv, NEW c \in Cpus, NEW p \in Procs, wakeup_loop(c, p)
    PROVE  IInv'
<1> USE SchedAssumption DEF Procs, Locks, lk
<1>1. /\ proc[c] = p /\ pc[p] = "W0" /\ spin[c] = None /\ noff[c] = 1 /\ ~intr[c]
      /\ spc[c] = "D2" /\ idx[c] = p /\ \A l \in Locks : cpu[l] = c <=> l = lk
  BY Running DEF wakeup_loop, At, Depth, Holds, HasLk, HasOwn, Interruptible
<1>2. TypeOK'
  <2>1. pc' \in [Procs -> {"F", "U", "CS", "A1", "A2", "S1", "S2", "S3", "S4",
                          "R1", "R2", "W0", "W1", "W2", "Y1", "Y2", "Y3", "Y4"}]
    BY ZenonT(30) DEF IInv, TypeOK, wakeup_loop
  <2>2. widx' \in [Procs -> 1 .. NPROC + 1]
    <3>1. CASE widx[p] = p
      <4>1. widx' = [widx EXCEPT ![p] = p + 1] /\ p + 1 \in 1 .. NPROC + 1
        BY <3>1 DEF IInv, TypeOK, wakeup_loop
      <4> QED
        BY <4>1, Zenon DEF IInv, TypeOK
    <3>2. CASE widx[p] # p
      BY <3>2, Zenon DEF IInv, TypeOK, wakeup_loop
    <3> QED
      BY <3>1, <3>2, Zenon
  <2> QED
    BY <2>1, <2>2, Zenon DEF IInv, TypeOK, wakeup_loop, cpus, sch
<1>3. /\ \/ widx[p] = p /\ widx'[p] = p + 1 /\ pc'[p] = "W0"
         \/ widx[p] \in Procs /\ widx[p] # p /\ widx'[p] = widx[p] /\ pc'[p] = "W1"
      /\ \A q \in Procs \ {p} : pc'[q] = pc[q] /\ widx'[q] = widx[q]
      /\ UNCHANGED <<cpu, cpus, spin, proc, sch, state, chan, ret, saved, holder>>
  BY <1>1, SMTT(30) DEF IInv, TypeOK, wakeup_loop
<1>4. CpuInv(c)'
  BY <1>1, <1>3, StillRunning, SMTT(30) DEF Depth, Holds, HasLk, HasOwn, Interruptible, cpus, sch
<1>5. OthersSame(c, p)
  BY <1>3, Zenon DEF OthersSame, cpus, sch
<1>6. StateInv' /\ OnceInv'
  BY <1>1, <1>3 DEF IInv, StateInv, OnceInv, OnCpu
<1>7. HolderInv'
  BY <1>1, <1>3, ZenonT(30) DEF IInv, HolderInv, InCS, Yielding
<1>8. WidxInv'
  BY <1>1, <1>3, ZenonT(30) DEF IInv, WidxInv
<1>9. NoLostWakeup'
  <2>1. state[p] # "SLEEPING"
    BY <1>1, Zenon DEF IInv, StateInv, OnCpu
  <2> SUFFICES ASSUME NEW s \in Procs, state'[s] = "SLEEPING", holder' = None
               PROVE  \E q \in Procs : pc'[q] \in {"W0", "W1", "W2"} /\ widx'[q] <= s
    BY Zenon DEF NoLostWakeup
  <2>2. s # p /\ \E q \in Procs : pc[q] \in {"W0", "W1", "W2"} /\ widx[q] <= s
    BY <1>3, <2>1, Zenon DEF IInv, NoLostWakeup
  <2>3. PICK q \in Procs : pc[q] \in {"W0", "W1", "W2"} /\ widx[q] <= s
    BY <2>2, Zenon
  <2>4. CASE q = p
    BY <1>3, <2>2, <2>3, <2>4
  <2>5. CASE q # p
    BY <1>3, <2>3, <2>5, Zenon
  <2> QED
    BY <2>4, <2>5, Zenon
<1> QED
  BY <1>1, <1>2, <1>4, <1>5, <1>6, <1>7, <1>8, <1>9, Others, Zenon DEF IInv

\* The process wakeup() looks at is off the CPU if it sleeps: on its way into
\* sched() it would hold its own lock.
LEMMA wakeup_inv ==
    ASSUME IInv, NEW c \in Cpus, NEW p \in Procs, wakeup(c, p)
    PROVE  IInv'
<1> USE SchedAssumption DEF Procs, Locks, lk
<1>1. /\ proc[c] = p /\ pc[p] = "W2" /\ spin[c] = None /\ noff[c] = 2 /\ ~intr[c]
      /\ spc[c] = "D2" /\ idx[c] = p /\ \A l \in Locks : cpu[l] = c <=> l \in {lk, widx[p]}
  BY Running DEF wakeup, At, Depth, Holds, HasLk, HasOwn, Interruptible
<1>2. widx[p] \in Procs /\ widx[p] # p
  BY <1>1, Zenon DEF IInv, WidxInv
<1>3. PICK w \in Procs : w = widx[p]
  BY <1>2, Zenon
<1>4. TypeOK'
  <2>1. state' \in [Procs -> {"RUNNABLE", "RUNNING", "SLEEPING"}]
    BY <1>2, ZenonT(30) DEF IInv, TypeOK, wakeup
  <2>2. /\ cpu' \in [Locks -> Cpus \cup {None}] /\ noff' \in [Cpus -> 0 .. 2 + NPROC]
        /\ intr' \in [Cpus -> BOOLEAN] /\ intena' \in [Cpus -> BOOLEAN]
    BY <1>1, <1>2, SMTT(30) DEF IInv, TypeOK, wakeup, release, pop_off
  <2>3. widx' \in [Procs -> 1 .. NPROC + 1]
    BY <1>2, SMTT(30) DEF IInv, TypeOK, wakeup
  <2>4. pc' \in [Procs -> {"F", "U", "CS", "A1", "A2", "S1", "S2", "S3", "S4",
                          "R1", "R2", "W0", "W1", "W2", "Y1", "Y2", "Y3", "Y4"}]
    BY Zenon DEF IInv, TypeOK, wakeup
  <2> QED
    BY <2>1, <2>2, <2>3, <2>4, Zenon DEF IInv, TypeOK, wakeup, sch
<1>5. CpuInv(c)'
  <2>1. /\ proc'[c] = p /\ pc'[p] = "W0" /\ spin'[c] = None /\ noff'[c] = 1 /\ ~intr'[c]
        /\ spc'[c] = "D2" /\ idx'[c] = p /\ \A l \in Locks : cpu'[l] = c <=> l = lk
    BY <1>1, <1>2, SMTT(30) DEF IInv, TypeOK, wakeup, release, pop_off, sch
  <2> QED
    BY <2>1, StillRunning, SMTT(30) DEF Depth, Holds, HasLk, HasOwn, Interruptible
<1>6. OthersSame(c, p)
  <2>1. \A l \in Locks : cpu'[l] = IF l = w THEN None ELSE cpu[l]
    BY <1>3, Zenon DEF IInv, TypeOK, wakeup, release
  <2>2. \A d \in Cpus \ {c} : noff'[d] = noff[d] /\ intr'[d] = intr[d]
    BY Zenon DEF IInv, TypeOK, wakeup, release, pop_off
  <2>3. \A q \in Procs \ {p} : pc'[q] = pc[q] /\ widx'[q] = widx[q]
    BY ZenonT(30) DEF IInv, TypeOK, wakeup
  <2>4. cpu[w] = c /\ None \notin Cpus
    BY <1>1, <1>3, Zenon
  <2>5. \A d \in Cpus \ {c}, l \in Locks : cpu'[l] = d <=> cpu[l] = d
    BY <2>1, <2>4, Zenon
  <2>6. UNCHANGED <<proc, spc, idx, spin>>
    BY Zenon DEF wakeup, sch
  <2> QED
    BY <2>2, <2>3, <2>5, <2>6, Zenon DEF OthersSame
<1>7. StateInv'
  <2>1. OnCpu(w) => state[w] # "SLEEPING"
    <3> SUFFICES ASSUME NEW d \in Cpus, proc[d] = w, pc[w] = "S3" PROVE FALSE
      BY Zenon DEF IInv, StateInv, OnCpu
    <3>1. cpu[w] = d
      BY Running DEF Holds, HasOwn
    <3> QED
      BY <1>1, <1>2, <1>3, <3>1, Zenon
  <2>2. /\ \A q \in Procs \ {p} : pc'[q] = pc[q]
        /\ \A q \in Procs \ {w} : state'[q] = state[q]
        /\ pc'[p] = "W0" /\ UNCHANGED <<proc, chan>>
        /\ state'[w] = IF state[w] = "SLEEPING" /\ chan[w] THEN "RUNNABLE" ELSE state[w]
    BY <1>3, ZenonT(30) DEF IInv, TypeOK, wakeup
  <2>3. \A q \in Procs : OnCpu(q)' <=> OnCpu(q)
    BY <2>2, Zenon DEF OnCpu
  <2>4. OnCpu(p)
    BY <1>1, Zenon DEF OnCpu
  <2> QED
    BY <1>1, <1>2, <1>3, <2>1, <2>2, <2>3, <2>4 DEF IInv, StateInv
<1>8. OnceInv'
  BY Zenon DEF IInv, OnceInv, wakeup
<1>9. HolderInv'
  <2>1. /\ pc'[p] = "W0" /\ \A q \in Procs \ {p} : pc'[q] = pc[q]
        /\ UNCHANGED <<ret, holder>>
    BY ZenonT(30) DEF IInv, TypeOK, wakeup
  <2> QED
    BY <1>1, <2>1, Zenon DEF IInv, HolderInv, InCS, Yielding
<1>10. WidxInv'
  BY <1>1, ZenonT(30) DEF IInv, WidxInv, TypeOK, wakeup
<1>11. NoLostWakeup'
  <2>1. state'[w] # "SLEEPING"
    <3>1. state[w] = "SLEEPING" => chan[w]
      BY Zenon DEF IInv, StateInv
    <3> QED
      BY <1>3, <3>1, ZenonT(30) DEF IInv, TypeOK, wakeup
  <2>2. /\ \A q \in Procs : state'[q] = "SLEEPING" => state[q] = "SLEEPING"
        /\ \A q \in Procs \ {p} : pc'[q] = pc[q] /\ widx'[q] = widx[q]
        /\ pc'[p] = "W0" /\ widx'[p] = w + 1 /\ holder' = holder
    BY <1>2, <1>3, ZenonT(30) DEF IInv, TypeOK, wakeup
  <2> QED
    BY <1>1, <1>3, <2>1, <2>2 DEF IInv, NoLostWakeup
<1> QED
  BY <1>1, <1>4, <1>5, <1>6, <1>7, <1>8, <1>9, <1>10, <1>11, Others, ZenonT(30) DEF IInv

\* wakeup() has passed the whole table (proc.c:570-584).
LEMMA wakeup_done_inv ==
    ASSUME IInv, NEW c \in Cpus, NEW p \in Procs, wakeup_done(c, p)
    PROVE  IInv'
<1> USE SchedAssumption DEF Procs, Locks, lk
<1>1. /\ proc[c] = p /\ pc[p] = "W0" /\ spin[c] = None /\ noff[c] = 1 /\ ~intr[c]
      /\ spc[c] = "D2" /\ idx[c] = p /\ \A l \in Locks : cpu[l] = c <=> l = lk
  BY Running, SMTT(30) DEF wakeup_done, At, Depth, Holds, HasLk, HasOwn, Interruptible
<1>2. TypeOK'
  BY <1>1, SMTT(30) DEF IInv, TypeOK, wakeup_done, release, pop_off, sch
<1>3. CpuInv(c)'
  <2>1. /\ proc'[c] = p /\ pc'[p] = "U" /\ spin'[c] = None /\ noff'[c] = 0
        /\ spc'[c] = "D2" /\ idx'[c] = p /\ \A l \in Locks : cpu'[l] # c
    BY <1>1, SMTT(30) DEF IInv, TypeOK, wakeup_done, release, pop_off, sch
  <2> QED
    BY <2>1, StillRunning, SMTT(30) DEF Depth, Holds, HasLk, HasOwn, Interruptible
<1>4. OthersSame(c, p)
  BY <1>1, SMTT(30) DEF OthersSame, IInv, TypeOK, wakeup_done, release, pop_off, sch
<1>5. StateInv'
  BY <1>1, SMTT(30) DEF IInv, StateInv, TypeOK, OnCpu, wakeup_done
<1>6. OnceInv'
  BY Zenon DEF IInv, OnceInv, wakeup_done
<1>7. HolderInv'
  <2>1. /\ pc'[p] = "U" /\ \A q \in Procs \ {p} : pc'[q] = pc[q]
        /\ UNCHANGED <<ret, holder>>
    BY Zenon DEF IInv, TypeOK, wakeup_done
  <2> QED
    BY <1>1, <2>1, Zenon DEF IInv, HolderInv, InCS, Yielding
<1>8. WidxInv'
  BY <1>1, ZenonT(30) DEF IInv, WidxInv, TypeOK, wakeup_done
<1>9. NoLostWakeup'
  BY <1>1 DEF IInv, NoLostWakeup, TypeOK, wakeup_done
<1> QED
  BY <1>1, <1>2, <1>3, <1>4, <1>5, <1>6, <1>7, <1>8, <1>9, Others, Zenon DEF IInv

\* Interrupts are on only where no spin lock is held or awaited.
LEMMA timer_inv ==
    ASSUME IInv, NEW c \in Cpus, NEW p \in Procs, timer(c, p)
    PROVE  IInv'
<1> USE SchedAssumption DEF Procs, Locks, lk
<1>1. /\ proc[c] = p /\ pc[p] \in {"U", "CS", "A1", "R1"} /\ spin[c] = None /\ noff[c] = 0
      /\ spc[c] = "D2" /\ idx[c] = p /\ \A l \in Locks : cpu[l] # c
  <2>1. pc[p] \in {"U", "CS", "A1", "R1"}
    <3>1. pc[p] \in Interruptible
      BY Running, ZenonT(30) DEF timer
    <3> QED
      BY <3>1, Zenon DEF IInv, TypeOK, Interruptible
  <2> QED
    BY <2>1, Running DEF timer, Depth, Holds, HasLk, HasOwn, Interruptible
<1>2. TypeOK'
  BY <1>1, Zenon DEF IInv, TypeOK, timer, sch
<1>3. /\ pc'[p] = "Y1" /\ ret'[p] = pc[p] /\ ~intr'[c]
      /\ \A q \in Procs \ {p} : pc'[q] = pc[q] /\ ret'[q] = ret[q]
      /\ UNCHANGED <<cpu, noff, spin, proc, sch, state, chan, widx, holder>>
  BY DEF IInv, TypeOK, timer
<1>4. CpuInv(c)'
  BY <1>1, <1>3, StillRunning, SMTT(30) DEF Depth, Holds, HasLk, HasOwn, Interruptible, sch
<1>5. OthersSame(c, p)
  BY DEF OthersSame, IInv, TypeOK, timer, sch
<1>6. StateInv' /\ OnceInv' /\ HolderInv' /\ WidxInv' /\ NoLostWakeup'
  <2>1. InCS(p)' <=> InCS(p)
    BY <1>1, <1>3, Zenon DEF InCS, Yielding
  <2> QED
    BY <1>1, <1>2, <1>3, <2>1, Moves, Zenon
<1> QED
  BY <1>1, <1>2, <1>4, <1>5, <1>6, Others, ZenonT(30) DEF IInv

\* kkill() marks its process and makes a sleeper runnable (proc.c:589-608).
LEMMA kkill_inv ==
    ASSUME IInv, NEW q \in Procs, kkill(q)
    PROVE  IInv'
<1> USE SchedAssumption DEF Procs, Locks, lk
<1>1. TypeOK'
  BY Zenon DEF IInv, TypeOK, kkill, cpus, sch
<1>2. ASSUME NEW d \in Cpus PROVE CpuInv(d)'
  BY Frame, Zenon DEF IInv, kkill, cpus, sch
<1>3. StateInv'
  <2>1. ~OnCpu(q)
    <3> SUFFICES ASSUME NEW d \in Cpus, proc[d] = q, pc[q] = "S3" PROVE FALSE
      BY Zenon DEF IInv, StateInv, OnCpu, kkill
    <3> QED
      BY Running DEF Holds, HasOwn, kkill
  <2>2. \A p \in Procs : OnCpu(p)' <=> OnCpu(p)
    BY Zenon DEF OnCpu, kkill
  <2> QED
    BY <2>1, <2>2 DEF IInv, StateInv, TypeOK, kkill
<1>4. OnceInv' /\ HolderInv' /\ WidxInv'
  BY ZenonT(30) DEF IInv, OnceInv, HolderInv, WidxInv, InCS, Yielding, kkill
<1>5. NoLostWakeup'
  BY Zenon DEF IInv, NoLostWakeup, TypeOK, kkill
<1> QED
  BY <1>1, <1>2, <1>3, <1>4, <1>5, Zenon DEF IInv

-----------------------------------------------------------------------------
(* The steps of the scheduler.                                             *)

\* What no step within scheduler() concerns.
LEMMA Aside ==
    ASSUME IInv, UNCHANGED <<proc, state, chan, pc, ret, widx, holder>>
    PROVE  StateInv' /\ OnceInv' /\ HolderInv' /\ WidxInv' /\ NoLostWakeup'
<1>1. StateInv' /\ OnceInv'
  BY ZenonT(30) DEF IInv, StateInv, OnceInv, OnCpu
<1>2. HolderInv' /\ WidxInv' /\ NoLostWakeup'
  BY Zenon DEF IInv, HolderInv, WidxInv, NoLostWakeup, InCS, Yielding
<1> QED
  BY <1>1, <1>2, ZenonT(30)

\* scheduler() starts a round with interrupts on (proc.c:433-446).
LEMMA round_inv ==
    ASSUME IInv, NEW c \in Cpus, round(c)
    PROVE  IInv'
<1> USE SchedAssumption DEF Procs, Locks, lk
<1>1. /\ proc[c] = None /\ spc[c] \in {"D0", "wfi"} /\ spin[c] = None /\ noff[c] = 0
      /\ \A l \in Locks : cpu[l] # c
  BY Idle, SMTT(30) DEF round, Depth, Holds, HasLk, HasOwn, Interruptible
<1>2. TypeOK'
  BY SMTT(30) DEF IInv, TypeOK, round
<1>3. CpuInv(c)'
  <2>1. /\ proc'[c] = None /\ spc'[c] = "D1" /\ spin'[c] = None /\ noff'[c] = 0
        /\ ~intr'[c] /\ \A l \in Locks : cpu'[l] # c
    BY <1>1, ZenonT(30) DEF IInv, TypeOK, round
  <2> QED
    BY <2>1, StillIdle, SMTT(30) DEF Depth, Holds, HasLk, HasOwn, Interruptible
<1>4. OthersSame(c, None)
  BY ZenonT(30) DEF OthersSame, IInv, TypeOK, round
<1>5. StateInv' /\ OnceInv' /\ HolderInv' /\ WidxInv' /\ NoLostWakeup'
  BY Aside, Zenon DEF round
<1> QED
  BY <1>1, <1>2, <1>3, <1>4, <1>5, Others, Zenon DEF IInv

\* scheduler() begins acquire(&p->lock): push_off().
LEMMA sched_acquire_inv ==
    ASSUME IInv, NEW c \in Cpus, sched_acquire(c)
    PROVE  IInv'
<1> USE SchedAssumption DEF Procs, Locks, lk
<1>1. /\ proc[c] = None /\ spc[c] = "D1" /\ spin[c] = None /\ noff[c] = 0
      /\ idx[c] \in Procs /\ \A l \in Locks : cpu[l] # c
  <2>1. idx[c] \in Procs
    BY SMTT(30) DEF sched_acquire, IInv, TypeOK
  <2> QED
    BY <2>1, Idle DEF sched_acquire, acquire, Depth, Holds, HasLk, HasOwn, Interruptible
<1>2. TypeOK'
  BY <1>1, SMTT(30) DEF IInv, TypeOK, sched_acquire, acquire, push_off, sch
<1>3. CpuInv(c)'
  <2>1. /\ proc'[c] = None /\ spc'[c] = "D1" /\ spin'[c] = idx[c] /\ noff'[c] = 1
        /\ idx'[c] = idx[c] /\ ~intr'[c] /\ \A l \in Locks : cpu'[l] # c
    BY <1>1 DEF IInv, TypeOK, sched_acquire, acquire, push_off, sch
  <2> QED
    BY <1>1, <2>1, StillIdle, SMTT(30) DEF Depth, Holds, HasLk, HasOwn, Interruptible
<1>4. OthersSame(c, None)
  BY ZenonT(30) DEF OthersSame, IInv, TypeOK, sched_acquire, acquire, push_off, sch
<1>5. StateInv' /\ OnceInv' /\ HolderInv' /\ WidxInv' /\ NoLostWakeup'
  BY Aside, Zenon DEF sched_acquire, acquire
<1> QED
  BY <1>1, <1>2, <1>3, <1>4, <1>5, Others, Zenon DEF IInv

\* scheduler() gets p->lock.
LEMMA sched_spin_inv ==
    ASSUME IInv, NEW c \in Cpus, sched_spin(c)
    PROVE  IInv'
<1> USE SchedAssumption DEF Procs, Locks, lk
<1>1. /\ proc[c] = None /\ spc[c] = "D1" /\ spin[c] = idx[c] /\ noff[c] = 1 /\ ~intr[c]
      /\ idx[c] \in Procs /\ \A l \in Locks : cpu[l] # c
  <2>1. idx[c] \in Procs
    <3>1. spin[c] = idx[c]
      BY Idle, Zenon DEF sched_spin
    <3>2. spin[c] \in Locks /\ idx[c] \in 1 .. NPROC + 1
      BY ZenonT(30) DEF sched_spin, IInv, TypeOK
    <3> QED
      BY <3>1, <3>2
  <2> QED
    BY <2>1, Idle DEF sched_spin, Depth, Holds, HasLk, HasOwn, Interruptible
<1>2. TypeOK'
  BY <1>1, Zenon DEF IInv, TypeOK, sched_spin, cpus
<1>3. CpuInv(c)'
  <2>1. /\ proc'[c] = None /\ spc'[c] = "D2" /\ spin'[c] = None /\ noff'[c] = 1
        /\ idx'[c] = idx[c] /\ ~intr'[c] /\ \A l \in Locks : cpu'[l] = c <=> l = idx[c]
    BY <1>1, Zenon DEF IInv, TypeOK, sched_spin, cpus
  <2> QED
    BY <1>1, <2>1, StillIdle, SMTT(30) DEF Depth, Holds, HasLk, HasOwn, Interruptible
<1>4. OthersSame(c, None)
  BY <1>1, ZenonT(30) DEF OthersSame, IInv, TypeOK, sched_spin, cpus
<1>5. StateInv' /\ OnceInv' /\ HolderInv' /\ WidxInv' /\ NoLostWakeup'
  BY Aside, Zenon DEF sched_spin
<1> QED
  BY <1>1, <1>2, <1>3, <1>4, <1>5, Others, Zenon DEF IInv

\* A process found RUNNABLE under its lock runs nowhere: on its way into
\* sched() it would hold that lock.
LEMMA dispatch_inv ==
    ASSUME IInv, NEW c \in Cpus, dispatch(c)
    PROVE  IInv'
<1> USE SchedAssumption DEF Procs, Locks, lk
<1>1. /\ proc[c] = None /\ spc[c] = "D2" /\ spin[c] = None /\ noff[c] = 1 /\ ~intr[c]
      /\ idx[c] \in Procs /\ \A l \in Locks : cpu[l] = c <=> l = idx[c]
  BY Idle DEF dispatch, Depth, Holds, HasLk, HasOwn, Interruptible
<1>2. PICK p \in Procs : p = idx[c]
  BY <1>1, Zenon
<1>3. ~OnCpu(p)
  <2> SUFFICES ASSUME NEW d \in Cpus, proc[d] = p PROVE FALSE
    BY Zenon DEF OnCpu
  <2>1. pc[p] = "Y3"
    BY <1>2, ZenonT(30) DEF IInv, StateInv, OnCpu, dispatch
  <2>2. cpu[p] = d
    BY <2>1, Running DEF Holds, HasOwn
  <2> QED
    BY <1>1, <1>2, <2>2
<1>4. pc[p] \in {"F", "S4", "Y4"}
  BY <1>3, Zenon DEF IInv, StateInv
<1>5. TypeOK'
  BY <1>1, ZenonT(30) DEF IInv, TypeOK, dispatch, cpus, sch
<1>6. /\ proc'[c] = p /\ \A d \in Cpus \ {c} : proc'[d] = proc[d]
      /\ state'[p] = "RUNNING" /\ \A q \in Procs \ {p} : state'[q] = state[q]
      /\ UNCHANGED <<cpu, cpus, spin, sch, chan, pc, ret, widx, holder>>
  BY <1>2, ZenonT(30) DEF IInv, TypeOK, dispatch
<1>7. CpuInv(c)'
  BY <1>1, <1>2, <1>4, <1>6, StillRunning, SMTT(30) DEF Depth, Holds, HasLk, HasOwn, Interruptible, cpus, sch
<1>8. OthersSame(c, None)
  BY <1>6, Zenon DEF OthersSame, cpus, sch
<1>9. StateInv' /\ OnceInv'
  <2>1. OnCpu(p)' /\ \A q \in Procs \ {p} : OnCpu(q)' <=> OnCpu(q)
    BY <1>1, <1>6, SMTT(30) DEF OnCpu
  <2>2. StateInv'
    BY <1>4, <1>6, <2>1 DEF IInv, StateInv
  <2>3. OnceInv'
    BY <1>3, <1>6, ZenonT(30) DEF IInv, OnceInv, OnCpu
  <2> QED
    BY <2>2, <2>3, Zenon
<1>10. HolderInv' /\ WidxInv' /\ NoLostWakeup'
  BY <1>6, ZenonT(30) DEF IInv, HolderInv, WidxInv, NoLostWakeup, InCS, Yielding
<1> QED
  BY <1>1, <1>5, <1>7, <1>8, <1>9, <1>10, Others, ZenonT(30) DEF IInv

\* scheduler() releases p->lock and goes on to the next slot.
LEMMA advance_inv ==
    ASSUME IInv, NEW c \in Cpus, advance(c)
    PROVE  IInv'
<1> USE SchedAssumption DEF Procs, Locks, lk
<1>1. /\ proc[c] = None /\ spc[c] \in {"D2", "D3"} /\ spin[c] = None /\ noff[c] = 1 /\ ~intr[c]
      /\ idx[c] \in Procs /\ \A l \in Locks : cpu[l] = c <=> l = idx[c]
  BY Idle DEF advance, Depth, Holds, HasLk, HasOwn, Interruptible
<1>2. TypeOK'
  <2>1. found' \in [Cpus -> BOOLEAN]
    BY ZenonT(30) DEF IInv, TypeOK, advance
  <2>2. /\ cpu' \in [Locks -> Cpus \cup {None}] /\ noff' \in [Cpus -> 0 .. 2 + NPROC]
        /\ intr' \in [Cpus -> BOOLEAN] /\ intena' \in [Cpus -> BOOLEAN]
    BY <1>1, SMTT(30) DEF IInv, TypeOK, advance, release, pop_off
  <2>3. /\ idx' \in [Cpus -> 1 .. NPROC + 1] /\ spc' \in [Cpus -> {"D0", "D1", "D2", "D3", "wfi"}]
    BY <1>1, SMTT(30) DEF IInv, TypeOK, advance
  <2> QED
    BY <2>1, <2>2, <2>3, Zenon DEF IInv, TypeOK, advance
<1>3. CpuInv(c)'
  <2>1. /\ proc'[c] = None /\ spc'[c] = "D1" /\ spin'[c] = None /\ noff'[c] = 0
        /\ \A l \in Locks : cpu'[l] # c
    BY <1>1, SMTT(30) DEF IInv, TypeOK, advance, release, pop_off
  <2> QED
    BY <2>1, StillIdle, SMTT(30) DEF Depth, Holds, HasLk, HasOwn, Interruptible
<1>4. OthersSame(c, None)
  BY <1>1, SMTT(30) DEF OthersSame, IInv, TypeOK, advance, release, pop_off
<1>5. StateInv' /\ OnceInv' /\ HolderInv' /\ WidxInv' /\ NoLostWakeup'
  BY Aside, Zenon DEF advance
<1> QED
  BY <1>1, <1>2, <1>3, <1>4, <1>5, Others, ZenonT(30) DEF IInv

\* scheduler() has passed the whole table.
LEMMA round_done_inv ==
    ASSUME IInv, NEW c \in Cpus, round_done(c)
    PROVE  IInv'
<1> USE SchedAssumption DEF Procs, Locks, lk
<1>1. /\ proc[c] = None /\ spc[c] = "D1" /\ spin[c] = None /\ noff[c] = 0
      /\ \A l \in Locks : cpu[l] # c
  <2>1. spin[c] = None
    <3>1. spin[c] \in Locks \cup {None} /\ idx[c] \notin Locks
      BY DEF IInv, TypeOK, round_done
    <3> QED
      BY <3>1, Idle, ZenonT(30) DEF round_done
  <2> QED
    BY <2>1, Idle DEF round_done, Depth, Holds, HasLk, HasOwn, Interruptible
<1>2. TypeOK'
  BY Zenon DEF IInv, TypeOK, round_done, cpus
<1>3. CpuInv(c)'
  <2>1. /\ proc'[c] = None /\ spc'[c] \in {"D0", "wfi"} /\ spin'[c] = None /\ noff'[c] = 0
        /\ \A l \in Locks : cpu'[l] # c
    BY <1>1, Zenon DEF IInv, TypeOK, round_done, cpus
  <2> QED
    BY <2>1, StillIdle, SMTT(30) DEF Depth, Holds, HasLk, HasOwn, Interruptible
<1>4. OthersSame(c, None)
  BY Zenon DEF OthersSame, IInv, TypeOK, round_done, cpus
<1>5. StateInv' /\ OnceInv' /\ HolderInv' /\ WidxInv' /\ NoLostWakeup'
  BY Aside, Zenon DEF round_done
<1> QED
  BY <1>1, <1>2, <1>3, <1>4, <1>5, Others, Zenon DEF IInv

-----------------------------------------------------------------------------
\* At first every CPU is in scheduler() and holds no lock.
LEMMA InitIInv == Init => IInv
<1> SUFFICES ASSUME Init PROVE IInv
  BY Zenon
<1> USE SchedAssumption DEF Procs, Locks, lk
<1>1. TypeOK
  BY SMTT(30) DEF Init, TypeOK
<1>2. ASSUME NEW c \in Cpus PROVE CpuInv(c)
  BY SMTT(30) DEF Init, CpuInv, Label, Looks, Wants, Holds, Depth, HasLk, HasOwn, Interruptible
<1>3. StateInv /\ OnceInv /\ HolderInv /\ WidxInv /\ NoLostWakeup
  BY DEF Init, StateInv, OnCpu, OnceInv, HolderInv, InCS, Yielding, WidxInv, NoLostWakeup
<1> QED
  BY <1>1, <1>2, <1>3, Zenon DEF IInv

\* Every step keeps the invariant.
LEMMA NextIInv == IInv /\ [Next]_vars => IInv'
<1> SUFFICES ASSUME IInv, [Next]_vars PROVE IInv'
  BY Zenon
<1>1. ASSUME NEW c \in Cpus, scheduler(c) PROVE IInv'
  BY <1>1, round_inv, sched_acquire_inv, sched_spin_inv, dispatch_inv, advance_inv,
     round_done_inv, Zenon DEF scheduler
<1>2. ASSUME NEW c \in Cpus, NEW p \in Procs, Step(c, p) PROVE IInv'
  BY <1>2, proc_acquire_inv, proc_spin_inv, forkret_inv, call_inv, take_inv, busy_inv,
     sleep_inv, yield_inv, sched_inv, resume_inv, releasesleep_inv, wakeup_loop_inv,
     wakeup_inv, wakeup_done_inv, Zenon DEF Step
<1>3. CASE UNCHANGED vars
  <2>1. UNCHANGED <<proc, state, chan, pc, ret, widx, holder>>
    BY <1>3, Zenon DEF vars
  <2>2. ASSUME NEW d \in Cpus PROVE CpuInv(d)'
    BY <1>3, Frame, ZenonT(30) DEF IInv, vars
  <2>3. TypeOK'
    BY <1>3, Zenon DEF IInv, TypeOK, vars
  <2> QED
    BY <2>1, <2>2, <2>3, Aside, Zenon DEF IInv
<1> QED
  BY <1>1, <1>2, <1>3, timer_inv, kkill_inv, Zenon DEF Next

\* The invariant of the scheduler, for any number of CPUs and processes.
THEOREM SchedInvariant == Spec => []IInv
  BY InitIInv, NextIInv, PTL DEF Spec

\* Between acquiresleep() and releasesleep() there is one process, a process
\* runs on one CPU, and interrupts are off wherever a spin lock is held.
THEOREM ExclusiveHolds == Spec => []Exclusive
<1>1. IInv => Exclusive
  <2> SUFFICES ASSUME IInv PROVE Exclusive
    BY Zenon
  <2> USE SchedAssumption DEF Procs, Locks, lk
  <2>1. TypeOK /\ Mutex
    BY Zenon DEF IInv, HolderInv, Mutex
  <2>2. OneCpu
    <3>1. ASSUME NEW c \in Cpus, proc[c] # None, state[proc[c]] # "RUNNING"
          PROVE  holding(c, proc[c])
      <4>1. PICK p \in Procs : proc[c] = p
        BY <3>1, ZenonT(30) DEF IInv, TypeOK
      <4>2. pc[p] \in {"S3", "Y3"}
        BY <3>1, <4>1, ZenonT(30) DEF IInv, StateInv, OnCpu
      <4> QED
        BY <4>1, <4>2, Running DEF Holds, HasOwn, holding
    <3> QED
      BY <3>1, ZenonT(30) DEF IInv, OneCpu, OnceInv, StateInv, OnCpu
  <2>3. IntrOff
    <3> SUFFICES ASSUME NEW c \in Cpus, intr[c]
                 PROVE  spin[c] = None /\ noff[c] = 0 /\ \A l \in Locks : ~holding(c, l)
      BY Zenon DEF IntrOff
    <3> QED
      BY DEF IInv, CpuInv, Holds, Depth, HasLk, HasOwn, Interruptible, holding
  <2> QED
    BY <2>1, <2>2, <2>3, Zenon DEF Exclusive
<1> QED
  BY <1>1, SchedInvariant, PTL

\* No process sleeps on a free lock unless a wakeup() is on its way to it.
THEOREM NoLostWakeupHolds == Spec => []NoLostWakeup
<1>1. IInv => NoLostWakeup
  BY Zenon DEF IInv
<1> QED
  BY <1>1, SchedInvariant, PTL

\* No panic of acquire(), release(), pop_off() or sched() can be reached.
THEOREM NoSchedPanicHolds == Spec => []NoSchedPanic
<1>1. IInv => NoSchedPanic
  <2> SUFFICES ASSUME IInv PROVE NoSchedPanic
    BY Zenon
  <2> USE SchedAssumption DEF Procs, Locks, lk
  <2>1. ASSUME NEW c \in Cpus, NEW p \in Procs, proc[c] = p, spin[c] = None
        PROVE  /\ pc[p] \in DOMAIN Acquiring => ~holding(c, Wanted(p))
               /\ pc[p] \in {"S3", "Y3"} =>
                    holding(c, p) /\ noff[c] = 1 /\ state[p] # "RUNNING" /\ ~intr[c]
               /\ pc[p] \in {"S4", "Y4", "F"} => holding(c, p) /\ ~intr[c] /\ noff[c] = 1
               /\ pc[p] \in {"A2", "S2", "R2", "W0", "W1", "W2"} => holding(c, lk) /\ ~intr[c]
    <3>1. pc[p] = "W1" => widx[p] \in Procs /\ widx[p] # p
      BY Zenon DEF IInv, WidxInv
    <3>2. pc[p] \in {"S3", "Y3"} => state[p] # "RUNNING"
      BY <2>1, Zenon DEF IInv, StateInv, OnCpu
    <3>3. /\ \A l \in Locks : cpu[l] = c <=> Holds(pc[p], p, widx[p], l)
          /\ noff[c] = Depth(pc[p]) /\ (intr[c] => pc[p] \in Interruptible)
      BY <2>1, Running, SMTT(30) DEF Depth
    <3>4. pc[p] \in DOMAIN Acquiring => ~holding(c, Wanted(p))
      BY <3>1, <3>3 DEF holding, Holds, HasLk, HasOwn, Acquiring, Wanted
    <3> QED
      BY <3>2, <3>3, <3>4, Zenon DEF holding, Holds, HasLk, HasOwn, Depth, Interruptible
  <2>2. ASSUME NEW c \in Cpus, proc[c] = None, spc[c] \in {"D2", "D3"}
        PROVE  holding(c, idx[c]) /\ ~intr[c] /\ noff[c] = 1
    <3>1. idx[c] \in Procs /\ spin[c] = None
      BY <2>2, Idle, Zenon
    <3> QED
      BY <2>2, <3>1, Idle DEF holding, Holds, HasLk, HasOwn, Depth, Interruptible
  <2>3. ASSUME NEW c \in Cpus, proc[c] # None PROVE proc[c] \in Procs
    BY <2>3, Zenon DEF IInv, TypeOK
  <2> QED
    BY <2>1, <2>2, <2>3, Zenon DEF NoSchedPanic
<1> QED
  BY <1>1, SchedInvariant, PTL
=============================================================================
