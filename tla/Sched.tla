------------------------------- MODULE Sched --------------------------------
(***************************************************************************)
(* Spin locks, interrupts, the scheduler, sleep() and wakeup(), and the    *)
(* sleep lock built on them (kernel/spinlock.c, proc.c, sleeplock.c), on   *)
(* any number of CPUs. A step is what a thread does between two operations *)
(* on spin locks; acquire() is two steps, interrupts off and then the      *)
(* atomic swap, as other CPUs and interrupts get in between. Each process  *)
(* takes and gives back one sleep lock for ever; a timer interrupt makes   *)
(* it yield wherever interrupts are on.                                    *)
(***************************************************************************)
EXTENDS Integers, FiniteSets

CONSTANTS Cpus,    \* processors
          NPROC,   \* size of the process table
          None     \* nobody

ASSUME SchedAssumption == NPROC \in Nat \ {0} /\ None \notin Cpus \cup (0 .. NPROC)

Procs == 1 .. NPROC
lk == 0                    \* the spin lock inside the sleep lock
Locks == {lk} \cup Procs   \* it, and p->lock of every process

VARIABLES
    cpu,       \* lk->cpu: the CPU that holds each spin lock, or None
    intr,      \* interrupts enabled on each CPU (sstatus.SIE)
    noff,      \* depth of push_off() nesting
    intena,    \* were interrupts enabled before the outermost push_off()
    spin,      \* the lock a CPU spins for, or None
    proc,      \* c->proc, None while the scheduler runs
    spc,       \* where the scheduler of each CPU is
    idx,       \* its loop variable
    found,     \* has it run anything in this round
    state,     \* p->state
    chan,      \* p->chan is the sleep lock
    pc,        \* where each process is
    ret,       \* where it was interrupted
    saved,     \* the local variable intena of sched()
    widx,      \* the loop variable of wakeup()
    holder     \* the process that holds the sleep lock, or None

cpus == <<intr, noff, intena>>
sch == <<spc, idx, found>>
vars == <<cpu, intr, noff, intena, spin, proc, spc, idx, found, state, chan, pc,
          ret, saved, widx, holder>>

\* What a thread does after it got the spin lock it asks for at a label.
Acquiring == [A1 |-> "A2", S1 |-> "S2", R1 |-> "R2", W1 |-> "W2", Y1 |-> "Y2"]

TypeOK ==
    /\ cpu \in [Locks -> Cpus \cup {None}]
    /\ intr \in [Cpus -> BOOLEAN] /\ intena \in [Cpus -> BOOLEAN]
    /\ noff \in [Cpus -> 0 .. 2 + NPROC]
    /\ spin \in [Cpus -> Locks \cup {None}]
    /\ proc \in [Cpus -> Procs \cup {None}]
    /\ spc \in [Cpus -> {"D0", "D1", "D2", "D3", "wfi"}]
    /\ idx \in [Cpus -> 1 .. NPROC + 1] /\ found \in [Cpus -> BOOLEAN]
    /\ state \in [Procs -> {"RUNNABLE", "RUNNING", "SLEEPING"}]
    /\ chan \in [Procs -> BOOLEAN] /\ saved \in [Procs -> BOOLEAN]
    /\ pc \in [Procs -> {"F", "U", "CS", "A1", "A2", "S1", "S2", "S3", "S4",
                         "R1", "R2", "W0", "W1", "W2", "Y1", "Y2", "Y3", "Y4"}]
    /\ ret \in [Procs -> {"U", "CS", "A1", "R1"}]
    /\ widx \in [Procs -> 1 .. NPROC + 1]
    /\ holder \in Procs \cup {None}

Init ==
    /\ cpu = [l \in Locks |-> None]
    /\ intr = [c \in Cpus |-> FALSE] /\ intena = [c \in Cpus |-> FALSE]
    /\ noff = [c \in Cpus |-> 0]
    /\ spin = [c \in Cpus |-> None]
    /\ proc = [c \in Cpus |-> None]
    /\ spc = [c \in Cpus |-> "D0"] /\ idx = [c \in Cpus |-> 1]
    /\ found = [c \in Cpus |-> FALSE]
    /\ state = [p \in Procs |-> "RUNNABLE"]
    /\ chan = [p \in Procs |-> FALSE] /\ saved = [p \in Procs |-> FALSE]
    /\ pc = [p \in Procs |-> "F"] /\ ret = [p \in Procs |-> "U"]
    /\ widx = [p \in Procs |-> 1]
    /\ holder = None

-----------------------------------------------------------------------------
holding(c, l) == cpu[l] = c

push_off(c) ==
    /\ intena' = [intena EXCEPT ![c] = IF noff[c] = 0 THEN intr[c] ELSE @]
    /\ intr' = [intr EXCEPT ![c] = FALSE]
    /\ noff' = [noff EXCEPT ![c] = @ + 1]

pop_off(c) ==
    /\ ~intr[c] /\ noff[c] >= 1
    /\ noff' = [noff EXCEPT ![c] = @ - 1]
    /\ intr' = [intr EXCEPT ![c] = noff[c] = 1 /\ intena[c]]
    /\ UNCHANGED intena

\* acquire(l) starts: interrupts off, and the test for a lock held already.
acquire(c, l) ==
    /\ spin[c] = None
    /\ ~holding(c, l)
    /\ push_off(c)
    /\ spin' = [spin EXCEPT ![c] = l]
    /\ UNCHANGED <<cpu, proc, sch, state, chan, pc, ret, saved, widx, holder>>

release(c, l) ==
    /\ holding(c, l)
    /\ cpu' = [cpu EXCEPT ![l] = None]
    /\ pop_off(c)

\* Process p runs on CPU c, is at label a, and is not spinning.
At(c, p, a) == proc[c] = p /\ pc[p] = a /\ spin[c] = None

\* The lock process p is about to acquire.
Wanted(p) == IF pc[p] \in {"A1", "R1"} THEN lk
             ELSE IF pc[p] = "W1" THEN widx[p] ELSE p

proc_acquire(c, p) ==
    /\ proc[c] = p /\ pc[p] \in DOMAIN Acquiring
    /\ acquire(c, Wanted(p))

\* The atomic swap succeeds.
proc_spin(c, p) ==
    /\ proc[c] = p /\ spin[c] # None
    /\ cpu[spin[c]] = None
    /\ cpu' = [cpu EXCEPT ![spin[c]] = c]
    /\ spin' = [spin EXCEPT ![c] = None]
    /\ pc' = [pc EXCEPT ![p] = Acquiring[@]]
    /\ UNCHANGED <<cpus, proc, sch, state, chan, ret, saved, widx, holder>>

-----------------------------------------------------------------------------
\* A new process starts in forkret(), which releases p->lock and returns to
\* user space.
forkret(c, p) ==
    /\ At(c, p, "F")
    /\ holding(c, p)
    /\ cpu' = [cpu EXCEPT ![p] = None]
    /\ noff' = [noff EXCEPT ![c] = @ - 1]
    /\ intr' = [intr EXCEPT ![c] = TRUE]
    /\ pc' = [pc EXCEPT ![p] = "U"]
    /\ UNCHANGED <<intena, spin, proc, sch, state, chan, ret, saved, widx, holder>>

\* The process calls acquiresleep(), or releasesleep() when it has the lock.
call(c, p) ==
    /\ \/ At(c, p, "U") /\ pc' = [pc EXCEPT ![p] = "A1"]
       \/ At(c, p, "CS") /\ pc' = [pc EXCEPT ![p] = "R1"]
    /\ UNCHANGED <<cpu, cpus, spin, proc, sch, state, chan, ret, saved, widx, holder>>

\* Mutant: lk->locked is not tested again after sleep().
take_untested(c, p) ==
    /\ At(c, p, "A2")
    /\ holder' = p
    /\ release(c, lk)
    /\ pc' = [pc EXCEPT ![p] = "CS"]
    /\ UNCHANGED <<spin, proc, sch, state, chan, ret, saved, widx>>

\* acquiresleep() looks at lk->locked.
take(c, p) ==
    /\ At(c, p, "A2") /\ holder = None
    /\ holder' = p
    /\ release(c, lk)
    /\ pc' = [pc EXCEPT ![p] = "CS"]
    /\ UNCHANGED <<spin, proc, sch, state, chan, ret, saved, widx>>

busy(c, p) ==
    /\ At(c, p, "A2") /\ holder # None
    /\ pc' = [pc EXCEPT ![p] = "S1"]
    /\ UNCHANGED <<cpu, cpus, spin, proc, sch, state, chan, ret, saved, widx, holder>>

\* sleep(), once it has p->lock: release lk and go to sleep.
sleep(c, p) ==
    /\ At(c, p, "S2")
    /\ release(c, lk)
    /\ chan' = [chan EXCEPT ![p] = TRUE]
    /\ state' = [state EXCEPT ![p] = "SLEEPING"]
    /\ pc' = [pc EXCEPT ![p] = "S3"]
    /\ UNCHANGED <<spin, proc, sch, ret, saved, widx, holder>>

\* yield(), once it has p->lock.
yield(c, p) ==
    /\ At(c, p, "Y2")
    /\ state' = [state EXCEPT ![p] = "RUNNABLE"]
    /\ pc' = [pc EXCEPT ![p] = "Y3"]
    /\ UNCHANGED <<cpu, cpus, spin, proc, sch, chan, ret, saved, widx, holder>>

\* sched(): the tests that panic, and the switch to the scheduler.
sched(c, p) ==
    /\ \/ At(c, p, "S3") /\ pc' = [pc EXCEPT ![p] = "S4"]
       \/ At(c, p, "Y3") /\ pc' = [pc EXCEPT ![p] = "Y4"]
    /\ holding(c, p) /\ noff[c] = 1 /\ state[p] # "RUNNING" /\ ~intr[c]
    /\ saved' = [saved EXCEPT ![p] = intena[c]]
    /\ proc' = [proc EXCEPT ![c] = None]
    /\ spc' = [spc EXCEPT ![c] = "D3"]
    /\ UNCHANGED <<cpu, cpus, spin, idx, found, state, chan, ret, widx, holder>>

\* sched() returns, maybe on another CPU, restores intena and p->lock is
\* released. sleep() goes on to reacquire lk; the interrupt handler that
\* called yield() returns to what it interrupted.
resume(c, p) ==
    /\ At(c, p, "S4") \/ At(c, p, "Y4")
    /\ holding(c, p) /\ ~intr[c] /\ noff[c] >= 1
    /\ cpu' = [cpu EXCEPT ![p] = None]
    /\ intena' = [intena EXCEPT ![c] = saved[p]]
    /\ noff' = [noff EXCEPT ![c] = @ - 1]
    /\ intr' = [intr EXCEPT ![c] = noff[c] = 1 /\ (saved[p] \/ pc[p] = "Y4")]
    /\ chan' = [chan EXCEPT ![p] = @ /\ pc[p] = "Y4"]
    /\ pc' = [pc EXCEPT ![p] = IF @ = "S4" THEN "A1" ELSE ret[p]]
    /\ UNCHANGED <<spin, proc, sch, state, ret, saved, widx, holder>>

\* releasesleep(), once it has lk.
releasesleep(c, p) ==
    /\ At(c, p, "R2")
    /\ holder' = None
    /\ widx' = [widx EXCEPT ![p] = 1]
    /\ pc' = [pc EXCEPT ![p] = "W0"]
    /\ UNCHANGED <<cpu, cpus, spin, proc, sch, state, chan, ret, saved>>

\* The loop of wakeup(): every process but the caller is locked in turn.
wakeup_loop(c, p) ==
    /\ At(c, p, "W0") /\ widx[p] <= NPROC
    /\ IF widx[p] = p
       THEN widx' = [widx EXCEPT ![p] = @ + 1] /\ UNCHANGED pc
       ELSE pc' = [pc EXCEPT ![p] = "W1"] /\ UNCHANGED widx
    /\ UNCHANGED <<cpu, cpus, spin, proc, sch, state, chan, ret, saved, holder>>

\* Mutant: only the first sleeper is woken.
wakeup_one(c, p) ==
    /\ At(c, p, "W2")
    /\ LET q == widx[p]
       IN  /\ state' = [state EXCEPT ![q] = IF @ = "SLEEPING" /\ chan[q]
                                            THEN "RUNNABLE" ELSE @]
           /\ release(c, q)
    /\ widx' = [widx EXCEPT ![p] = IF state[@] = "SLEEPING" THEN NPROC + 1 ELSE @ + 1]
    /\ pc' = [pc EXCEPT ![p] = "W0"]
    /\ UNCHANGED <<spin, proc, sch, chan, ret, saved, holder>>

wakeup(c, p) ==
    /\ At(c, p, "W2")
    /\ LET q == widx[p]
       IN  /\ state' = [state EXCEPT ![q] = IF @ = "SLEEPING" /\ chan[q]
                                            THEN "RUNNABLE" ELSE @]
           /\ release(c, q)
    /\ widx' = [widx EXCEPT ![p] = @ + 1]
    /\ pc' = [pc EXCEPT ![p] = "W0"]
    /\ UNCHANGED <<spin, proc, sch, chan, ret, saved, holder>>

\* Mutant: the loop stops before the last process.
wakeup_done_early(c, p) ==
    /\ At(c, p, "W0") /\ widx[p] >= NPROC
    /\ release(c, lk)
    /\ pc' = [pc EXCEPT ![p] = "U"]
    /\ UNCHANGED <<spin, proc, sch, state, chan, ret, saved, widx, holder>>

wakeup_done(c, p) ==
    /\ At(c, p, "W0") /\ widx[p] = NPROC + 1
    /\ release(c, lk)
    /\ pc' = [pc EXCEPT ![p] = "U"]
    /\ UNCHANGED <<spin, proc, sch, state, chan, ret, saved, widx, holder>>

\* A timer interrupt in a process: the trap turns interrupts off, and
\* usertrap() or kerneltrap() calls yield().
timer(c, p) ==
    /\ proc[c] = p /\ intr[c] /\ spin[c] = None
    /\ intr' = [intr EXCEPT ![c] = FALSE]
    /\ ret' = [ret EXCEPT ![p] = pc[p]]
    /\ pc' = [pc EXCEPT ![p] = "Y1"]
    /\ UNCHANGED <<cpu, noff, intena, spin, proc, sch, state, chan, saved, widx, holder>>

\* kkill() makes a sleeper runnable, under its lock (one step: the caller
\* is any other CPU).
kkill(q) ==
    /\ cpu[q] = None /\ state[q] = "SLEEPING"
    /\ state' = [state EXCEPT ![q] = "RUNNABLE"]
    /\ UNCHANGED <<cpu, cpus, spin, proc, sch, chan, pc, ret, saved, widx, holder>>

-----------------------------------------------------------------------------
\* A round of scheduler(): interrupts on and off again, then every process
\* is locked and, if it can run, run. An interrupt ends wfi, be it on or off.
round(c) ==
    /\ proc[c] = None /\ spc[c] \in {"D0", "wfi"}
    /\ intr' = [intr EXCEPT ![c] = FALSE]
    /\ idx' = [idx EXCEPT ![c] = 1]
    /\ found' = [found EXCEPT ![c] = FALSE]
    /\ spc' = [spc EXCEPT ![c] = "D1"]
    /\ UNCHANGED <<cpu, noff, intena, spin, proc, state, chan, pc, ret, saved, widx, holder>>

sched_acquire(c) ==
    /\ proc[c] = None /\ spc[c] = "D1" /\ idx[c] <= NPROC
    /\ acquire(c, idx[c])

sched_spin(c) ==
    /\ proc[c] = None /\ spin[c] # None
    /\ cpu[spin[c]] = None
    /\ cpu' = [cpu EXCEPT ![spin[c]] = c]
    /\ spin' = [spin EXCEPT ![c] = None]
    /\ spc' = [spc EXCEPT ![c] = "D2"]
    /\ UNCHANGED <<cpus, proc, idx, found, state, chan, pc, ret, saved, widx, holder>>

dispatch(c) ==
    /\ proc[c] = None /\ spc[c] = "D2"
    /\ state[idx[c]] = "RUNNABLE"
    /\ state' = [state EXCEPT ![idx[c]] = "RUNNING"]
    /\ proc' = [proc EXCEPT ![c] = idx[c]]
    /\ UNCHANGED <<cpu, cpus, spin, sch, chan, pc, ret, saved, widx, holder>>

\* Not runnable, or back from the process.
advance(c) ==
    /\ proc[c] = None
    /\ \/ spc[c] = "D2" /\ state[idx[c]] # "RUNNABLE" /\ UNCHANGED found
       \/ spc[c] = "D3" /\ found' = [found EXCEPT ![c] = TRUE]
    /\ release(c, idx[c])
    /\ idx' = [idx EXCEPT ![c] = @ + 1]
    /\ spc' = [spc EXCEPT ![c] = "D1"]
    /\ UNCHANGED <<spin, proc, state, chan, pc, ret, saved, widx, holder>>

\* The end of a round. When nothing ran the CPU waits for an interrupt.
round_done(c) ==
    /\ proc[c] = None /\ spc[c] = "D1" /\ idx[c] = NPROC + 1
    /\ spc' = [spc EXCEPT ![c] = IF found[c] THEN "D0" ELSE "wfi"]
    /\ UNCHANGED <<cpu, cpus, spin, proc, idx, found, state, chan, pc, ret, saved, widx, holder>>

scheduler(c) == \/ round(c) \/ sched_acquire(c) \/ sched_spin(c)
                \/ dispatch(c) \/ advance(c) \/ round_done(c)

Step(c, p) == \/ proc_acquire(c, p) \/ proc_spin(c, p) \/ forkret(c, p)
              \/ call(c, p) \/ take(c, p) \/ busy(c, p) \/ sleep(c, p)
              \/ yield(c, p) \/ sched(c, p) \/ resume(c, p)
              \/ releasesleep(c, p) \/ wakeup_loop(c, p) \/ wakeup(c, p)
              \/ wakeup_done(c, p)

Next == \/ \E c \in Cpus : scheduler(c) \/ \E p \in Procs : Step(c, p) \/ timer(c, p)
        \/ \E q \in Procs : kkill(q)

Spec == Init /\ [][Next]_vars

Yielding(p) == pc[p] \in {"Y1", "Y2", "Y3", "Y4"}

\* Every CPU keeps executing; a timer interrupt stays pending until
\* interrupts are on again; and a process is not interrupted for ever before
\* its next instruction (clockintr() sets the timer 0.1 s ahead).
FairSpec == /\ Spec
            /\ \A c \in Cpus : /\ WF_vars(scheduler(c))
                              /\ SF_vars(\E p \in Procs : timer(c, p))
            /\ \A p \in Procs :
                 /\ WF_vars(\E c \in Cpus : Step(c, p))
                 /\ SF_vars(\E c \in Cpus : Step(c, p) /\ ~Yielding(p))

-----------------------------------------------------------------------------
\* The sleep lock excludes: between acquiresleep() and releasesleep() a
\* process is the one in lk->pid (sleeplock.c:21-41).
InCS(p) == \/ pc[p] \in {"CS", "R1", "R2"}
           \/ Yielding(p) /\ ret[p] \in {"CS", "R1"}
Mutex == \A p \in Procs : InCS(p) => holder = p

\* No lost wakeup (proc.c:544-549, "we won't miss any wakeup"): a process
\* asleep on the lock is asleep because the lock is taken, or a wakeup()
\* under way has not come to it yet.
NoLostWakeup ==
    \A p \in Procs :
       state[p] = "SLEEPING" =>
          \/ holder # None
          \/ \E q \in Procs : pc[q] \in {"W0", "W1", "W2"} /\ widx[q] <= p

\* None of the panics of acquire(), release(), pop_off() and sched() is
\* reachable: a CPU at such a call passes its tests.
NoSchedPanic ==
    \A c \in Cpus :
       /\ proc[c] # None /\ spin[c] = None =>
            LET p == proc[c] IN
            /\ pc[p] \in DOMAIN Acquiring => ~holding(c, Wanted(p))
            /\ pc[p] \in {"S3", "Y3"} =>
                 holding(c, p) /\ noff[c] = 1 /\ state[p] # "RUNNING" /\ ~intr[c]
            /\ pc[p] \in {"S4", "Y4", "F"} => holding(c, p) /\ ~intr[c] /\ noff[c] = 1
            /\ pc[p] \in {"A2", "S2", "R2", "W0", "W1", "W2"} => holding(c, lk) /\ ~intr[c]
       /\ proc[c] = None /\ spc[c] \in {"D2", "D3"} =>
            holding(c, idx[c]) /\ ~intr[c] /\ noff[c] = 1

\* A process runs on at most one CPU, and only while its state says so or
\* it is on its way into or out of sched() with p->lock held (proc.c:432-443).
OneCpu ==
    /\ \A c, d \in Cpus : proc[c] = proc[d] /\ c # d => proc[c] = None
    /\ \A c \in Cpus : proc[c] # None /\ state[proc[c]] # "RUNNING" => holding(c, proc[c])
    /\ \A p \in Procs : state[p] = "RUNNING" => \E c \in Cpus : proc[c] = p

\* Interrupts are off wherever a spin lock is held or awaited, so a handler
\* never spins for a lock of the thread it interrupted (spinlock.c:24).
IntrOff == \A c \in Cpus : intr[c] => /\ spin[c] = None /\ noff[c] = 0
                                      /\ \A l \in Locks : ~holding(c, l)

\* One process at a time: on a CPU, in the sleep lock and, because interrupts
\* are off there, inside a spin lock.
Exclusive == TypeOK /\ Mutex /\ OneCpu /\ IntrOff

\* A sleeper is woken and runs again, whoever competes for the CPU and the
\* lock (sleeplock.c:33-41, proc.c:570-584, 421-460).
SleeperRuns == \A p \in Procs : state[p] = "SLEEPING" ~> state[p] = "RUNNING"
=============================================================================
