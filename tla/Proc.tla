-------------------------------- MODULE Proc --------------------------------
(***************************************************************************)
(* The life of processes in xv6 (kernel/proc.c): fork, exit, wait, kill    *)
(* and pause, the process table and the process tree. Running and being    *)
(* RUNNABLE are one state, as Sched covers the switching. A step is a      *)
(* critical section; on the one CPU of the SoC a section that holds        *)
(* wait_lock until it sleeps is not interrupted, but kexit() is split to   *)
(* show what its order matters for. A system call by a process that has    *)
(* been killed does not start: usertrap() makes it exit.                   *)
(***************************************************************************)
EXTENDS Naturals, FiniteSetsExt

CONSTANTS NPROC,      \* slots of the process table
          MaxPid,     \* bound: the last pid given out
          KillPids    \* the arguments that kill() is called with

ASSUME ProcAssumption == NPROC \in Nat \ {0} /\ MaxPid \in Nat \ {0}

Procs == 1 .. NPROC
initproc == 1
None == 0

VARIABLES
    state, parent, killed, pid,   \* struct proc
    nextpid,
    pc,          \* where each process is: in user code or in a system call
    child,       \* the slot that a fork in progress has allocated
    wait_lock    \* who holds it

proc == <<state, parent, killed, pid>>
vars == <<state, parent, killed, pid, nextpid, pc, child, wait_lock>>

States == {"UNUSED", "USED", "RUNNABLE", "SLEEPING", "ZOMBIE"}

TypeOK ==
    /\ state \in [Procs -> States]
    /\ parent \in [Procs -> Procs \cup {None}]
    /\ killed \in [Procs -> BOOLEAN]
    /\ pid \in [Procs -> 0 .. MaxPid]
    /\ nextpid \in 1 .. MaxPid + 1
    /\ pc \in [Procs -> {"user", "fork1", "fork2", "wait", "pause", "exit1", "exit2"}]
    /\ child \in [Procs -> Procs \cup {None}]
    /\ wait_lock \in Procs \cup {None}

\* After userinit().
Init ==
    /\ state = [p \in Procs |-> IF p = initproc THEN "RUNNABLE" ELSE "UNUSED"]
    /\ parent = [p \in Procs |-> None]
    /\ killed = [p \in Procs |-> FALSE]
    /\ pid = [p \in Procs |-> IF p = initproc THEN 1 ELSE 0]
    /\ nextpid = 2
    /\ pc = [p \in Procs |-> "user"]
    /\ child = [p \in Procs |-> None]
    /\ wait_lock = None

Children(p) == {pp \in Procs : parent[pp] = p}
Zombies(p) == {pp \in Children(p) : state[pp] = "ZOMBIE"}

Runs(p, at) == state[p] = "RUNNABLE" /\ pc[p] = at
Goto(p, at) == pc' = [pc EXCEPT ![p] = at]

\* What p sleeps on: itself in wait(), &ticks in pause().
ticks == NPROC + 1
chan(p) == IF pc[p] = "wait" THEN p ELSE ticks

\* wakeup(c), on the states st: the sleepers leave sleep() and go on.
wakeup(st, c) ==
    [p \in Procs |-> IF st[p] = "SLEEPING" /\ chan(p) = c THEN "RUNNABLE" ELSE st[p]]

-----------------------------------------------------------------------------
Free == {p \in Procs : state[p] = "UNUSED"}

allocpid == nextpid

\* kfork() up to release(&np->lock). Memory may run out (allocproc, uvmcopy),
\* in which case freeproc() undoes everything but the pid.
fork_alloc(p) ==
    /\ Runs(p, "user") /\ ~killed[p] /\ nextpid <= MaxPid
    /\ Free # {}
    /\ LET np == Min(Free)
       IN  /\ state' = [state EXCEPT ![np] = "USED"]
           /\ pid' = [pid EXCEPT ![np] = allocpid]
           /\ child' = [child EXCEPT ![p] = np]
    /\ nextpid' = nextpid + 1
    /\ Goto(p, "fork1")
    /\ UNCHANGED <<parent, killed, wait_lock>>

freeproc(np) ==
    /\ state' = [state EXCEPT ![np] = "UNUSED"]
    /\ pid' = [pid EXCEPT ![np] = 0]
    /\ parent' = [parent EXCEPT ![np] = None]
    /\ killed' = [killed EXCEPT ![np] = FALSE]

fork_fail(p) ==
    /\ Runs(p, "user") /\ ~killed[p] /\ nextpid <= MaxPid
    /\ Free # {} /\ freeproc(Min(Free))
    /\ nextpid' = nextpid + 1
    /\ UNCHANGED <<pc, child, wait_lock>>

fork_parent(p) ==
    /\ Runs(p, "fork1") /\ wait_lock = None
    /\ parent' = [parent EXCEPT ![child[p]] = p]
    /\ Goto(p, "fork2")
    /\ UNCHANGED <<state, killed, pid, nextpid, child, wait_lock>>

fork_runnable(p) ==
    /\ Runs(p, "fork2")
    /\ state' = [state EXCEPT ![child[p]] = "RUNNABLE"]
    /\ pc' = [pc EXCEPT ![p] = "user", ![child[p]] = "user"]
    /\ child' = [child EXCEPT ![p] = None]
    /\ UNCHANGED <<parent, killed, pid, nextpid, wait_lock>>

kfork(p) == fork_alloc(p) \/ fork_fail(p) \/ fork_parent(p) \/ fork_runnable(p)

-----------------------------------------------------------------------------
\* exit(), or usertrap() on behalf of a killed process. init does not exit: it
\* would panic.
exit(p) ==
    /\ Runs(p, "user") /\ p # initproc
    /\ Goto(p, "exit1")
    /\ UNCHANGED <<proc, nextpid, child, wait_lock>>

\* Mutant: init is not told of the children it inherits.
reparent_silent(p, st) == st

\* reparent(p): what its wakeup(initproc) makes of the states st.
reparent(p, st) ==
    IF Children(p) # {} THEN wakeup(st, initproc) ELSE st

\* Mutant: the children keep their dying parent.
exit_reparent_none(p) ==
    /\ Runs(p, "exit1") /\ wait_lock = None
    /\ wait_lock' = p
    /\ parent' = parent
    /\ state' = wakeup(reparent(p, state), parent[p])
    /\ Goto(p, "exit2")
    /\ UNCHANGED <<killed, pid, nextpid, child>>

\* kexit() from acquire(&wait_lock): reparent(p), then wakeup(p->parent).
exit_reparent(p) ==
    /\ Runs(p, "exit1") /\ wait_lock = None
    /\ wait_lock' = p
    /\ parent' = [pp \in Procs |-> IF parent[pp] = p THEN initproc ELSE parent[pp]]
    /\ state' = wakeup(reparent(p, state), parent[p])
    /\ Goto(p, "exit2")
    /\ UNCHANGED <<killed, pid, nextpid, child>>

exit_zombie(p) ==
    /\ Runs(p, "exit2")
    /\ state' = [state EXCEPT ![p] = "ZOMBIE"]
    /\ wait_lock' = None
    /\ UNCHANGED <<parent, killed, pid, nextpid, pc, child>>

kexit(p) == exit(p) \/ exit_reparent(p) \/ exit_zombie(p)

-----------------------------------------------------------------------------
wait(p) ==
    /\ Runs(p, "user") /\ ~killed[p]
    /\ Goto(p, "wait")
    /\ UNCHANGED <<proc, nextpid, child, wait_lock>>

\* Mutant: the status is copied out and the slot is not freed.
wait_reap_leaks(p) ==
    /\ Runs(p, "wait") /\ wait_lock = None
    /\ Zombies(p) # {}
    /\ Goto(p, "user")
    /\ UNCHANGED <<proc, nextpid, child, wait_lock>>

\* A zombie is found: free it, unless copyout() of its status fails
\* (init asks for none).
wait_reap(p) ==
    /\ Runs(p, "wait") /\ wait_lock = None
    /\ Zombies(p) # {}
    /\ freeproc(Min(Zombies(p))) \/ (p # initproc /\ UNCHANGED proc)
    /\ Goto(p, "user")
    /\ UNCHANGED <<nextpid, child, wait_lock>>

\* No zombie: return -1, or sleep(p, &wait_lock) and scan again.
wait_none(p) ==
    /\ Runs(p, "wait") /\ wait_lock = None
    /\ Zombies(p) = {}
    /\ IF Children(p) = {} \/ killed[p]
         THEN Goto(p, "user") /\ UNCHANGED state
         ELSE /\ state' = [state EXCEPT ![p] = "SLEEPING"]
              /\ UNCHANGED pc
    /\ UNCHANGED <<parent, killed, pid, nextpid, child, wait_lock>>

kwait(p) == wait(p) \/ wait_reap(p) \/ wait_none(p)

\* pause(n): sleep(&ticks, &tickslock) until enough ticks have passed.
\* init never pauses.
sys_pause(p) ==
    /\ Runs(p, "user") /\ ~killed[p] /\ p # initproc
    /\ state' = [state EXCEPT ![p] = "SLEEPING"]
    /\ Goto(p, "pause")
    /\ UNCHANGED <<parent, killed, pid, nextpid, child, wait_lock>>

pause_again(p) ==
    /\ Runs(p, "pause")
    /\ \/ Goto(p, "user") /\ UNCHANGED state
       \/ /\ ~killed[p] /\ UNCHANGED pc
          /\ state' = [state EXCEPT ![p] = "SLEEPING"]
    /\ UNCHANGED <<parent, killed, pid, nextpid, child, wait_lock>>

\* clockintr(): wakeup(&ticks).
clockintr ==
    /\ state' = wakeup(state, ticks)
    /\ UNCHANGED <<parent, killed, pid, nextpid, pc, child, wait_lock>>

\* kkill(i): the first slot with that pid.
kkill(i) ==
    LET found == {p \in Procs : pid[p] = i}
        p == Min(found)
    IN  /\ found # {}
        /\ killed' = [killed EXCEPT ![p] = TRUE]
        /\ state' = [state EXCEPT ![p] = IF @ = "SLEEPING" THEN "RUNNABLE" ELSE @]
        /\ UNCHANGED <<parent, pid, nextpid, pc, child, wait_lock>>

Next == \/ clockintr
        \/ \E i \in KillPids : kkill(i)
        \/ \E p \in Procs : kfork(p) \/ kexit(p) \/ kwait(p) \/ sys_pause(p) \/ pause_again(p)

Spec == Init /\ [][Next]_vars

\* The scheduler lets every process go on in its system call; init waits again
\* and again (init.c); a killed process exits when it next reaches user code.
\* A lock that is free for good is got: MaxPid bounds how often it is taken.
FairSpec ==
    /\ Spec
    /\ \A p \in Procs :
         /\ WF_vars(\/ fork_parent(p) \/ fork_runnable(p)
                    \/ exit_reparent(p) \/ exit_zombie(p)
                    \/ wait_reap(p) \/ wait_none(p))
         /\ WF_vars(pause_again(p) /\ pc'[p] = "user")
         /\ WF_vars(exit(p) /\ killed[p])
    /\ WF_vars(wait(initproc))

-----------------------------------------------------------------------------
\* Every process has a parent that can still wait for it (proc.c:295, 312-317,
\* 345-358): the tree has no orphans, also in the middle of an exit.
NoOrphans ==
    \A p \in Procs \ {initproc} :
       state[p] \in {"RUNNABLE", "SLEEPING", "ZOMBIE"} =>
          /\ parent[p] # None
          /\ state[parent[p]] \in {"RUNNABLE", "SLEEPING"}

\* Nobody sleeps in wait() beside a zombie or without a child (proc.c:351,
\* 404-410, 315).
WaitJustified ==
    \A p \in Procs : state[p] = "SLEEPING" /\ pc[p] = "wait" /\ wait_lock = None =>
       Children(p) # {} /\ Zombies(p) = {}

\* "Kill the process with the given pid" (proc.c:586): no slot that holds no
\* process is marked, so nobody is born killed.
KilledIsAlive == \A p \in Procs : killed[p] => state[p] # "UNUSED"

\* The process tree is sound: no orphans, and the kill flags are those of
\* processes.
Tree == TypeOK /\ NoOrphans /\ KilledIsAlive

\* init catches up with its zombies, its own children and those it inherits
\* from parents that have died (init.c:39-51, proc.c:348).
InitReaps == []<>(Zombies(initproc) = {})

\* Whoever is killed dies, wherever it is (proc.c:598-601, trap.c:80-84).
KillEnds == []<>(\A p \in Procs : killed[p] => state[p] \in {"ZOMBIE", "UNUSED"})
=============================================================================
