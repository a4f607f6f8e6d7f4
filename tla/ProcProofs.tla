----------------------------- MODULE ProcProofs -----------------------------
(***************************************************************************)
(* Theorems about Proc for any size of the process table: the tree of      *)
(* processes has no orphans, nobody sleeps in wait() without a reason, and *)
(* a pid names one process.                                                *)
(***************************************************************************)
EXTENDS Proc, WellFoundedInduction, TLAPS

-----------------------------------------------------------------------------
(* The inductive invariant.                                                *)

Asleep(p) == state[p] = "SLEEPING" /\ pc[p] = "wait"
Forks(p) == state[p] = "RUNNABLE" /\ pc[p] \in {"fork1", "fork2"}

\* A slot that is not used is clean; init does not exit.
TableInv ==
    /\ \A p \in Procs : state[p] = "UNUSED" => parent[p] = None
    /\ \A p \in Procs : state[p] = "SLEEPING" => pc[p] \in {"wait", "pause"}
    /\ state[initproc] \in {"RUNNABLE", "SLEEPING"}
    /\ pc[initproc] \notin {"exit1", "exit2"}

\* A fork in progress owns a slot of its own, which nobody else runs or frees.
ForkInv ==
    /\ \A p \in Procs : Forks(p) =>
          /\ child[p] \in Procs /\ state[child[p]] = "USED"
          /\ parent[child[p]] = IF pc[p] = "fork1" THEN None ELSE p
    /\ \A p, q \in Procs : Forks(p) /\ Forks(q) /\ child[p] = child[q] => p = q

\* Between reparent() and the switch to ZOMBIE a process holds wait_lock, has
\* no children and its parent is awake, or will be before it scans again.
ExitInv ==
    \A p \in Procs : Runs(p, "exit2") =>
       wait_lock = p /\ Children(p) = {} /\ ~Asleep(parent[p])

SleepInv == \A p \in Procs : Asleep(p) => Children(p) # {} /\ Zombies(p) = {}

\* A pid is given to one slot, and it is not 0 while the slot is used.
PidInv ==
    \A p \in Procs :
       /\ pid[p] < nextpid
       /\ state[p] = "UNUSED" <=> pid[p] = 0
       /\ \A q \in Procs : pid[p] = pid[q] /\ pid[p] # 0 => p = q

IInv == TypeOK /\ TableInv /\ ForkInv /\ ExitInv /\ NoOrphans /\ SleepInv /\ PidInv

-----------------------------------------------------------------------------
Less == {s \in Nat \X Nat : s[1] < s[2]}

\* The natural numbers have no infinite descent.
LEMMA LessWF == IsWellFoundedOn(Less, Nat)
  BY NatLessThanWellFounded DEF OpToRel, Less

\* The slot that a scan of the table finds first is one of those it looks for.
LEMMA MinIn == ASSUME NEW T \in SUBSET Procs, T # {} PROVE Min(T) \in T
<1>1. T \in SUBSET Nat
  BY ProcAssumption DEF Procs
<1>2. PICK x \in T : \A y \in T : ~(<<y, x>> \in Less)
  BY <1>1, LessWF, WFMin, Zenon
<1>3. \A y \in T : <<y, x>> \in Nat \X Nat
  BY <1>1
<1>4. \A y \in T : ~(y < x)
  BY <1>2, <1>3, Zenon DEF Less
<1>5. \A y \in T : x <= y
  BY <1>1, <1>4
<1> QED
  BY <1>5 DEF Min

\* init has a slot, and no slot has the number of None.
LEMMA InitSlot == initproc \in Procs /\ None \notin Procs /\ ticks \notin Procs
  BY ProcAssumption DEF initproc, None, Procs, ticks

-----------------------------------------------------------------------------
\* A step that only makes sleepers runnable keeps the invariant.
Wakes ==
    /\ state' \in [Procs -> States]
    /\ \A p \in Procs : \/ state'[p] = state[p]
                        \/ state[p] = "SLEEPING" /\ state'[p] = "RUNNABLE"

\* wakeup() makes sleepers of one parent runnable and changes nothing else.
LEMMA WakesInv ==
    ASSUME IInv, Wakes, killed' \in [Procs -> BOOLEAN],
           UNCHANGED <<parent, pid, nextpid, pc, child, wait_lock>>
    PROVE  IInv'
<1>1. TypeOK'
  BY DEF IInv, TypeOK, Wakes
<1>2. TableInv'
  BY InitSlot DEF IInv, TableInv, Wakes
<1>3. \A p \in Procs : Forks(p)' => Forks(p)
  BY DEF IInv, TableInv, Wakes, Forks
<1>4. ForkInv'
  BY <1>3 DEF IInv, ForkInv, Wakes
<1>5. \A p \in Procs : Runs(p, "exit2")' => Runs(p, "exit2")
  BY DEF IInv, TableInv, Wakes, Runs
<1>6. \A p \in Procs : Asleep(p)' => Asleep(p)
  BY DEF Asleep, Wakes
<1>7. \A p \in Procs : Children(p)' = Children(p) /\ Zombies(p)' \subseteq Zombies(p)
  BY DEF Children, Zombies, Wakes
<1>8. \A p \in Procs : Runs(p, "exit2") => parent[p] \in Procs
  BY InitSlot DEF IInv, NoOrphans, Runs, TypeOK, TableInv, None
<1>9. ExitInv'
  BY <1>5, <1>6, <1>7, <1>8 DEF IInv, ExitInv
<1>10. NoOrphans'
  BY InitSlot DEF IInv, NoOrphans, Wakes, TypeOK
<1>11. SleepInv'
  BY <1>6, <1>7 DEF IInv, SleepInv
<1>12. PidInv'
  BY DEF IInv, PidInv, Wakes
<1> QED
  BY <1>1, <1>2, <1>4, <1>9, <1>10, <1>11, <1>12 DEF IInv

\* wakeup() only makes sleepers runnable, those on its channel.
LEMMA wakeup_wakes ==
    ASSUME NEW st \in [Procs -> States], NEW c
    PROVE  /\ wakeup(st, c) \in [Procs -> States]
           /\ \A p \in Procs :
                 /\ \/ wakeup(st, c)[p] = st[p]
                    \/ st[p] = "SLEEPING" /\ wakeup(st, c)[p] = "RUNNABLE"
                 /\ c = p /\ pc[p] = "wait" => wakeup(st, c)[p] # "SLEEPING"
  BY DEF wakeup, States, chan

\* clockintr() keeps the invariant.
LEMMA clockintr_inv == ASSUME IInv, clockintr PROVE IInv'
<1>1. state \in [Procs -> States] /\ state' = wakeup(state, ticks)
  BY DEF clockintr, IInv, TypeOK
<1>2. Wakes
  BY <1>1, wakeup_wakes DEF Wakes
<1> QED
  BY <1>2, WakesInv DEF clockintr, IInv, TypeOK

\* kkill() keeps the invariant, whatever pid it is called with.
LEMMA kkill_inv == ASSUME IInv, NEW i, kkill(i) PROVE IInv'
<1> DEFINE p == Min({q \in Procs : pid[q] = i})
<1>1. p \in Procs
  BY MinIn DEF kkill
<1> HIDE DEF p
<1>2. /\ killed' = [killed EXCEPT ![p] = TRUE]
      /\ state' = [state EXCEPT ![p] = IF @ = "SLEEPING" THEN "RUNNABLE" ELSE @]
      /\ UNCHANGED <<parent, pid, nextpid, pc, child, wait_lock>>
  BY DEF kkill, p
<1>3. Wakes
  <2>1. state \in [Procs -> States] /\ "RUNNABLE" \in States
    BY DEF IInv, TypeOK, States
  <2> QED
    BY <1>1, <1>2, <2>1 DEF Wakes
<1>4. killed' \in [Procs -> BOOLEAN]
  BY <1>1, <1>2 DEF IInv, TypeOK
<1> QED
  BY <1>2, <1>3, <1>4, WakesInv

-----------------------------------------------------------------------------
\* A step of p that moves p alone, not into fork, exit2 or sleep, and leaves the
\* table as it is, keeps the invariant.
LEMMA MoveInv ==
    ASSUME IInv, NEW p \in Procs, state[p] = "RUNNABLE", ~Forks(p), pc[p] # "exit2",
           NEW at \in {"user", "wait", "exit1"}, p = initproc => at # "exit1",
           Goto(p, at), UNCHANGED <<proc, nextpid, child, wait_lock>>
    PROVE  IInv'
<1>0. /\ pc' \in [Procs -> {"user", "fork1", "fork2", "wait", "pause", "exit1", "exit2"}]
      /\ pc'[p] = at /\ \A q \in Procs \ {p} : pc'[q] = pc[q]
      /\ UNCHANGED <<state, parent, killed, pid>>
  BY DEF IInv, TypeOK, Goto, proc
<1>1. TypeOK'
  BY <1>0, Zenon DEF IInv, TypeOK
<1>2. TableInv'
  BY <1>0, InitSlot, Zenon DEF IInv, TableInv
<1>3. \A q \in Procs : Forks(q)' <=> Forks(q) /\ q # p
  BY <1>0, Zenon DEF Forks
<1>4. ForkInv'
  BY <1>0, <1>3 DEF IInv, ForkInv
<1>5. \A q \in Procs : Runs(q, "exit2")' => Runs(q, "exit2")
  BY <1>0 DEF Runs
<1>6. \A q \in Procs : Asleep(q)' <=> Asleep(q)
  BY <1>0 DEF Asleep
<1>7. \A q \in Procs : Children(q)' = Children(q) /\ Zombies(q)' = Zombies(q)
  BY <1>0 DEF Children, Zombies
<1>8. \A q \in Procs : Runs(q, "exit2") => parent[q] \in Procs
  BY InitSlot DEF IInv, NoOrphans, Runs, TypeOK, TableInv, None
<1>9. ExitInv'
  BY <1>0, <1>5, <1>6, <1>7, <1>8, Zenon DEF IInv, ExitInv
<1>10. NoOrphans' /\ PidInv'
  BY <1>0 DEF IInv, NoOrphans, PidInv
<1>11. SleepInv'
  BY <1>6, <1>7 DEF IInv, SleepInv
<1> QED
  BY <1>1, <1>2, <1>4, <1>9, <1>10, <1>11, Zenon DEF IInv

\* A step of p that goes to sleep, in wait() with a child and no zombie, keeps
\* the invariant.
LEMMA SleepStep ==
    ASSUME IInv, NEW p \in Procs, state[p] = "RUNNABLE", ~Forks(p), pc[p] # "exit2",
           NEW at \in {"wait", "pause"}, Goto(p, at),
           at = "wait" => wait_lock = None /\ Children(p) # {} /\ Zombies(p) = {},
           state' = [state EXCEPT ![p] = "SLEEPING"],
           UNCHANGED <<parent, killed, pid, nextpid, child, wait_lock>>
    PROVE  IInv'
<1>0. /\ pc' \in [Procs -> {"user", "fork1", "fork2", "wait", "pause", "exit1", "exit2"}]
      /\ pc'[p] = at /\ \A q \in Procs \ {p} : pc'[q] = pc[q]
      /\ state' \in [Procs -> States]
      /\ state'[p] = "SLEEPING" /\ \A q \in Procs \ {p} : state'[q] = state[q]
  BY Zenon DEF IInv, TypeOK, Goto, States
<1>1. TypeOK'
  BY <1>0, Zenon DEF IInv, TypeOK
<1>2. TableInv'
  BY <1>0, InitSlot DEF IInv, TableInv
<1>3. \A q \in Procs : Forks(q)' <=> Forks(q) /\ q # p
  BY <1>0, Zenon DEF Forks
<1>4. ForkInv'
  BY <1>0, <1>3 DEF IInv, ForkInv
<1>5. \A q \in Procs : Runs(q, "exit2")' => Runs(q, "exit2") /\ q # p
  BY <1>0 DEF Runs
<1>6. \A q \in Procs : Asleep(q)' => Asleep(q) \/ (q = p /\ at = "wait")
  BY <1>0 DEF Asleep
<1>7. \A q \in Procs : Children(q)' = Children(q) /\ Zombies(q)' = Zombies(q)
  BY <1>0 DEF Children, Zombies
<1>8. \A q \in Procs : Runs(q, "exit2") => parent[q] \in Procs
  BY InitSlot, ZenonT(30) DEF IInv, NoOrphans, Runs, TypeOK, TableInv, None
<1>9. ExitInv'
  BY <1>5, <1>6, <1>7, <1>8, InitSlot DEF IInv, ExitInv
<1>10. NoOrphans'
  BY <1>0 DEF IInv, NoOrphans, TypeOK
<1>11. PidInv'
  BY <1>0 DEF IInv, PidInv
<1>12. SleepInv'
  BY <1>6, <1>7 DEF IInv, SleepInv
<1> QED
  BY <1>1, <1>2, <1>4, <1>9, <1>10, <1>11, <1>12, Zenon DEF IInv

-----------------------------------------------------------------------------
(* fork                                                                    *)

\* allocproc() takes a slot that nobody uses.
LEMMA fork_alloc_inv == ASSUME IInv, NEW p \in Procs, fork_alloc(p) PROVE IInv'
<1> DEFINE np == Min(Free)
<1>1. np \in Procs /\ state[np] = "UNUSED"
  BY MinIn DEF Free, fork_alloc
<1> HIDE DEF np
<1>2. /\ state[p] = "RUNNABLE" /\ pc[p] = "user" /\ np # p
      /\ nextpid <= MaxPid /\ nextpid' = nextpid + 1
      /\ state' = [state EXCEPT ![np] = "USED"]
      /\ pid' = [pid EXCEPT ![np] = nextpid]
      /\ child' = [child EXCEPT ![p] = np]
      /\ pc' = [pc EXCEPT ![p] = "fork1"]
      /\ UNCHANGED <<parent, killed, wait_lock>>
  BY <1>1 DEF fork_alloc, Runs, Goto, allocpid, np
<1>3. /\ state'[np] = "USED" /\ \A q \in Procs \ {np} : state'[q] = state[q]
      /\ pid'[np] = nextpid /\ \A q \in Procs \ {np} : pid'[q] = pid[q]
      /\ child'[p] = np /\ \A q \in Procs \ {p} : child'[q] = child[q]
      /\ pc'[p] = "fork1" /\ \A q \in Procs \ {p} : pc'[q] = pc[q]
  BY <1>1, <1>2, Zenon DEF IInv, TypeOK
<1>4. TypeOK'
  <2>1. nextpid \in 0 .. MaxPid /\ nextpid' \in 1 .. MaxPid + 1
    BY <1>2, ProcAssumption DEF IInv, TypeOK
  <2> QED
    BY <1>1, <1>2, <2>1, Zenon DEF IInv, TypeOK, States
<1>5. TableInv' /\ NoOrphans'
  BY <1>1, <1>2, <1>3, InitSlot DEF IInv, TableInv, NoOrphans, TypeOK
<1>6. \A q \in Procs : Forks(q)' <=> Forks(q) \/ q = p
  BY <1>1, <1>2, <1>3 DEF Forks
<1>7. ForkInv'
  <2>1. parent[np] = None
    BY <1>1, Zenon DEF IInv, TableInv
  <2>2. \A q \in Procs : Forks(q) => q # p /\ child[q] # np
    BY <1>1, <1>2, Zenon DEF IInv, ForkInv, Forks
  <2> QED
    BY <1>1, <1>2, <1>3, <1>6, <2>1, <2>2 DEF IInv, ForkInv
<1>8. \A q \in Procs : /\ Runs(q, "exit2")' <=> Runs(q, "exit2")
                       /\ Asleep(q)' <=> Asleep(q)
                       /\ Children(q)' = Children(q) /\ Zombies(q)' = Zombies(q)
  BY <1>1, <1>2, <1>3 DEF Runs, Asleep, Children, Zombies
<1>9. \A q \in Procs : Runs(q, "exit2") => parent[q] \in Procs
  BY InitSlot DEF IInv, NoOrphans, Runs, TypeOK, TableInv, None
<1>10. ExitInv' /\ SleepInv'
  BY <1>2, <1>8, <1>9, Zenon DEF IInv, ExitInv, SleepInv
<1>11. PidInv'
  BY <1>1, <1>2, <1>3 DEF IInv, PidInv, TypeOK
<1> QED
  BY <1>4, <1>5, <1>7, <1>10, <1>11 DEF IInv

\* freeproc(np), at the end of a call of p: a fork that failed, on a slot that
\* it has just taken, or a wait that reaps its child.
LEMMA freeproc_inv ==
    ASSUME IInv, NEW p \in Procs, state[p] = "RUNNABLE", pc[p] \in {"user", "wait"},
           Goto(p, "user"), NEW np \in Procs, freeproc(np),
           state[np] = "UNUSED" \/ (state[np] = "ZOMBIE" /\ parent[np] = p),
           UNCHANGED <<child, wait_lock>>,
           nextpid' \in 1 .. MaxPid + 1, nextpid' >= nextpid
    PROVE  IInv'
<1>1. np # p /\ np # initproc
  BY DEF IInv, TableInv
<1>2. /\ state'[np] = "UNUSED" /\ \A q \in Procs \ {np} : state'[q] = state[q]
      /\ pid'[np] = 0 /\ \A q \in Procs \ {np} : pid'[q] = pid[q]
      /\ parent'[np] = None /\ \A q \in Procs \ {np} : parent'[q] = parent[q]
      /\ pc'[p] = "user" /\ \A q \in Procs \ {p} : pc'[q] = pc[q]
  BY DEF freeproc, Goto, IInv, TypeOK
<1>3. TypeOK'
  BY ProcAssumption DEF freeproc, Goto, IInv, TypeOK, States, None
<1>4. TableInv'
  BY <1>1, <1>2, InitSlot DEF IInv, TableInv
<1>5. NoOrphans'
  BY <1>1, <1>2, InitSlot, SMTT(30) DEF IInv, NoOrphans, TypeOK
<1>6. \A q \in Procs : /\ Forks(q)' <=> Forks(q)
                       /\ Runs(q, "exit2")' <=> Runs(q, "exit2")
                       /\ Asleep(q)' <=> Asleep(q)
  BY <1>1, <1>2, ZenonT(30) DEF Forks, Runs, Asleep
<1>7. ForkInv'
  <2>1. \A q \in Procs : Forks(q) => q # p /\ child[q] # np
    BY Zenon DEF IInv, ForkInv, Forks
  <2> QED
    BY <1>2, <1>6, <2>1 DEF IInv, ForkInv
<1>8. \A q \in Procs : /\ Children(q)' = Children(q) \ {np}
                       /\ Zombies(q)' = Zombies(q) \ {np}
  BY <1>2, InitSlot, ZenonT(30) DEF Children, Zombies
<1>9. \A q \in Procs : Runs(q, "exit2") => parent[q] \in Procs /\ q # np
  BY InitSlot, SMTT(30) DEF IInv, NoOrphans, Runs, TypeOK, TableInv, None
<1>10. ExitInv'
  BY <1>2, <1>6, <1>8, <1>9, ZenonT(30) DEF IInv, ExitInv
<1>11. SleepInv'
  <2>1. \A q \in Procs : Asleep(q) => np \notin Children(q)
    BY InitSlot, Zenon DEF IInv, TableInv, Asleep, Children
  <2> QED
    BY <1>6, <1>8, <2>1, SMTT(30) DEF IInv, SleepInv
<1>12. PidInv'
  BY <1>2 DEF IInv, PidInv, TypeOK
<1> QED
  BY <1>3, <1>4, <1>5, <1>7, <1>10, <1>11, <1>12, Zenon DEF IInv

\* A fork that runs out of memory leaves the table as it was, but for the pid.
LEMMA fork_fail_inv == ASSUME IInv, NEW p \in Procs, fork_fail(p) PROVE IInv'
<1> DEFINE np == Min(Free)
<1>1. np \in Procs /\ state[np] = "UNUSED"
  BY MinIn DEF Free, fork_fail
<1>2. /\ freeproc(np) /\ UNCHANGED <<child, wait_lock>>
      /\ state[p] = "RUNNABLE" /\ pc[p] = "user"
  BY Zenon DEF fork_fail, Runs
<1> HIDE DEF np
<1>3. Goto(p, "user")
  BY <1>2 DEF fork_fail, Goto, IInv, TypeOK
<1>4. nextpid' \in 1 .. MaxPid + 1 /\ nextpid' >= nextpid
  BY ProcAssumption DEF fork_fail, IInv, TypeOK
<1> QED
  BY <1>1, <1>2, <1>3, <1>4, freeproc_inv, Zenon

\* The child gets its parent under wait_lock; it is in nobody's way yet.
LEMMA fork_parent_inv == ASSUME IInv, NEW p \in Procs, fork_parent(p) PROVE IInv'
<1> DEFINE np == child[p]
<1>1. /\ Runs(p, "fork1") /\ Forks(p) /\ wait_lock = None
      /\ np \in Procs /\ state[np] = "USED" /\ parent[np] = None
  BY DEF fork_parent, Runs, Forks, IInv, ForkInv
<1>2. /\ parent' = [parent EXCEPT ![np] = p] /\ pc' = [pc EXCEPT ![p] = "fork2"]
      /\ UNCHANGED <<state, killed, pid, nextpid, child, wait_lock>>
  BY Zenon DEF fork_parent, Goto
<1> HIDE DEF np
<1>3. /\ parent'[np] = p /\ \A q \in Procs \ {np} : parent'[q] = parent[q]
      /\ pc'[p] = "fork2" /\ \A q \in Procs \ {p} : pc'[q] = pc[q]
  BY <1>1, <1>2, Zenon DEF IInv, TypeOK
<1>4. TypeOK'
  BY <1>1, <1>2, Zenon DEF IInv, TypeOK
<1>5. TableInv' /\ NoOrphans' /\ PidInv'
  <2>1. state[p] = "RUNNABLE" /\ initproc # np
    BY <1>1, Zenon DEF Runs, IInv, TableInv
  <2>2. TableInv'
    BY <1>1, <1>2, <1>3, <2>1, InitSlot DEF IInv, TableInv
  <2> QED
    BY <1>1, <1>2, <1>3, <2>2 DEF IInv, NoOrphans, PidInv
<1>6. \A q \in Procs : /\ Forks(q)' <=> Forks(q)
                       /\ Asleep(q)' <=> Asleep(q)
  BY <1>1, <1>2, <1>3, ZenonT(30) DEF Forks, Asleep, Runs
<1>7. ForkInv'
  <2>1. \A q \in Procs : Forks(q) /\ q # p => child[q] # np
    BY <1>1, Zenon DEF IInv, ForkInv, np
  <2> QED
    BY <1>1, <1>2, <1>3, <1>6, <2>1 DEF IInv, ForkInv, np
<1>8. ExitInv'
  <2>1. \A q \in Procs : ~Runs(q, "exit2")
    BY <1>1, InitSlot, Zenon DEF IInv, ExitInv
  <2> QED
    BY <1>2, <1>3, <2>1, Zenon DEF ExitInv, Runs
<1>9. SleepInv'
  <2>1. \A q \in Procs : Children(q) \subseteq Children(q)' /\ Zombies(q)' = Zombies(q)
    BY <1>1, <1>2, <1>3, InitSlot DEF Children, Zombies
  <2> QED
    BY <1>6, <2>1, Zenon DEF IInv, SleepInv
<1> QED
  BY <1>4, <1>5, <1>7, <1>8, <1>9, Zenon DEF IInv

\* The child becomes RUNNABLE with a parent that can wait for it.
LEMMA fork_runnable_inv == ASSUME IInv, NEW p \in Procs, fork_runnable(p) PROVE IInv'
<1> DEFINE np == child[p]
<1>1. /\ state[p] = "RUNNABLE" /\ pc[p] = "fork2" /\ Forks(p)
      /\ np \in Procs /\ state[np] = "USED" /\ parent[np] = p /\ np # p
  BY DEF fork_runnable, Runs, Forks, IInv, ForkInv
<1>2. /\ state' = [state EXCEPT ![np] = "RUNNABLE"]
      /\ pc' = [pc EXCEPT ![p] = "user", ![np] = "user"]
      /\ child' = [child EXCEPT ![p] = None]
      /\ UNCHANGED <<parent, killed, pid, nextpid, wait_lock>>
  BY Zenon DEF fork_runnable
<1> HIDE DEF np
<1>3. /\ state'[np] = "RUNNABLE" /\ \A q \in Procs \ {np} : state'[q] = state[q]
      /\ pc'[p] = "user" /\ pc'[np] = "user" /\ \A q \in Procs \ {p, np} : pc'[q] = pc[q]
      /\ \A q \in Procs \ {p} : child'[q] = child[q]
  BY <1>1, <1>2, Zenon DEF IInv, TypeOK
<1>4. TypeOK'
  BY <1>1, <1>2, Zenon DEF IInv, TypeOK, States
<1>5. TableInv' /\ PidInv'
  <2>1. initproc # np
    BY <1>1, Zenon DEF IInv, TableInv
  <2>2. pc'[initproc] \in {pc[initproc], "user"} /\ state'[initproc] = state[initproc]
    BY <1>3, <2>1, InitSlot, Zenon
  <2>3. \A q \in Procs : state'[q] \in {"UNUSED", "SLEEPING"} =>
            state'[q] = state[q] /\ pc'[q] = pc[q]
    BY <1>1, <1>3
  <2>4. TableInv'
    BY <1>2, <2>2, <2>3, ZenonT(30) DEF IInv, TableInv
  <2> QED
    BY <1>1, <1>2, <1>3, <2>4 DEF IInv, PidInv
<1>6. NoOrphans'
  BY <1>1, <1>2, <1>3, InitSlot DEF IInv, NoOrphans, TypeOK
<1>7. \A q \in Procs : /\ Forks(q)' <=> Forks(q) /\ q # p
                       /\ Asleep(q)' <=> Asleep(q)
                       /\ Runs(q, "exit2")' <=> Runs(q, "exit2")
                       /\ Children(q)' = Children(q) /\ Zombies(q)' = Zombies(q)
  BY <1>1, <1>2, <1>3, ZenonT(30) DEF Forks, Asleep, Runs, Children, Zombies
<1>8. ForkInv'
  <2>1. \A q \in Procs : Forks(q) /\ q # p => child[q] # np
    BY <1>1 DEF IInv, ForkInv, np
  <2>2. \A q \in Procs : Forks(q) => q # np
    BY <1>1 DEF Forks
  <2>3. \A q \in Procs : Forks(q)' =>
            /\ Forks(q) /\ child'[q] = child[q] /\ pc'[q] = pc[q]
            /\ child[q] \in Procs /\ state'[child[q]] = state[child[q]]
    BY <1>1, <1>3, <1>7, <2>1, <2>2 DEF IInv, ForkInv
  <2>4. \A q \in Procs : Forks(q) =>
            /\ state[child[q]] = "USED"
            /\ parent[child[q]] = IF pc[q] = "fork1" THEN None ELSE q
            /\ \A r \in Procs : Forks(r) /\ child[q] = child[r] => q = r
    BY DEF IInv, ForkInv
  <2>5. parent' = parent
    BY <1>2, Zenon
  <2> QED
    BY <2>3, <2>4, <2>5 DEF ForkInv
<1>9. \A q \in Procs : Runs(q, "exit2") => parent[q] \in Procs
  BY InitSlot DEF IInv, NoOrphans, Runs, TypeOK, TableInv, None
<1>10. ExitInv' /\ SleepInv'
  BY <1>2, <1>7, <1>9, Zenon DEF IInv, ExitInv, SleepInv
<1> QED
  BY <1>4, <1>5, <1>6, <1>8, <1>10, Zenon DEF IInv

-----------------------------------------------------------------------------
(* exit                                                                    *)

\* The children go to init, and init and the parent of p are woken.
LEMMA exit_reparent_inv == ASSUME IInv, NEW p \in Procs, exit_reparent(p) PROVE IInv'
<1>1. /\ state[p] = "RUNNABLE" /\ pc[p] = "exit1" /\ wait_lock = None /\ wait_lock' = p
      /\ parent' = [q \in Procs |-> IF parent[q] = p THEN initproc ELSE parent[q]]
      /\ pc' = [pc EXCEPT ![p] = "exit2"]
      /\ UNCHANGED <<killed, pid, nextpid, child>>
  BY Zenon DEF exit_reparent, Runs, Goto
<1>2. /\ p # initproc /\ parent[p] \in Procs
      /\ \A q \in Procs : ~Runs(q, "exit2") /\ ~(Forks(q) /\ q = p)
  <2>1. p # initproc
    BY <1>1, InitSlot, Zenon DEF IInv, TableInv
  <2> QED
    BY <1>1, <2>1, InitSlot, Zenon DEF IInv, ExitInv, NoOrphans, TypeOK, Forks
<1>3. /\ \A q \in Procs : parent'[q] = IF parent[q] = p THEN initproc ELSE parent[q]
      /\ pc'[p] = "exit2" /\ \A q \in Procs \ {p} : pc'[q] = pc[q]
  BY <1>1, Zenon DEF IInv, TypeOK
<1> DEFINE st == reparent(p, state)
<1>4. /\ st \in [Procs -> States]
      /\ \A q \in Procs : \/ st[q] = state[q]
                          \/ state[q] = "SLEEPING" /\ st[q] = "RUNNABLE"
      /\ Children(p) # {} => ~(st[initproc] = "SLEEPING" /\ pc[initproc] = "wait")
  <2>1. state \in [Procs -> States]
    BY Zenon DEF IInv, TypeOK
  <2> QED
    BY <2>1, wakeup_wakes, InitSlot DEF reparent
<1>5. /\ Wakes
      /\ ~(state'[parent[p]] = "SLEEPING" /\ pc[parent[p]] = "wait")
      /\ Children(p) # {} => ~(state'[initproc] = "SLEEPING" /\ pc[initproc] = "wait")
  <2>1. state' = wakeup(st, parent[p])
    BY Zenon DEF exit_reparent
  <2> HIDE DEF st
  <2>2. /\ state' \in [Procs -> States]
        /\ \A q \in Procs : /\ \/ state'[q] = st[q]
                               \/ st[q] = "SLEEPING" /\ state'[q] = "RUNNABLE"
                            /\ parent[p] = q /\ pc[q] = "wait" => state'[q] # "SLEEPING"
    BY <1>2, <1>4, <2>1, wakeup_wakes
  <2> QED
    BY <1>2, <1>4, <2>2, InitSlot, Zenon DEF Wakes
<1> HIDE DEF st
<1>6. TypeOK'
  BY <1>1, <1>5, InitSlot, ZenonT(30) DEF IInv, TypeOK, Wakes
<1>7. state'[p] = "RUNNABLE"
  BY <1>1, <1>5, Zenon DEF Wakes
<1>8. TableInv'
  BY <1>1, <1>2, <1>3, <1>5, <1>7, InitSlot DEF IInv, TableInv, Wakes
<1>9. \A q \in Procs : /\ Forks(q)' <=> Forks(q)
                       /\ Asleep(q)' => Asleep(q)
                       /\ Runs(q, "exit2")' => q = p
  BY <1>1, <1>2, <1>3, <1>5, <1>7, SMTT(30) DEF Forks, Asleep, Runs, Wakes, IInv, TableInv
<1>10. ForkInv'
  <2>1. \A q \in Procs : Forks(q) => /\ state'[child[q]] = "USED" /\ child[q] \in Procs
                                     /\ parent'[child[q]] = parent[child[q]]
    BY <1>1, <1>2, <1>3, <1>5, InitSlot, SMTT(30) DEF IInv, ForkInv, Forks, Wakes
  <2>2. \A q \in Procs : Forks(q) => pc'[q] = pc[q]
    BY <1>1, <1>2, <1>3, Zenon
  <2> QED
    BY <1>1, <1>9, <2>1, <2>2, SMTT(30) DEF IInv, ForkInv
<1>11. Children(p)' = {}
  BY <1>2, <1>3, Zenon DEF Children
<1>12. ExitInv'
  <2>1. ~Asleep(parent[p])'
    BY <1>1, <1>2, <1>3, <1>5, InitSlot, SMTT(30) DEF Asleep, Children
  <2> QED
    BY <1>1, <1>9, <1>11, <2>1, ZenonT(30) DEF ExitInv
<1>13. NoOrphans'
  BY <1>1, <1>2, <1>3, <1>5, <1>8, InitSlot DEF IInv, NoOrphans, TypeOK, TableInv, Wakes
<1>14. SleepInv'
  <2>1. \A q \in Procs \ {p} : Children(q) \subseteq Children(q)'
    BY <1>3, Zenon DEF Children
  <2>2. \A q \in Procs \ {p, initproc} : Zombies(q)' \subseteq Zombies(q)
    BY <1>3, <1>5, Zenon DEF Children, Zombies, Wakes
  <2>3. Children(p) = {} => Zombies(initproc)' \subseteq Zombies(initproc)
    BY <1>3, <1>5, Zenon DEF Children, Zombies, Wakes
  <2>4. Asleep(initproc)' => Children(p) = {}
    BY <1>2, <1>3, <1>5, InitSlot DEF Asleep
  <2>5. ~Asleep(p)'
    BY <1>7, Zenon DEF Asleep
  <2> QED
    BY <1>9, <2>1, <2>2, <2>3, <2>4, <2>5, InitSlot, Zenon DEF IInv, SleepInv
<1>15. PidInv'
  BY <1>1, <1>5 DEF IInv, PidInv, Wakes
<1> QED
  BY <1>6, <1>8, <1>10, <1>12, <1>13, <1>14, <1>15, Zenon DEF IInv

\* A process becomes a zombie when it has no children and its parent is awake.
LEMMA exit_zombie_inv == ASSUME IInv, NEW p \in Procs, exit_zombie(p) PROVE IInv'
<1>1. /\ state[p] = "RUNNABLE" /\ pc[p] = "exit2" /\ Runs(p, "exit2")
      /\ state' = [state EXCEPT ![p] = "ZOMBIE"] /\ wait_lock' = None
      /\ UNCHANGED <<parent, killed, pid, nextpid, pc, child>>
  BY DEF exit_zombie, Runs
<1>2. /\ p # initproc /\ parent[p] \in Procs /\ wait_lock = p /\ Children(p) = {}
      /\ ~Asleep(parent[p])
  <2>1. p # initproc
    BY <1>1, InitSlot DEF IInv, TableInv
  <2> QED
    BY <1>1, <2>1, Zenon DEF IInv, ExitInv, NoOrphans, TypeOK
<1>3. state'[p] = "ZOMBIE" /\ \A q \in Procs \ {p} : state'[q] = state[q]
  BY <1>1, Zenon DEF IInv, TypeOK
<1>4. TypeOK'
  BY <1>1, Zenon DEF IInv, TypeOK, States
<1>5. TableInv' /\ PidInv'
  BY <1>1, <1>2, <1>3, InitSlot, SMTT(30) DEF IInv, TableInv, PidInv
<1>6. \A q \in Procs : /\ Forks(q)' <=> Forks(q)
                       /\ Asleep(q)' <=> Asleep(q)
                       /\ ~Runs(q, "exit2")'
  BY <1>1, <1>2, <1>3, SMTT(30) DEF Forks, Asleep, Runs, IInv, ExitInv
<1>7. ForkInv'
  <2>1. \A q \in Procs : Forks(q)' => Forks(q)
    BY <1>6, Zenon
  <2>2. \A q \in Procs : Forks(q) => child[q] \in Procs /\ state[child[q]] = "USED"
    BY Zenon DEF IInv, ForkInv
  <2>3. \A q \in Procs : Forks(q) => state'[child[q]] = "USED"
    BY <1>1, <1>3, <2>2, Zenon
  <2> QED
    BY <1>1, <2>1, <2>2, <2>3, ZenonT(30) DEF IInv, ForkInv
<1>8. ExitInv'
  BY <1>6, Zenon DEF ExitInv
<1>9. NoOrphans'
  <2>1. \A q \in Procs : parent[q] # p
    BY <1>2, Zenon DEF Children
  <2> QED
    BY <1>1, <1>3, <2>1, ZenonT(30) DEF IInv, NoOrphans, TypeOK
<1>10. SleepInv'
  <2>1. \A q \in Procs : /\ Children(q)' = Children(q)
                         /\ q # parent[p] => Zombies(q)' = Zombies(q)
    BY <1>1, <1>3, Zenon DEF Children, Zombies
  <2> QED
    BY <1>2, <1>6, <2>1, Zenon DEF IInv, SleepInv
<1> QED
  BY <1>4, <1>5, <1>7, <1>8, <1>9, <1>10, Zenon DEF IInv

-----------------------------------------------------------------------------
(* wait and pause                                                          *)

\* wait() reaps a zombie of its own, or leaves it when copyout() fails.
LEMMA wait_reap_inv == ASSUME IInv, NEW p \in Procs, wait_reap(p) PROVE IInv'
<1> DEFINE z == Min(Zombies(p))
<1>1. z \in Procs /\ state[z] = "ZOMBIE" /\ parent[z] = p
  <2>1. Zombies(p) \in SUBSET Procs /\ Zombies(p) # {}
    BY DEF wait_reap, Zombies, Children
  <2>2. z \in Zombies(p)
    BY <2>1, MinIn, Zenon
  <2> QED
    BY <2>2, Zenon DEF Zombies, Children
<1> HIDE DEF z
<1>2. /\ state[p] = "RUNNABLE" /\ pc[p] = "wait" /\ Goto(p, "user")
      /\ UNCHANGED <<nextpid, child, wait_lock>> /\ (freeproc(z) \/ UNCHANGED proc)
  BY DEF wait_reap, Runs, z
<1>3. CASE UNCHANGED proc
  BY <1>2, <1>3, MoveInv, Zenon DEF Forks
<1>4. CASE freeproc(z)
  <2>1. nextpid' \in 1 .. MaxPid + 1 /\ nextpid' >= nextpid
    BY <1>2, ProcAssumption DEF IInv, TypeOK
  <2> QED
    BY <1>1, <1>2, <1>4, <2>1, freeproc_inv, Zenon
<1> QED
  BY <1>2, <1>3, <1>4, Zenon

\* wait() sleeps with a child and without a zombie, and holds wait_lock until
\* it does.
LEMMA wait_none_inv == ASSUME IInv, NEW p \in Procs, wait_none(p) PROVE IInv'
<1>1. /\ state[p] = "RUNNABLE" /\ pc[p] = "wait" /\ ~Forks(p) /\ pc[p] # "exit2"
      /\ wait_lock = None /\ Zombies(p) = {}
      /\ UNCHANGED <<parent, killed, pid, nextpid, child, wait_lock>>
  BY Zenon DEF wait_none, Runs, Forks
<1>2. CASE Goto(p, "user") /\ UNCHANGED state
  BY <1>1, <1>2, MoveInv DEF proc
<1>3. CASE Children(p) # {} /\ state' = [state EXCEPT ![p] = "SLEEPING"] /\ UNCHANGED pc
  <2>1. Goto(p, "wait")
    BY <1>1, <1>3, Zenon DEF Goto, IInv, TypeOK
  <2> QED
    BY <1>1, <1>3, <2>1, SleepStep, Zenon
<1> QED
  BY <1>2, <1>3, Zenon DEF wait_none

\* pause() sleeps on &ticks, again and again.
LEMMA pause_inv == ASSUME IInv, NEW p \in Procs, sys_pause(p) \/ pause_again(p) PROVE IInv'
<1>1. /\ state[p] = "RUNNABLE" /\ pc[p] \in {"user", "pause"} /\ ~Forks(p) /\ pc[p] # "exit2"
      /\ UNCHANGED <<parent, killed, pid, nextpid, child, wait_lock>>
  BY DEF sys_pause, pause_again, Runs, Forks
<1>2. CASE Goto(p, "user") /\ UNCHANGED state
  BY <1>1, <1>2, MoveInv DEF proc
<1>3. CASE state' = [state EXCEPT ![p] = "SLEEPING"] /\ Goto(p, "pause")
  BY <1>1, <1>3, SleepStep, Zenon
<1>4. pc[p] = "pause" /\ UNCHANGED pc => Goto(p, "pause")
  BY DEF Goto, IInv, TypeOK
<1> QED
  BY <1>2, <1>3, <1>4, Zenon DEF sys_pause, pause_again, Runs

-----------------------------------------------------------------------------
\* userinit() leaves init, alone.
LEMMA InitIInv == Init => IInv
<1> SUFFICES ASSUME Init PROVE IInv
  OBVIOUS
<1>1. TypeOK
  BY ProcAssumption, InitSlot DEF Init, TypeOK, States, None
<1>2. TableInv /\ ForkInv /\ ExitInv
  BY InitSlot DEF Init, TableInv, ForkInv, ExitInv, Forks, Runs
<1>3. NoOrphans /\ SleepInv
  BY InitSlot DEF Init, NoOrphans, SleepInv, Asleep
<1>4. PidInv
  BY DEF Init, PidInv
<1> QED
  BY <1>1, <1>2, <1>3, <1>4 DEF IInv

\* Every step of the processes keeps the invariant.
LEMMA NextIInv == IInv /\ [Next]_vars => IInv'
<1>1. ASSUME IInv, NEW p \in Procs, exit(p) \/ wait(p) PROVE IInv'
  <2>1. state[p] = "RUNNABLE" /\ ~Forks(p) /\ pc[p] # "exit2"
    BY <1>1, Zenon DEF exit, wait, Runs, Forks
  <2> QED
    BY <1>1, <2>1, MoveInv DEF exit, wait
<1>2. ASSUME IInv, UNCHANGED vars PROVE IInv'
  BY <1>2 DEF IInv, vars, TypeOK, TableInv, ForkInv, ExitInv, NoOrphans, SleepInv, PidInv,
              Forks, Runs, Asleep, Children, Zombies
<1> QED
  BY <1>1, <1>2, clockintr_inv, kkill_inv, fork_alloc_inv, fork_fail_inv, fork_parent_inv,
     fork_runnable_inv, exit_reparent_inv, exit_zombie_inv, wait_reap_inv, wait_none_inv,
     pause_inv, Zenon DEF Next, kfork, kexit, kwait

\* The invariant of the process table holds for any number of slots.
THEOREM ProcInvariant == Spec => []IInv
  BY InitIInv, NextIInv, PTL DEF Spec

\* Nobody sleeps in wait() beside a zombie or without a child: no wakeup of
\* kexit() is lost (proc.c:351, 404-410), for any number of processes.
THEOREM WaitJustifiedHolds == Spec => []WaitJustified
<1>1. IInv => WaitJustified
  BY DEF IInv, SleepInv, WaitJustified, Asleep
<1> QED
  BY <1>1, ProcInvariant, PTL

\* kill() of a pid that processes have finds one process: pids are not given
\* out twice (proc.c:92-101, 589-608).
PidsUnique == \A p, q \in Procs : pid[p] = pid[q] /\ state[p] # "UNUSED" => p = q

\* A pid names one process, whatever is forked, killed and reaped.
THEOREM PidsUniqueHolds == Spec => []PidsUnique
<1>1. IInv => PidsUnique
  BY DEF IInv, PidInv, PidsUnique
<1> QED
  BY <1>1, ProcInvariant, PTL

\* The process tree is sound: every process has a parent that can wait for it,
\* also while it exits (proc.c:295, 312-317, 345-358), and, if nobody calls
\* kill(0), only processes are marked as killed.
THEOREM TreeHolds ==
    ASSUME 0 \notin KillPids
    PROVE  Spec => []Tree
<1>1. Init => KilledIsAlive
  BY DEF Init, KilledIsAlive
<1>2. ASSUME IInv, KilledIsAlive, [Next]_vars PROVE KilledIsAlive'
  <2> DEFINE Kept == \A p \in Procs : /\ killed'[p] => killed[p]
                                      /\ state'[p] = "UNUSED" => state[p] = "UNUSED"
  <2>1. Kept => KilledIsAlive'
    BY <1>2, Zenon DEF KilledIsAlive
  <2>2. ASSUME NEW np \in Procs, freeproc(np) PROVE KilledIsAlive'
    BY <1>2, <2>2, Zenon DEF freeproc, KilledIsAlive, IInv, TypeOK
  <2>3. ASSUME NEW i \in KillPids, kkill(i) PROVE KilledIsAlive'
    <3> DEFINE p == Min({q \in Procs : pid[q] = i})
    <3>1. p \in {q \in Procs : pid[q] = i}
      BY <2>3, MinIn, Zenon DEF kkill
    <3>2. /\ killed' = [killed EXCEPT ![p] = TRUE]
          /\ state' = [state EXCEPT ![p] = IF @ = "SLEEPING" THEN "RUNNABLE" ELSE @]
      BY <2>3, Zenon DEF kkill
    <3> HIDE DEF p
    <3>3. state[p] # "UNUSED"
      BY <1>2, <3>1, Zenon DEF IInv, PidInv
    <3> QED
      BY <1>2, <3>1, <3>2, <3>3, Zenon DEF KilledIsAlive, IInv, TypeOK
  <2>4. state \in [Procs -> States] /\ killed \in [Procs -> BOOLEAN]
    BY <1>2 DEF IInv, TypeOK
  <2>5. CASE clockintr \/ UNCHANGED vars
    <3>1. Kept
      BY <2>4, <2>5, wakeup_wakes DEF clockintr, vars
    <3> QED
      BY <2>1, <3>1, Zenon
  <2>6. ASSUME NEW p \in Procs, exit_reparent(p) PROVE KilledIsAlive'
    <3>1. reparent(p, state) \in [Procs -> States]
      BY <2>4, wakeup_wakes, Zenon DEF reparent
    <3>2. Kept
      BY <2>4, <2>6, <3>1, wakeup_wakes DEF exit_reparent, reparent
    <3> QED
      BY <2>1, <3>2, Zenon
  <2>7. ASSUME NEW p \in Procs, kwait(p) \/ sys_pause(p) \/ pause_again(p)
        PROVE  KilledIsAlive'
    <3>1. CASE wait_reap(p) /\ freeproc(Min(Zombies(p)))
      <4>1. Zombies(p) \in SUBSET Procs /\ Zombies(p) # {}
        BY <3>1 DEF wait_reap, Zombies, Children
      <4>2. Min(Zombies(p)) \in Procs
        BY <4>1, MinIn, Zenon
      <4> QED
        BY <2>2, <3>1, <4>2, Zenon
    <3>2. CASE ~(wait_reap(p) /\ freeproc(Min(Zombies(p))))
      <4>1. Kept
        BY <2>4, <2>7, <3>2, Zenon DEF kwait, wait, wait_reap, wait_none, sys_pause, pause_again, proc
      <4> QED
        BY <2>1, <4>1
    <3> QED
      BY <3>1, <3>2
  <2>8. ASSUME NEW p \in Procs, fork_fail(p) PROVE KilledIsAlive'
    <3>1. Min(Free) \in Procs
      BY <2>8, MinIn, Zenon DEF fork_fail, Free
    <3> QED
      BY <2>2, <2>8, <3>1, Zenon DEF fork_fail
  <2>9. ASSUME NEW p \in Procs, exit(p) \/ exit_zombie(p) \/ fork_alloc(p)
                                   \/ fork_parent(p) \/ fork_runnable(p)
        PROVE  KilledIsAlive'
    <3>1. Kept
      BY <2>4, <2>9 DEF exit, exit_zombie, fork_alloc, fork_parent, fork_runnable, proc
    <3> QED
      BY <2>1, <3>1
  <2> QED
    BY <1>2, <2>3, <2>5, <2>6, <2>7, <2>8, <2>9, Zenon DEF Next, kfork, kexit
<1>3. IInv /\ KilledIsAlive => Tree
  BY DEF IInv, Tree
<1> QED
  BY <1>1, <1>2, <1>3, ProcInvariant, PTL DEF Spec
=============================================================================
