------------------------------ MODULE MCKernel ------------------------------
(* The core of the kernel for TLC, one component at a time: memory (Memory, *)
(* two processes on fifteen pages of two bytes), the scheduler with its     *)
(* locks (Sched, two CPUs and two processes) and traps (Trap, two harts and *)
(* two processes).                                                          *)
EXTENDS Sched, Sequences

CONSTANTS c1, c2, p1, p2

VARIABLES part,
    mem, space, pipes, image,
    hart, proct, irq, started, frame, upc, kpc

memory == <<mem, space, pipes, image>>
trap == <<hart, proct, irq, started, frame, upc, kpc>>

-----------------------------------------------------------------------------
Seg(vaddr, filesz, memsz, perm) ==
    [vaddr |-> vaddr, filesz |-> filesz, memsz |-> memsz, perm |-> perm]

\* One segment, and text and data apart: the second crosses a page table.
MCPrograms == {<<Seg(0, 1, 3, {"X", "W"})>>,
               <<Seg(0, 1, 1, {"X"}), Seg(1, 2, 3, {"W"})>>}

\* Of the changes of size, the first makes a shrinking process wrap.
M == INSTANCE Memory WITH NPROC <- 2, NPAGES <- 15, PGSIZE <- 2, NPTE <- 4, USERSTACK <- 1,
                          Programs <- MCPrograms, MaxArgs <- 1, MaxPipes <- 1, MaxSize <- 10,
                          Addrs <- {5, 9}, Deltas <- {-31, -3, 3}, proc <- space
T == INSTANCE Trap WITH Harts <- {0, 1}, Procs <- {p1, p2}, proc <- proct

\* Pages are interchangeable: two states in which no page has two uses and
\* that agree on this view differ by a renaming of pages.
MemoryView ==
    [sz |-> [p \in M!Procs |-> space[p].sz],
     map |-> [p \in M!Live |->
                 [a \in M!UserPages(p) |-> LET pte == M!Pte(mem, space[p].pt, a) IN
                                           <<pte.perm, mem.val[pte.pa]>>]],
     tables |-> [p \in M!Live |->
                    {i \in DOMAIN M!EmptyTable : mem.tab[space[p].pt][i].pa # M!NoPage}],
     pipes |-> Cardinality(pipes), free |-> Cardinality(mem.free),
     used |-> Cardinality(UNION {M!Owned(p) : p \in M!Live} \cup pipes \cup mem.free),
     image |-> image, bad |-> mem.bad]

\* Left out: registers that are written before they are read again, which are
\* sepc, scause and the previous mode outside the trap code, and the trapframe
\* and context of a process in user mode or unused.
LiveHart(r) ==
    IF r.at \in {"uservec", "usertrap", "userret", "kernelvec"} THEN r
    ELSE [r EXCEPT !.sepc = None, !.spp = None, !.spie = FALSE, !.cause = None]
LiveProc(r) ==
    CASE r.state = "UNUSED" -> None
      [] r.state = "RUNNING" -> [r EXCEPT !.context = None]
      [] OTHER -> [r EXCEPT !.hartid = 0, !.kernel_satp = None]
TrapView == <<[h \in {0, 1} |-> LiveHart(hart[h])], [p \in {p1, p2} |-> LiveProc(proct[p])],
              irq, started, frame, upc, kpc>>

View == CASE part = "memory" -> <<part, MemoryView>>
          [] part = "sched" -> <<part, vars>>
          [] OTHER -> <<part, TrapView>>

-----------------------------------------------------------------------------
MemoryOff == mem = None /\ space = None /\ pipes = None /\ image = None
TrapOff ==
    /\ hart = None /\ proct = None /\ irq = None /\ started = None /\ frame = None
    /\ upc = None /\ kpc = None

KInit == /\ Init
         /\ \/ part = "memory" /\ M!Init /\ TrapOff
            \/ part = "sched" /\ MemoryOff /\ TrapOff
            \/ part = "trap" /\ T!Init /\ MemoryOff

KNext == \/ part = "memory" /\ M!Next /\ UNCHANGED <<part, vars, trap>>
         \/ part = "sched" /\ Next /\ UNCHANGED <<part, memory, trap>>
         \/ part = "trap" /\ T!Next /\ UNCHANGED <<part, memory, vars>>

KSpec == KInit /\ [][KNext]_<<part, vars, memory, trap>>

-----------------------------------------------------------------------------
(* The properties of the modules; Exclusive and NoLostWakeup are Sched's own. *)

\* No panic of spinlock.c, proc.c, trap.c, vm.c and kalloc.c is reachable
\* (Sched, Trap and Memory).
NoPanic == CASE part = "sched" -> NoSchedPanic
             [] part = "trap" -> T!NoTrapPanic
             [] OTHER -> M!NoVmPanic

\* What a trap interrupts goes on where and as it was (Trap).
Resumes == part = "trap" => T!Resumes

\* Every page has one use, and what fails half way is given back (Memory).
PagesOnce == part = "memory" => M!PagesExact

\* Every address of a process maps to the value it should have (Memory).
Addresses == part = "memory" => M!AddressSpace
=============================================================================
