-------------------------------- MODULE Trap --------------------------------
(***************************************************************************)
(* Traps in the xv6 port: kernel/start.c, main.c, trap.c, trampoline.S,    *)
(* kernelvec.S, plic.c, the system calls of sysproc.c that depend on the   *)
(* clock, on harts with the trap registers of the KianV core (csr_unit.v,  *)
(* interrupt_controller.v).                                                *)
(*                                                                         *)
(* `at` is the program counter of a hart: a user pc, an entry of the trap  *)
(* code, or a place in the kernel. A hart takes a pending interrupt before *)
(* its next step whenever interrupts are enabled, so interrupts come       *)
(* between any two steps that the code leaves interruptible. Locks and the *)
(* switch between threads are those of module Sched; here a switch is one  *)
(* step, and keeps what swtch() keeps: not tp, not the trap registers.     *)
(***************************************************************************)
EXTENDS Naturals, FiniteSets

CONSTANTS
    Harts,      \* hart numbers, 0 among them
    Procs,
    None

NextPc(pc) == IF pc = "u0" THEN "u1" ELSE "u0"
UserTp == 99     \* whatever the program keeps in tp

VARIABLES
    hart,     \* registers of each hart, its current process, saved frame
    proc,     \* state, trapframe, saved context of each process
    irq,      \* the PLIC has the interrupt of the UART pending
    started,  \* `started` of main.c
    frame,    \* sepc and sstatus that kerneltrap() keeps on a thread's stack
    upc,      \* ghost: where each process must go on in user mode
    kpc       \* ghost: where a kernel thread was interrupted

vars == <<hart, proc, irq, started, frame, upc, kpc>>

\* The kernel thread a hart runs: of its process, or its scheduler.
Thread(h) == IF hart[h].cur = None THEN h ELSE hart[h].cur

Set(h, r) == hart' = [hart EXCEPT ![h] = r]

-----------------------------------------------------------------------------
(* The hart.                                                               *)

\* An interrupt is taken in user mode, or in supervisor mode with SIE set.
Enabled(h) == hart[h].mode = "U" \/ (hart[h].mode = "S" /\ hart[h].sie)
Pending(h) == {i \in {"timer", "external"} : IF i = "timer" THEN hart[h].stip ELSE irq}
Free(h) == ~(Enabled(h) /\ Pending(h) # {})

\* What a trap to supervisor mode does to the registers r.
TrapEntry(r, cause) ==
    [r EXCEPT !.sepc = r.at, !.spp = r.mode, !.spie = r.sie, !.sie = FALSE,
              !.mode = "S", !.cause = cause, !.at = r.stvec]

sret(r) ==
    [r EXCEPT !.mode = r.spp, !.sie = r.spie, !.spie = TRUE, !.spp = "U", !.at = r.sepc]

Interrupt(h, i) ==
    /\ Enabled(h)
    /\ i \in Pending(h)
    /\ Set(h, TrapEntry(hart[h], i))
    /\ kpc' = IF hart[h].mode = "S" THEN [kpc EXCEPT ![Thread(h)] = hart[h].at] ELSE kpc
    /\ UNCHANGED <<proc, irq, started, upc, frame>>

UserStep(h) ==
    /\ hart[h].mode = "U"
    /\ Free(h)
    /\ Set(h, [hart[h] EXCEPT !.at = NextPc(@)])
    /\ upc' = [upc EXCEPT ![hart[h].cur] = NextPc(@)]
    /\ UNCHANGED <<proc, irq, started, frame, kpc>>

\* A system call goes on after the ecall instruction, a fault retries.
Exception(h, cause) ==
    /\ hart[h].mode = "U"
    /\ Free(h)
    /\ Set(h, TrapEntry(hart[h], cause))
    /\ upc' = [upc EXCEPT ![hart[h].cur] = IF cause = "ecall" THEN NextPc(@) ELSE @]
    /\ UNCHANGED <<proc, irq, started, frame, kpc>>

TimerExpires(h) ==
    /\ ~hart[h].stip
    /\ Set(h, [hart[h] EXCEPT !.stip = TRUE])
    /\ UNCHANGED <<proc, irq, started, upc, frame, kpc>>

UartRaises ==
    /\ ~irq
    /\ irq' = TRUE
    /\ UNCHANGED <<hart, proc, started, upc, frame, kpc>>

-----------------------------------------------------------------------------
(* start.c and main.c                                                      *)

\* entry.S, start() and timerinit(): delegate, enable, and mret to main().
start(h) ==
    /\ hart[h].at = "start"
    /\ Set(h, [hart[h] EXCEPT !.mode = "S", !.satp = "bare", !.tp = h, !.at = "main"])
    /\ UNCHANGED <<proc, irq, started, upc, frame, kpc>>

\* The others wait until hart 0 has initialised the kernel.
main(h) ==
    /\ hart[h].at = "main"
    /\ hart[h].tp = 0 \/ started
    /\ Set(h, [hart[h] EXCEPT !.satp = "kernel", !.stvec = "kernelvec", !.at = "scheduler",
                              !.sie = TRUE])
    /\ started' = TRUE
    /\ UNCHANGED <<proc, irq, upc, frame, kpc>>

-----------------------------------------------------------------------------
(* Switching. Every round of the scheduler has a moment with interrupts on; *)
(* between a switch back and the next round they are off. A process goes   *)
(* on with interrupts off too: it has p->lock.                             *)

ToScheduler(r) == [r EXCEPT !.cur = None, !.at = "scheduler", !.sie = FALSE]

intr_on(h) ==
    /\ hart[h].at = "scheduler"
    /\ ~hart[h].sie
    /\ Set(h, [hart[h] EXCEPT !.sie = TRUE])
    /\ UNCHANGED <<proc, irq, started, upc, frame, kpc>>

scheduler(h, p) ==
    /\ hart[h].at = "scheduler"
    /\ Free(h)
    /\ proc[p].state = "RUNNABLE"
    /\ Set(h, [hart[h] EXCEPT !.cur = p, !.at = proc[p].context, !.sie = FALSE])
    /\ proc' = [proc EXCEPT ![p].state = "RUNNING"]
    /\ UNCHANGED <<irq, started, upc, frame, kpc>>

\* The state of p when it switches to the scheduler, to go on at `label`.
Parked(p, state, label) == [proc[p] EXCEPT !.state = state, !.context = label]

\* A process that was freed is made anew by fork(); it starts in forkret().
allocproc(p) ==
    /\ started
    /\ proc[p].state = "UNUSED"
    /\ proc' = [proc EXCEPT ![p].state = "RUNNABLE", ![p].context = "prepare_return",
                            ![p].epc = "u0"]
    /\ upc' = [upc EXCEPT ![p] = "u0"]
    /\ UNCHANGED <<hart, irq, started, frame, kpc>>

-----------------------------------------------------------------------------
(* Device interrupts.                                                      *)

\* clockintr() on hart 0 counts a tick and wakes the sleepers in pause().
Ticked(ps, h) ==
    IF hart[h].tp # 0 THEN ps
    ELSE [p \in Procs |->
            [ps[p] EXCEPT !.state = IF @ = "SLEEPING" THEN "RUNNABLE" ELSE @]]

\* Claim, handle and complete; another hart may have claimed it already.
devintr_external(h) == irq' = FALSE

-----------------------------------------------------------------------------
(* Traps from user space.                                                  *)

\* uservec saves the user registers and loads the kernel's from the trapframe.
uservec(h) ==
    LET p == hart[h].cur IN
    /\ hart[h].at = "uservec"
    /\ Set(h, [hart[h] EXCEPT !.tp = proc[p].hartid, !.satp = proc[p].kernel_satp,
                              !.at = "usertrap"])
    /\ UNCHANGED <<proc, irq, started, upc, frame, kpc>>

\* The registers after the common part of usertrap(), and the trapframe pc.
InKernel(h) == [hart[h] EXCEPT !.stvec = "kernelvec"]
SavedPc(p, pc) == [proc EXCEPT ![p].epc = pc]

usertrap_syscall(h) ==
    LET p == hart[h].cur IN
    /\ hart[h].at = "usertrap"
    /\ hart[h].cause = "ecall"
    /\ proc' = SavedPc(p, NextPc(hart[h].sepc))
    /\ Set(h, [InKernel(h) EXCEPT !.sie = TRUE, !.at = "syscall"])
    /\ UNCHANGED <<irq, started, upc, frame, kpc>>

usertrap_external(h) ==
    /\ hart[h].at = "usertrap"
    /\ hart[h].cause = "external"
    /\ proc' = SavedPc(hart[h].cur, hart[h].sepc)
    /\ devintr_external(h)
    /\ Set(h, [InKernel(h) EXCEPT !.at = "prepare_return"])
    /\ UNCHANGED <<started, upc, frame, kpc>>

\* yield() after a timer interrupt.
usertrap_timer(h) ==
    LET p == hart[h].cur IN
    /\ hart[h].at = "usertrap"
    /\ hart[h].cause = "timer"
    /\ proc' = [Ticked(proc, h) EXCEPT
                   ![p] = [Parked(p, "RUNNABLE", "prepare_return") EXCEPT
                              !.epc = hart[h].sepc]]
    /\ Set(h, ToScheduler([InKernel(h) EXCEPT !.stip = FALSE]))
    /\ UNCHANGED <<irq, started, upc, frame, kpc>>

\* A page fault that vmfault() repairs.
usertrap_fault(h) ==
    /\ hart[h].at = "usertrap"
    /\ hart[h].cause = "fault"
    /\ proc' = SavedPc(hart[h].cur, hart[h].sepc)
    /\ Set(h, [InKernel(h) EXCEPT !.at = "prepare_return"])
    /\ UNCHANGED <<irq, started, upc, frame, kpc>>

\* Any other fault: the process is killed, and its parent frees it.
usertrap_killed(h) ==
    /\ hart[h].at = "usertrap"
    /\ hart[h].cause = "fault"
    /\ proc' = [proc EXCEPT ![hart[h].cur].state = "UNUSED"]
    /\ Set(h, ToScheduler(InKernel(h)))
    /\ UNCHANGED <<irq, started, upc, frame, kpc>>

\* Mutant: interrupts stay on while the registers for sret are set up.
prepare_return_on(h) ==
    LET p == hart[h].cur IN
    /\ hart[h].at = "prepare_return"
    /\ Free(h)
    /\ Set(h, [hart[h] EXCEPT !.stvec = "uservec", !.spp = "U", !.spie = TRUE,
                              !.sepc = proc[p].epc, !.at = "userret"])
    /\ proc' = [proc EXCEPT ![p].hartid = hart[h].tp, ![p].kernel_satp = hart[h].satp]
    /\ UNCHANGED <<irq, started, upc, frame, kpc>>

prepare_return(h) ==
    LET p == hart[h].cur IN
    /\ hart[h].at = "prepare_return"
    /\ Free(h)
    /\ Set(h, [hart[h] EXCEPT !.sie = FALSE, !.stvec = "uservec", !.spp = "U", !.spie = TRUE,
                              !.sepc = proc[p].epc, !.at = "userret"])
    /\ proc' = [proc EXCEPT ![p].hartid = hart[h].tp, ![p].kernel_satp = hart[h].satp]
    /\ UNCHANGED <<irq, started, upc, frame, kpc>>

\* userret installs the user page table, the user's tp and returns.
userret(h) ==
    /\ hart[h].at = "userret"
    /\ Set(h, sret([hart[h] EXCEPT !.satp = hart[h].cur, !.tp = UserTp]))
    /\ UNCHANGED <<proc, irq, started, upc, frame, kpc>>

-----------------------------------------------------------------------------
(* System calls: one that returns, and pause().                            *)

syscall(h) ==
    /\ hart[h].at = "syscall"
    /\ Free(h)
    /\ Set(h, [hart[h] EXCEPT !.at = "prepare_return"])
    /\ UNCHANGED <<proc, irq, started, upc, frame, kpc>>

\* sys_pause() sleeps on the clock, and sleeps again after a tick that was not
\* its last. How many ticks it waits for is left open.
sys_pause(h) ==
    /\ \/ hart[h].at = "syscall" /\ Free(h)
       \/ hart[h].at = "pause"
    /\ proc' = [proc EXCEPT ![hart[h].cur] = Parked(hart[h].cur, "SLEEPING", "pause")]
    /\ Set(h, ToScheduler(hart[h]))
    /\ UNCHANGED <<irq, started, upc, frame, kpc>>

\* The last tick: release tickslock, which puts interrupts on again.
sys_pause_ends(h) ==
    /\ hart[h].at = "pause"
    /\ Set(h, [hart[h] EXCEPT !.sie = TRUE, !.at = "prepare_return"])
    /\ UNCHANGED <<proc, irq, started, upc, frame, kpc>>

-----------------------------------------------------------------------------
(* Traps from the kernel. kerneltrap() keeps sepc and sstatus on the stack *)
(* of the thread it interrupted.                                           *)

NoFrame == [sepc |-> "u0", spp |-> "U", spie |-> FALSE]

Saved(h) ==
    [frame EXCEPT ![Thread(h)] =
        [sepc |-> hart[h].sepc, spp |-> hart[h].spp, spie |-> hart[h].spie]]

kerneltrap_external(h) ==
    /\ hart[h].at = "kernelvec"
    /\ hart[h].cause = "external"
    /\ devintr_external(h)
    /\ frame' = Saved(h)
    /\ Set(h, [hart[h] EXCEPT !.at = "kernelret"])
    /\ UNCHANGED <<proc, started, upc, kpc>>

\* A process yields, the scheduler does not.
kerneltrap_timer(h) ==
    LET p == hart[h].cur
        r == [hart[h] EXCEPT !.stip = FALSE]
    IN /\ hart[h].at = "kernelvec"
       /\ hart[h].cause = "timer"
       /\ frame' = Saved(h)
       /\ IF p = None
          THEN /\ proc' = Ticked(proc, h)
               /\ Set(h, [r EXCEPT !.at = "kernelret"])
          ELSE /\ proc' = [Ticked(proc, h) EXCEPT
                              ![p] = Parked(p, "RUNNABLE", "kernelret")]
               /\ Set(h, ToScheduler(r))
       /\ UNCHANGED <<irq, started, upc, kpc>>

\* Mutant: sepc and sstatus are not written back after a yield.
Restored_not(h) ==
    [hart[h] EXCEPT !.sie = FALSE]

\* The registers that kerneltrap() writes back before kernelvec's sret.
Restored(h) ==
    LET f == frame[Thread(h)] IN
    [hart[h] EXCEPT !.sepc = f.sepc, !.spp = f.spp, !.spie = f.spie, !.sie = FALSE]

kernelret(h) ==
    /\ hart[h].at = "kernelret"
    /\ Set(h, sret(Restored(h)))
    /\ frame' = [frame EXCEPT ![Thread(h)] = NoFrame]
    /\ kpc' = [kpc EXCEPT ![Thread(h)] = None]
    /\ UNCHANGED <<proc, irq, started, upc>>

-----------------------------------------------------------------------------
Init ==
    /\ hart = [h \in Harts |->
                 [mode |-> "M", sie |-> FALSE, spp |-> "U", spie |-> FALSE, sepc |-> "u0",
                  cause |-> "ecall", stvec |-> "reset", satp |-> "bare", tp |-> UserTp,
                  at |-> "start", cur |-> None, stip |-> FALSE]]
    /\ proc = [p \in Procs |->
                 [state |-> "UNUSED", context |-> "prepare_return",
                  epc |-> "u0", hartid |-> UserTp, kernel_satp |-> "bare"]]
    /\ irq = FALSE
    /\ started = FALSE
    /\ frame = [t \in Harts \cup Procs |-> NoFrame]
    /\ upc = [p \in Procs |-> "u0"]
    /\ kpc = [t \in Harts \cup Procs |-> None]

UserTrap(h) ==
    \/ uservec(h)
    \/ usertrap_syscall(h) \/ usertrap_external(h) \/ usertrap_timer(h)
    \/ usertrap_fault(h) \/ usertrap_killed(h)
    \/ prepare_return(h) \/ userret(h)

Kernel(h) ==
    \/ start(h) \/ main(h)
    \/ syscall(h) \/ sys_pause(h) \/ sys_pause_ends(h)
    \/ kerneltrap_external(h) \/ kerneltrap_timer(h) \/ kernelret(h)
    \/ intr_on(h) \/ \E p \in Procs : scheduler(h, p)

Next ==
    \/ \E h \in Harts : UserTrap(h) \/ Kernel(h) \/ UserStep(h) \/ TimerExpires(h)
    \/ \E h \in Harts, i \in {"timer", "external"} : Interrupt(h, i)
    \/ \E h \in Harts, c \in {"ecall", "fault"} : Exception(h, c)
    \/ \E p \in Procs : allocproc(p)
    \/ UartRaises

Spec == Init /\ [][Next]_vars

-----------------------------------------------------------------------------
(* Properties.                                                             *)

\* A process in user mode is where its program expects to be, however often it
\* was interrupted, in user mode or in the kernel, and moved to another hart:
\* an interrupted instruction is neither skipped nor repeated, an ecall runs
\* once. It has its own page table, and the next trap goes to uservec.
UserResumes ==
    \A h \in Harts :
        hart[h].mode = "U" =>
            /\ hart[h].at = upc[hart[h].cur]
            /\ hart[h].satp = hart[h].cur
            /\ hart[h].stvec = "uservec"

\* A kernel thread that was interrupted goes on where it was, in supervisor
\* mode with interrupts on, although the traps of other threads have used sepc
\* and sstatus since.
KernelResumes ==
    \A h \in Harts :
        hart[h].at = "kernelret" =>
            LET r == sret(Restored(h)) IN
            r.at = kpc[Thread(h)] /\ r.mode = "S" /\ r.sie

\* Wherever the kernel can be interrupted it is ready for it: the vector is
\* kernelvec, the page table the kernel's, tp the number of this hart. The
\* checks of usertrap() and kerneltrap() never fail, and no thread is
\* interrupted inside its own handler.
NoTrapPanic ==
    \A h \in Harts :
        /\ hart[h].mode = "S" /\ hart[h].sie =>
              hart[h].stvec = "kernelvec" /\ hart[h].satp = "kernel" /\ hart[h].tp = h
        /\ hart[h].at = "usertrap" =>
              /\ hart[h].spp = "U"
              /\ hart[h].cur # None
              /\ hart[h].tp = h
              /\ hart[h].satp = "kernel"
        /\ hart[h].at = "kernelvec" =>
              hart[h].spp = "S" /\ ~hart[h].sie /\ frame[Thread(h)] = NoFrame

\* Whatever a trap interrupts, a process or a kernel thread, goes on where it
\* was with the registers it had (trap.c:32-162, trampoline.S, kernelvec.S).
Resumes == UserResumes /\ KernelResumes
=============================================================================
