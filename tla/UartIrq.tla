------------------------------ MODULE UartIrq ------------------------------
(***************************************************************************)
(* Console output and input across hardware and kernel: the UART of soc.v  *)
(* with its FIFOs and LSR, the PLIC's pending bit, the trap handler        *)
(* (devintr, uartintr, consoleintr's echo) and processes in uartwrite() or *)
(* in printf(), on the one CPU of the SoC.                                 *)
(*                                                                         *)
(* A step is a clock: the hardware moves, and the CPU makes at most one    *)
(* bus access. Software steps stand for the instructions up to the next    *)
(* access, so they take many real clocks; a frame on the line takes at     *)
(* least FRAME steps. FIFOs are counted (FifoOps), bytes are not looked at.   *)
(***************************************************************************)
EXTENDS Naturals, FiniteSets

CONSTANTS Procs,
          Printers,   \* the processes that also print from the kernel
          DEPTH,      \* of both FIFOs
          FRAME,      \* least number of steps a frame takes on the line
          MaxN,       \* most bytes in one uartwrite()
          MaxEcho,    \* most bytes that consoleintr() echoes for one key
          MaxRx,      \* keys that arrive
          None, Intr

ASSUME UartAssumption ==
    /\ DEPTH \in Nat \ {0} /\ FRAME \in Nat \ {0}
    /\ MaxN \in Nat /\ MaxEcho \in Nat /\ MaxRx \in Nat
    /\ Printers \subseteq Procs
    /\ None \notin Procs /\ Intr \notin Procs /\ None # Intr

\* A full transmit FIFO takes longer to drain than the handler takes from its
\* look at LSR to plic_complete(), with two steps for every key that it finds.
\* With the 16 entries of the SoC a frame of 3 steps is enough.
ASSUME DrainAssumption ==
    2 * (DEPTH * (FRAME + 1) + FRAME) + 3 * (FRAME + 1) < (FRAME - 1) * (DEPTH * (FRAME + 2) - 1)

VARIABLES
    txcnt, shift, age,    \* transmit FIFO, shifter busy, its steps so far
    thre,                 \* lsr_thre
    rxcnt, rxage, rxleft, \* receive FIFO, steps since a key, keys to come
    pending,              \* pending_ctx1[UART0_IRQ]
    tx_busy,              \* uart.c's
    cpu,                  \* who runs with interrupts off: a process, Intr or None
    pc, left,             \* each process and the bytes it still has to write
    hpc, echo             \* the handler and the bytes it still has to echo

txhw == <<txcnt, shift, age, thre>>
rxhw == <<rxcnt, rxage, rxleft>>
hw == <<txhw, rxhw, pending>>
sw == <<tx_busy, cpu, pc, left, hpc, echo>>
vars == <<hw, sw>>

Handler == {"off", "claim", "lsr", "getc", "rhr", "put", "complete", "ret"}

TypeOK ==
    /\ txcnt \in 0 .. DEPTH /\ rxcnt \in 0 .. DEPTH
    /\ age \in 0 .. FRAME /\ rxage \in 0 .. FRAME /\ rxleft \in 0 .. MaxRx
    /\ shift \in BOOLEAN /\ thre \in BOOLEAN /\ pending \in BOOLEAN /\ tx_busy \in BOOLEAN
    /\ cpu \in Procs \cup {None, Intr}
    /\ pc \in [Procs -> {"out", "ready", "loop", "asleep", "put"}]
    /\ left \in [Procs -> 0 .. MaxN]
    /\ hpc \in Handler /\ echo \in 0 .. MaxEcho

\* After uartinit() and plicinithart(): the UART interrupt is enabled.
Init ==
    /\ txcnt = 0 /\ shift = FALSE /\ age = 0 /\ thre = TRUE
    /\ rxcnt = 0 /\ rxage = 0 /\ rxleft = MaxRx
    /\ pending = FALSE /\ tx_busy = FALSE
    /\ cpu = None /\ hpc = "off" /\ echo = 0
    /\ pc = [p \in Procs |-> "out"] /\ left = [p \in Procs |-> 0]

-----------------------------------------------------------------------------
\* The hardware's part of a clock, given the CPU's bus access acc.
Full == txcnt = DEPTH
tx_busy_wire == shift \/ txcnt > 0
\* Mutant: the line is raised for received bytes only.
uart_irq_rx == rxcnt > 0

uart_irq == rxcnt > 0 \/ tx_busy_wire
Older(a) == IF a < FRAME THEN a + 1 ELSE a
Bit(b) == IF b THEN 1 ELSE 0

tx_clk(acc) ==
    LET tx_accept == acc = "thr" /\ ~Full
        start == ~shift /\ txcnt > 0
    IN  /\ txcnt' = txcnt + Bit(tx_accept) - Bit(start)
        /\ thre' = IF tx_accept THEN FALSE ELSE thre \/ ~Full
        /\ \/ shift' = (shift \/ start) /\ age' = IF start THEN 0 ELSE Older(age)
           \/ shift /\ age = FRAME /\ shift' = FALSE /\ age' = 0

\* A key that arrives while the FIFO is full is lost.
rx_clk(acc) ==
    \/ /\ rxcnt' = rxcnt - Bit(acc = "rhr" /\ rxcnt > 0)
       /\ rxage' = Older(rxage)
       /\ UNCHANGED rxleft
    \/ /\ rxleft > 0 /\ rxage = FRAME
       /\ rxleft' = rxleft - 1 /\ rxage' = 0
       /\ rxcnt' = rxcnt + Bit(rxcnt < DEPTH) - Bit(acc = "rhr" /\ rxcnt > 0)

plic_clk(acc) == pending' = (acc # "complete" /\ (pending \/ uart_irq))

Clk(acc) == tx_clk(acc) /\ rx_clk(acc) /\ plic_clk(acc)

-----------------------------------------------------------------------------
\* A process in uartwrite(): tx_lock is held from "loop" until it returns or
\* sleeps, so interrupts are off and nothing else runs.
call(p) ==
    /\ cpu = None /\ pc[p] = "out"
    /\ \/ \E n \in 1 .. MaxN : left' = [left EXCEPT ![p] = n] /\ pc' = [pc EXCEPT ![p] = "loop"]
       \/ p \in Printers /\ left' = left /\ pc' = [pc EXCEPT ![p] = "put"]
    /\ cpu' = p
    /\ Clk("none")
    /\ UNCHANGED <<tx_busy, hpc, echo>>

resume(p) ==
    /\ cpu = None /\ pc[p] = "ready"
    /\ pc' = [pc EXCEPT ![p] = "loop"]
    /\ cpu' = p
    /\ Clk("none")
    /\ UNCHANGED <<tx_busy, left, hpc, echo>>

write_wait(p) ==
    /\ cpu = p /\ pc[p] = "loop" /\ (left[p] = 0 \/ tx_busy)
    /\ pc' = [pc EXCEPT ![p] = IF left[p] = 0 THEN "out" ELSE "asleep"]
    /\ cpu' = None
    /\ Clk("none")
    /\ UNCHANGED <<tx_busy, left, hpc, echo>>

\* WriteReg(THR, buf[i]): the bus stalls the CPU while the FIFO is full.
write_thr(p) ==
    /\ cpu = p /\ pc[p] = "loop" /\ left[p] > 0 /\ ~tx_busy
    /\ IF Full THEN UNCHANGED <<tx_busy, left>>
               ELSE tx_busy' = TRUE /\ left' = [left EXCEPT ![p] = @ - 1]
    /\ Clk("thr")
    /\ UNCHANGED <<cpu, pc, hpc, echo>>

\* uartputc_sync() from printf(): spin on THRE, write, return.
put(p) ==
    /\ cpu = p /\ pc[p] = "put"
    /\ IF thre /\ ~Full THEN cpu' = None /\ pc' = [pc EXCEPT ![p] = "out"]
                        ELSE UNCHANGED <<cpu, pc>>
    /\ Clk(IF thre THEN "thr" ELSE "none")
    /\ UNCHANGED <<tx_busy, left, hpc, echo>>

-----------------------------------------------------------------------------
\* The trap, where interrupts are on.
trap ==
    /\ cpu = None /\ pending
    /\ cpu' = Intr /\ hpc' = "claim"
    /\ Clk("none")
    /\ UNCHANGED <<tx_busy, pc, left, echo>>

\* plic_claim() returns UART0_IRQ, or 0 when nothing is pending.
claim ==
    /\ hpc = "claim"
    /\ hpc' = IF pending THEN "lsr" ELSE "ret"
    /\ Clk("none")
    /\ UNCHANGED <<tx_busy, cpu, pc, left, echo>>

\* Mutant: the handler clears tx_busy and wakes nobody.
lsr_silent ==
    /\ hpc = "lsr"
    /\ IF thre
         THEN /\ tx_busy' = FALSE
              /\ pc' = [p \in Procs |-> pc[p]]
         ELSE UNCHANGED <<tx_busy, pc>>
    /\ hpc' = "getc"
    /\ Clk("none")
    /\ UNCHANGED <<cpu, left, echo>>

lsr ==
    /\ hpc = "lsr"
    /\ IF thre
         THEN /\ tx_busy' = FALSE
              /\ pc' = [p \in Procs |-> IF pc[p] = "asleep" THEN "ready" ELSE pc[p]]
         ELSE UNCHANGED <<tx_busy, pc>>
    /\ hpc' = "getc"
    /\ Clk("none")
    /\ UNCHANGED <<cpu, left, echo>>

getc ==
    /\ hpc = "getc"
    /\ hpc' = IF rxcnt > 0 THEN "rhr" ELSE "complete"
    /\ Clk("none")
    /\ UNCHANGED <<tx_busy, cpu, pc, left, echo>>

\* Take the key; consoleintr() echoes some bytes for it.
rhr ==
    /\ hpc = "rhr"
    /\ echo' \in 0 .. MaxEcho
    /\ hpc' = IF echo' = 0 THEN "getc" ELSE "put"
    /\ Clk("rhr")
    /\ UNCHANGED <<tx_busy, cpu, pc, left>>

\* uartputc_sync() for the echo.
put_echo ==
    /\ hpc = "put"
    /\ IF thre /\ ~Full THEN echo' = echo - 1 /\ hpc' = IF echo = 1 THEN "getc" ELSE "put"
                        ELSE UNCHANGED <<echo, hpc>>
    /\ Clk(IF thre THEN "thr" ELSE "none")
    /\ UNCHANGED <<tx_busy, cpu, pc, left>>

plic_complete ==
    /\ hpc \in {"complete", "ret"}
    /\ hpc' = "off" /\ cpu' = None
    /\ Clk(IF hpc = "complete" THEN "complete" ELSE "none")
    /\ UNCHANGED <<tx_busy, pc, left, echo>>

\* User code, or the scheduler's wfi.
other ==
    /\ cpu = None
    /\ Clk("none")
    /\ UNCHANGED sw

handler == claim \/ lsr \/ getc \/ rhr \/ put_echo \/ plic_complete
process(p) == resume(p) \/ write_wait(p) \/ write_thr(p) \/ put(p)

Next == trap \/ handler \/ other \/ \E p \in Procs : call(p) \/ process(p)

Spec == Init /\ [][Next]_vars

\* The clock ticks, frames end, a pending interrupt is taken, the CPU goes on running, the
\* scheduler resumes a process that is ready again and again.
FairSpec ==
    /\ Spec
    /\ WF_vars(Next) /\ WF_vars(Next /\ shift /\ ~shift')
    /\ SF_vars(trap) /\ WF_vars(handler)
    /\ \A p \in Procs : SF_vars(resume(p)) /\ WF_vars(process(p))

-----------------------------------------------------------------------------
\* A process asleep in uartwrite() waits for an interrupt that is on its way
\* (uart.c:87-90, 148-152; plic.v:131-142; soc.v:811): tx_busy is set and the
\* PLIC holds the interrupt or the line that raises it is up. plic_complete()
\* does not wipe out the last one. DrainAssumption is what it rests on.
InterruptComing ==
    /\ TypeOK
    /\ \A p \in Procs : pc[p] = "asleep" => tx_busy /\ (pending \/ uart_irq)

\* A process that sleeps in uartwrite() is woken (uart.c:87-91), whatever other
\* writers and keys do, unless the kernel prints for ever.
SenderWoken ==
    \A p \in Procs : pc[p] = "asleep" ~>
       pc[p] # "asleep" \/ []<>(\E q \in Printers : pc[q] = "put")
=============================================================================
