---------------------------- MODULE UartProofs ------------------------------
(***************************************************************************)
(* A sender that sleeps has an interrupt coming, for any number of         *)
(* processes, any FIFO and any number of keys that the handler can finish  *)
(* before a full FIFO drains.                                              *)
(***************************************************************************)
EXTENDS UartIrq, Integers, TLAPS

-----------------------------------------------------------------------------
(* The inductive invariant. The danger is plic_complete(), which clears    *)
(* the pending bit: when uartintr() found THRE low and left tx_busy set,   *)
(* the line has to be up still. THRE is low because the FIFO was full, so  *)
(* the invariant counts the steps until the transmitter is idle. Every key *)
(* holds the handler up for two steps in which it writes nothing, and the  *)
(* invariant sets the keys that may come against the work that is left.    *)

\* Least number of steps a byte in the FIFO takes: its start, its frame, its end.
PerByte == FRAME + 2

\* Least number of steps until the transmitter has nothing left to do.
Work == txcnt * PerByte + IF shift THEN FRAME + 1 - age ELSE 0

\* That number one step after the FIFO was full.
FullWork == DEPTH * PerByte - 1

\* Steps' worth of keys: FRAME + 1 for each in the FIFO, and the age of the next.
PerKey == FRAME + 1
Keys == rxcnt * PerKey + rxage
MaxKeys == DEPTH * PerKey + FRAME

\* A step takes one from Work and adds one to Keys; a key that is taken, two
\* steps, takes FRAME - 1 from Keys. Margin does not shrink by it.
Margin == (FRAME - 1) * Work - 2 * Keys
FullMargin == (FRAME - 1) * FullWork - 2 * MaxKeys

\* The handler has lost at most n steps, other than for keys, since the FIFO
\* was full.
Lost(n) == FullMargin <= Margin + n * PerKey

\* The handler has the CPU for itself.
CpuInv ==
    /\ cpu = Intr <=> hpc # "off"
    /\ hpc = "rhr" => rxcnt > 0
    /\ hpc = "put" => echo > 0

\* A transmission that uart.c waits for keeps the line up to the end of it.
SendInv ==
    tx_busy =>
       /\ pending \/ uart_irq
       /\ hpc = "lsr" => thre \/ Lost(0)
       /\ hpc = "getc" => Lost(1)
       /\ hpc = "rhr" => Lost(2)
       /\ hpc = "put" => IF thre \/ Full THEN Lost(1) ELSE Lost(0)
       /\ hpc = "complete" => Lost(2)

IInv ==
    /\ TypeOK /\ CpuInv /\ SendInv
    /\ \A p \in Procs : pc[p] = "asleep" => tx_busy

-----------------------------------------------------------------------------
(* The hardware's part of a step.                                          *)

\* Sums of equal numbers.
LEMMA Product == ASSUME NEW m \in Nat, NEW k \in Nat PROVE m * k \in Nat
OBVIOUS

LEMMA Scaled ==
    ASSUME NEW k \in Nat, NEW m \in Nat, NEW n \in Nat
    PROVE  /\ n <= m => n * k <= m * k
           /\ n # 0 => k <= n * k
<1>1. ASSUME n <= m PROVE n * k <= m * k
    <2>1. (m - n) * k \in Nat
        BY <1>1
    <2>2. (m - n) * k = m * k - n * k
        OBVIOUS
    <2>3. QED
        BY <2>1, <2>2
<1>2. ASSUME n # 0 PROVE k <= n * k
    <2>1. (n - 1) * k \in Nat
        BY <1>2
    <2>2. (n - 1) * k = n * k - k
        OBVIOUS
    <2>3. QED
        BY <2>1, <2>2
<1>3. QED
    BY <1>1, <1>2

LEMMA Scaling ==
    ASSUME NEW k \in Nat, NEW m \in Int, NEW n \in Int, NEW d \in Int, m <= n + d
    PROVE  k * m <= k * n + k * d
<1>1. k * (n + d - m) \in Nat
    OBVIOUS
<1>2. k * (n + d - m) = k * n + k * d - k * m
    OBVIOUS
<1>3. k * n \in Int /\ k * m \in Int /\ k * d \in Int
    OBVIOUS
<1>4. QED
    BY <1>1, <1>2, <1>3

\* Work and FullWork are numbers, and an idle transmitter is one with no work.
LEMMA Working ==
    ASSUME TypeOK
    PROVE  /\ Work \in Nat /\ FullWork \in Nat
           /\ Work # 0 <=> tx_busy_wire
           /\ Full => FullWork < Work
<1>1. /\ txcnt \in Nat /\ DEPTH \in Nat \ {0} /\ FRAME \in Nat /\ age \in Nat /\ age <= FRAME
      /\ PerByte = FRAME + 2 /\ PerByte \in Nat
    BY UartAssumption DEF TypeOK, PerByte
<1>2. /\ txcnt * PerByte \in Nat /\ DEPTH * PerByte \in Nat
      /\ txcnt # 0 => PerByte <= txcnt * PerByte
      /\ PerByte <= DEPTH * PerByte
    BY <1>1, Product, Scaled
<1>3. txcnt = 0 => txcnt * PerByte = 0
    BY <1>1
<1>4. QED
    BY <1>1, <1>2, <1>3 DEF Work, FullWork, tx_busy_wire, Full

\* The transmitter does one step of its work (tx_uart.v), and THRE goes low
\* for a byte that is taken, and stays low while the FIFO is full (soc.v:811).
LEMMA TxStep ==
    ASSUME TypeOK, NEW acc, tx_clk(acc)
    PROVE  /\ txcnt' \in 0 .. DEPTH /\ age' \in 0 .. FRAME
           /\ shift' \in BOOLEAN /\ thre' \in BOOLEAN
           /\ Work' \in Int /\ Work <= Work' + 1
           /\ acc = "thr" /\ ~Full => Work + PerByte <= Work' + 1 /\ thre' = FALSE
           /\ Full => FullWork <= Work'
           /\ acc # "thr" \/ Full => (thre' <=> thre \/ ~Full)
<1>1. /\ txcnt \in Nat /\ txcnt <= DEPTH /\ DEPTH \in Nat /\ FRAME \in Nat
      /\ age \in Nat /\ age <= FRAME /\ PerByte = FRAME + 2 /\ PerByte \in Nat
    BY UartAssumption DEF TypeOK, PerByte
<1>2. /\ thre' \in BOOLEAN
      /\ acc = "thr" /\ ~Full => thre' = FALSE
      /\ acc # "thr" \/ Full => (thre' <=> thre \/ ~Full)
    BY Zenon DEF tx_clk, TypeOK
<1> DEFINE add == Bit(acc = "thr" /\ ~Full)
           sub == Bit(~shift /\ txcnt > 0)
           rest == IF shift THEN FRAME + 1 - age ELSE 0
           next == IF shift' THEN FRAME + 1 - age' ELSE 0
<1>3. txcnt' = txcnt + add - sub
    BY Zenon DEF tx_clk
<1>4. /\ add \in {0, 1} /\ sub \in {0, 1}
      /\ add = 1 <=> acc = "thr" /\ ~Full
      /\ sub = 1 <=> ~shift /\ txcnt > 0
    BY DEF Bit
<1>5. /\ txcnt' \in Nat /\ txcnt' <= DEPTH
      /\ add = 1 => txcnt < DEPTH
    <2>1. add = 1 => txcnt # DEPTH
        BY <1>4, Zenon DEF Full
    <2>2. sub = 1 => txcnt > 0
        BY <1>4, Zenon
    <2> HIDE DEF add, sub
    <2>3. add \in {0, 1} /\ sub \in {0, 1}
        BY <1>4
    <2>4. QED
        BY <1>1, <1>3, <2>1, <2>2, <2>3
<1>6. /\ age' \in 0 .. FRAME /\ shift' \in BOOLEAN /\ rest \in Nat /\ next \in Nat
      /\ sub = 1 => rest = 0 /\ next = FRAME + 1
      /\ sub = 0 => rest <= next + 1
    <2>1. /\ Older(age) \in 0 .. FRAME /\ Older(age) \in Nat /\ Older(age) <= age + 1
          /\ Older(age) <= FRAME /\ 0 \in 0 .. FRAME /\ 0 # 1
        BY <1>1 DEF Older
    <2>2. CASE shift /\ shift' = TRUE /\ age' = Older(age)
        <3>1. sub # 1 /\ rest = FRAME + 1 - age /\ next = FRAME + 1 - Older(age)
            BY <1>4, <2>2, Zenon
        <3>2. rest \in Nat /\ next \in Nat /\ rest <= next + 1
            BY <1>1, <2>1, <3>1
        <3>3. QED
            BY <2>1, <2>2, <3>1, <3>2, Zenon
    <2>3. CASE shift /\ age = FRAME /\ shift' = FALSE /\ age' = 0
        <3>1. sub # 1 /\ rest = FRAME + 1 - FRAME /\ next = 0
            BY <1>4, <2>3, Zenon
        <3>2. rest \in Nat /\ next \in Nat /\ rest <= next + 1
            BY <1>1, <3>1
        <3>3. QED
            BY <2>1, <2>3, <3>1, <3>2, Zenon
    <2>4. CASE ~shift /\ txcnt > 0 /\ shift' = TRUE /\ age' = 0
        <3>1. sub = 1 /\ rest = 0 /\ next = FRAME + 1 - 0
            BY <1>4, <2>4, Zenon
        <3>2. rest \in Nat /\ next \in Nat /\ next = FRAME + 1
            BY <1>1, <3>1
        <3>3. QED
            BY <2>1, <2>4, <3>1, <3>2, Zenon
    <2>5. CASE ~shift /\ ~(txcnt > 0) /\ shift' = FALSE /\ age' = Older(age)
        <3>1. sub # 1 /\ rest = 0 /\ next = 0
            BY <1>4, <2>5, Zenon
        <3>2. rest \in Nat /\ next \in Nat /\ rest <= next + 1
            BY <3>1
        <3>3. QED
            BY <2>1, <2>5, <3>1, <3>2, Zenon
    <2>6. shift \in BOOLEAN
        BY DEF TypeOK
    <2>7. QED
        BY <2>2, <2>3, <2>4, <2>5, <2>6, Zenon DEF tx_clk
<1> DEFINE old == txcnt * PerByte
           new == txcnt' * PerByte
<1>7. /\ Work = old + rest /\ Work' = new + next
    BY Zenon DEF Work, PerByte
<1>8. /\ old \in Nat /\ new \in Nat
      /\ txcnt' = txcnt => new = old
      /\ txcnt' = txcnt + 1 => new = old + PerByte
      /\ txcnt' = txcnt - 1 => new = old - PerByte
    <2>1. old \in Nat /\ new \in Nat
        BY <1>1, <1>5, Product, Zenon
    <2>2. txcnt' = txcnt => new = old
        BY Zenon
    <2>3. /\ txcnt' = txcnt + 1 => new = old + PerByte
          /\ txcnt' = txcnt - 1 => new = old - PerByte
        <3>1. \A m \in Nat : /\ (m + 1) * PerByte = m * PerByte + PerByte
                              /\ (m - 1) * PerByte = m * PerByte - PerByte
            BY <1>1
        <3>2. QED
            BY <1>1, <3>1, Zenon
    <2>4. QED
        BY <2>1, <2>2, <2>3, Zenon
<1> HIDE DEF add, sub, rest, next, old, new
<1>9. /\ Work' \in Int /\ Work <= Work' + 1
      /\ add = 1 => Work + PerByte <= Work' + 1
    <2>1. CASE add = 0 /\ sub = 0
        BY <1>1, <1>3, <1>6, <1>7, <1>8, <2>1
    <2>2. CASE add = 0 /\ sub = 1
        BY <1>1, <1>3, <1>6, <1>7, <1>8, <2>2
    <2>3. CASE add = 1 /\ sub = 0
        BY <1>1, <1>3, <1>6, <1>7, <1>8, <2>3
    <2>4. CASE add = 1 /\ sub = 1
        BY <1>1, <1>3, <1>6, <1>7, <1>8, <2>4
    <2>5. QED
        BY <1>4, <2>1, <2>2, <2>3, <2>4
<1>10. Full => FullWork <= Work'
    <2>1. Work \in Nat /\ FullWork \in Nat /\ (Full => FullWork < Work)
        BY Working
    <2>2. \A f, w \in Nat, v \in Int : f < w /\ w <= v + 1 => f <= v
        OBVIOUS
    <2>3. QED
        BY <1>9, <2>1, <2>2, Zenon
<1>11. txcnt' \in 0 .. DEPTH
    BY <1>1, <1>5
<1>12. QED
    BY <1>2, <1>4, <1>6, <1>9, <1>10, <1>11, Zenon

\* A step adds at most one to Keys, and taking a key takes FRAME off
\* (rx_uart.v).
LEMMA RxStep ==
    ASSUME TypeOK, NEW acc, rx_clk(acc)
    PROVE  /\ rxcnt' \in 0 .. DEPTH /\ rxage' \in 0 .. FRAME /\ rxleft' \in 0 .. MaxRx
           /\ Keys \in Nat /\ Keys' \in Nat /\ Keys' <= MaxKeys /\ Keys' <= Keys + 1
           /\ acc = "rhr" /\ rxcnt > 0 => Keys' + FRAME <= Keys
           /\ acc # "rhr" => rxcnt <= rxcnt'
<1>1. /\ rxcnt \in Nat /\ rxcnt <= DEPTH /\ rxage \in Nat /\ rxage <= FRAME
      /\ rxleft \in Nat /\ rxleft <= MaxRx
      /\ DEPTH \in Nat /\ FRAME \in Nat /\ MaxRx \in Nat /\ PerKey = FRAME + 1 /\ PerKey \in Nat
    BY UartAssumption DEF TypeOK, PerKey
<1> DEFINE sub == Bit(acc = "rhr" /\ rxcnt > 0)
           add == Bit(rxcnt < DEPTH)
<1>2. /\ sub \in {0, 1} /\ add \in {0, 1}
      /\ sub = 1 <=> acc = "rhr" /\ rxcnt > 0
      /\ add = 1 <=> rxcnt < DEPTH
    BY DEF Bit
<1>3. \/ rxcnt' = rxcnt - sub /\ rxage' = Older(rxage) /\ rxleft' = rxleft
      \/ /\ rxleft > 0 /\ rxage = FRAME /\ rxleft' = rxleft - 1 /\ rxage' = 0
         /\ rxcnt' = rxcnt + add - sub
    BY Zenon DEF rx_clk
<1> HIDE DEF sub, add
<1>4. Older(rxage) \in Nat /\ Older(rxage) <= FRAME /\ Older(rxage) <= rxage + 1
    BY <1>1 DEF Older
<1>5. /\ rxcnt' \in Nat /\ rxcnt' <= DEPTH /\ rxage' \in Nat /\ rxage' <= FRAME
      /\ rxleft' \in Nat /\ rxleft' <= MaxRx
      /\ acc # "rhr" => rxcnt <= rxcnt'
    BY <1>1, <1>2, <1>3, <1>4
<1> DEFINE old == rxcnt * PerKey
           new == rxcnt' * PerKey
           all == DEPTH * PerKey
<1>6. /\ old \in Nat /\ new \in Nat /\ all \in Nat /\ new <= all
      /\ rxcnt' = rxcnt => new = old
      /\ rxcnt' = rxcnt + 1 => new = old + PerKey
      /\ rxcnt' = rxcnt - 1 => new = old - PerKey
    <2>1. old \in Nat /\ new \in Nat /\ all \in Nat
        BY <1>1, <1>5, Product, Zenon
    <2>2. rxcnt' = rxcnt => new = old
        BY Zenon
    <2>3. new <= all
        BY <1>1, <1>5, Scaled, Zenon
    <2>4. /\ rxcnt' = rxcnt + 1 => new = old + PerKey
          /\ rxcnt' = rxcnt - 1 => new = old - PerKey
        <3>1. \A m \in Nat : /\ (m + 1) * PerKey = m * PerKey + PerKey
                              /\ (m - 1) * PerKey = m * PerKey - PerKey
            BY <1>1
        <3>2. QED
            BY <1>1, <3>1, ZenonT(30)
    <2>5. QED
        BY <2>1, <2>2, <2>3, <2>4, Zenon
<1>7. /\ Keys = old + rxage /\ Keys' = new + rxage' /\ MaxKeys = all + FRAME
    BY Zenon DEF Keys, MaxKeys, PerKey
<1> HIDE DEF old, new, all
<1>8. /\ Keys \in Nat /\ Keys' \in Nat /\ Keys' <= MaxKeys
    <2>1. \A k, m \in Nat : k + m \in Nat
        OBVIOUS
    <2>2. \A k, m, c, d \in Nat : k <= c /\ m <= d => k + m <= c + d
        OBVIOUS
    <2>3. QED
        BY <1>1, <1>5, <1>6, <1>7, <2>1, <2>2, Zenon
<1>9. Keys' <= Keys + 1 /\ (sub = 1 => Keys' + FRAME <= Keys)
    <2>1. CASE rxcnt' = rxcnt - sub /\ rxage' = Older(rxage)
        BY <1>1, <1>2, <1>4, <1>6, <1>7, <2>1
    <2>2. CASE rxage = FRAME /\ rxage' = 0 /\ rxcnt' = rxcnt + add - sub
        BY <1>1, <1>2, <1>6, <1>7, <2>2
    <2>3. QED
        BY <1>3, <2>1, <2>2, Zenon
<1>10. rxcnt' \in 0 .. DEPTH /\ rxage' \in 0 .. FRAME /\ rxleft' \in 0 .. MaxRx
    BY <1>1, <1>5
<1>11. QED
    BY <1>2, <1>5, <1>8, <1>9, <1>10, Zenon

-----------------------------------------------------------------------------
(* How the margin moves.                                                   *)

\* The frames are long enough for what a written byte makes up for.
LEMMA Frames == FRAME \in Nat /\ 3 <= FRAME
<1>1. FRAME \in Nat \ {0} /\ DEPTH \in Nat \ {0}
    BY UartAssumption
<1>2. FRAME # 1
    BY <1>1, DrainAssumption
<1>3. FRAME # 2
    BY <1>1, DrainAssumption
<1>4. QED
    BY <1>1, <1>2, <1>3

\* A step loses the handler one step, unless it takes a key, which makes one up,
\* or writes a byte, which makes up all; a full FIFO has the full margin.
LEMMA MarginStep ==
    ASSUME TypeOK, NEW acc, Clk(acc)
    PROVE  /\ Margin \in Int /\ Margin' \in Int /\ FullMargin \in Int
           /\ FullMargin' = FullMargin
           /\ Margin <= Margin' + PerKey
           /\ acc = "rhr" /\ rxcnt > 0 => Margin + PerKey <= Margin'
           /\ acc = "thr" /\ ~Full => Margin + PerKey <= Margin'
           /\ Full => FullMargin <= Margin'
<1> DEFINE a == FRAME - 1
           gain == 1 - PerByte
<1>1. /\ FRAME \in Nat /\ 3 <= FRAME /\ DEPTH \in Nat /\ a \in Nat /\ PerKey = FRAME + 1
      /\ PerByte = FRAME + 2 /\ gain \in Int /\ PerKey \in Nat
    BY Frames, UartAssumption DEF PerKey, PerByte
<1>2. /\ Work \in Int /\ FullWork \in Int /\ Work' \in Int
      /\ Work <= Work' + 1
      /\ acc = "thr" /\ ~Full => Work <= Work' + gain
      /\ Full => FullWork <= Work' + 0
    <2>1. Work \in Int /\ FullWork \in Int
        BY Working
    <2>2. /\ Work' \in Int /\ Work <= Work' + 1
          /\ acc = "thr" /\ ~Full => Work + PerByte <= Work' + 1
          /\ Full => FullWork <= Work'
        BY TxStep, Zenon DEF Clk
    <2>3. \A w, v, b \in Int : w + b <= v + 1 => w <= v + (1 - b)
        OBVIOUS
    <2>4. \A w, v \in Int : w <= v => w <= v + 0
        OBVIOUS
    <2>5. PerByte \in Int
        BY <1>1
    <2>6. QED
        BY <2>1, <2>2, <2>3, <2>4, <2>5, Zenon
<1>3. /\ Keys \in Nat /\ Keys' \in Nat /\ Keys' <= MaxKeys /\ Keys' <= Keys + 1
      /\ acc = "rhr" /\ rxcnt > 0 => Keys' + FRAME <= Keys
    BY RxStep, Zenon DEF Clk
<1>4. MaxKeys \in Nat
    BY <1>1, Product DEF MaxKeys
<1>5. a * gain \in Int /\ a * gain + PerKey + 2 <= 0
    <2>1. (FRAME - 3) * (FRAME + 1) \in Nat
        BY <1>1
    <2>2. a * gain = 0 - (FRAME - 3) * (FRAME + 1) - 2 * (FRAME + 1)
        BY <1>1
    <2>3. QED
        BY <1>1, <2>1, <2>2
<1>6. a * 1 = FRAME - 1 /\ a * 0 = 0
    BY <1>1
<1>7. /\ Margin = a * Work - 2 * Keys /\ Margin' = a * Work' - 2 * Keys'
      /\ FullMargin = a * FullWork - 2 * MaxKeys /\ FullMargin' = FullMargin
    BY Zenon DEF Margin, FullMargin, FullWork, MaxKeys, PerByte, PerKey
<1>8. 0 \in Int /\ 1 \in Int
    OBVIOUS
<1>9. a * Work \in Int /\ a * Work' \in Int /\ a * FullWork \in Int
    BY <1>1, <1>2
<1> HIDE DEF a, gain
<1>10. /\ a * Work <= a * Work' + a * 1
       /\ acc = "thr" /\ ~Full => a * Work <= a * Work' + a * gain
       /\ Full => a * FullWork <= a * Work' + a * 0
    BY <1>1, <1>2, <1>8, Scaling, Zenon
<1> DEFINE w == a * Work
           v == a * Work'
           u == a * FullWork
           g == a * gain
<1>11. /\ w \in Int /\ v \in Int /\ u \in Int /\ g \in Int /\ g + PerKey + 2 <= 0
       /\ w <= v + (FRAME - 1)
       /\ acc = "thr" /\ ~Full => w <= v + g
       /\ Full => u <= v + 0
       /\ Margin = w - 2 * Keys /\ Margin' = v - 2 * Keys'
       /\ FullMargin = u - 2 * MaxKeys
    BY <1>5, <1>6, <1>7, <1>9, <1>10, Zenon
<1> HIDE DEF w, v, u, g
<1>12. \A x, y \in Int, k, m \in Nat :
          /\ x - 2 * k \in Int
          /\ x <= y + (FRAME - 1) /\ m <= k + 1 => x - 2 * k <= (y - 2 * m) + PerKey
          /\ x <= y + (FRAME - 1) /\ m + FRAME <= k => (x - 2 * k) + PerKey <= y - 2 * m
          /\ x <= y + g /\ m <= k + 1 => (x - 2 * k) + PerKey <= y - 2 * m
          /\ x <= y + 0 /\ m <= k => x - 2 * k <= y - 2 * m
    BY <1>1, <1>11
<1>13. Margin \in Int /\ Margin' \in Int /\ FullMargin \in Int
    BY <1>3, <1>4, <1>11, <1>12, Zenon
<1>14. Margin <= Margin' + PerKey
    BY <1>3, <1>11, <1>12, Zenon
<1>15. acc = "rhr" /\ rxcnt > 0 => Margin + PerKey <= Margin'
    BY <1>3, <1>11, <1>12, Zenon
<1>16. acc = "thr" /\ ~Full => Margin + PerKey <= Margin'
    BY <1>3, <1>11, <1>12, Zenon
<1>17. Full => FullMargin <= Margin'
    BY <1>3, <1>4, <1>11, <1>12, Zenon
<1>18. QED
    BY <1>7, <1>13, <1>14, <1>15, <1>16, <1>17, Zenon

\* What the hardware does to the invariant, whatever the CPU does.
LEMMA ClkStep ==
    ASSUME IInv, NEW acc, Clk(acc)
    PROVE  /\ txcnt' \in 0 .. DEPTH /\ rxcnt' \in 0 .. DEPTH
           /\ age' \in 0 .. FRAME /\ rxage' \in 0 .. FRAME /\ rxleft' \in 0 .. MaxRx
           /\ shift' \in BOOLEAN /\ thre' \in BOOLEAN /\ pending' \in BOOLEAN
           /\ acc # "rhr" /\ rxcnt > 0 => rxcnt' > 0
           /\ acc # "complete" /\ (pending \/ uart_irq) => pending'
           /\ acc = "thr" /\ ~Full => thre' = FALSE
           /\ acc # "thr" \/ Full => (thre' <=> thre \/ ~Full)
<1>1. TypeOK /\ tx_clk(acc) /\ rx_clk(acc) /\ plic_clk(acc)
    BY DEF IInv, Clk
<1>2. /\ pending' \in BOOLEAN
      /\ acc # "complete" /\ (pending \/ uart_irq) => pending'
    BY <1>1, Zenon DEF plic_clk
<1>3. acc # "rhr" /\ rxcnt > 0 => rxcnt' > 0
    <2>1. rxcnt \in Nat /\ rxcnt' \in Nat /\ (acc # "rhr" => rxcnt <= rxcnt')
        BY <1>1, RxStep, UartAssumption DEF TypeOK
    <2>2. QED
        BY <2>1
<1>4. QED
    BY <1>1, <1>2, <1>3, TxStep, RxStep, Zenon

\* How many steps the handler has lost after a step.
LEMMA LostStep ==
    ASSUME IInv, NEW acc, Clk(acc)
    PROVE  /\ Full => Lost(0)' /\ Lost(1)' /\ Lost(2)'
           /\ Lost(0)' => Lost(1)'
           /\ Lost(0) => Lost(1)'
           /\ Lost(1) => Lost(2)'
           /\ Lost(2) => Lost(3)'
           /\ acc = "rhr" /\ rxcnt > 0 /\ Lost(2) => Lost(1)'
           /\ acc = "thr" /\ ~Full /\ Lost(1) => Lost(0)'
<1>1. /\ Margin \in Int /\ Margin' \in Int /\ FullMargin \in Int /\ PerKey \in Nat
      /\ FullMargin' = FullMargin /\ PerKey' = PerKey
      /\ Margin <= Margin' + PerKey
      /\ acc = "rhr" /\ rxcnt > 0 => Margin + PerKey <= Margin'
      /\ acc = "thr" /\ ~Full => Margin + PerKey <= Margin'
      /\ Full => FullMargin <= Margin'
    <2>1. PerKey \in Nat /\ PerKey' = PerKey
        BY UartAssumption DEF PerKey
    <2>2. TypeOK
        BY DEF IInv
    <2>3. QED
        BY <2>1, <2>2, MarginStep, Zenon
<1>2. \A f, m, n \in Int, k \in Nat :
         /\ f <= n => f <= n + k /\ f <= n + 2 * k
         /\ m <= n + k => /\ f <= m => f <= n + k
                          /\ f <= m + k => f <= n + 2 * k
                          /\ f <= m + 2 * k => f <= n + 3 * k
         /\ m + k <= n => /\ f <= m + k => f <= n
                          /\ f <= m + 2 * k => f <= n + k
    OBVIOUS
<1>3. \A f, m \in Int, k \in Nat :
         (f <= m + 0 * k <=> f <= m) /\ (f <= m + 1 * k <=> f <= m + k)
    OBVIOUS
<1>4. /\ Lost(0) <=> FullMargin <= Margin
      /\ Lost(1) <=> FullMargin <= Margin + PerKey
      /\ Lost(2) <=> FullMargin <= Margin + 2 * PerKey
      /\ Lost(0)' <=> FullMargin <= Margin'
      /\ Lost(1)' <=> FullMargin <= Margin' + PerKey
      /\ Lost(2)' <=> FullMargin <= Margin' + 2 * PerKey
      /\ Lost(3)' <=> FullMargin <= Margin' + 3 * PerKey
    BY <1>1, <1>3, Zenon DEF Lost
<1>5. QED
    BY <1>1, <1>2, <1>4, ZenonT(30)

\* A handler that has lost three steps finds the transmitter at work.
LEMMA StillBusy == TypeOK /\ Lost(3) => uart_irq
<1> HAVE TypeOK /\ Lost(3)
<1>1. /\ FRAME \in Nat /\ 3 <= FRAME /\ DEPTH \in Nat
      /\ Work \in Nat /\ FullWork \in Nat /\ (Work # 0 <=> tx_busy_wire)
    BY Frames, Working, UartAssumption
<1>2. Keys \in Nat /\ MaxKeys \in Nat
    <2>1. rxcnt \in Nat /\ rxage \in Nat /\ PerKey \in Nat
        BY UartAssumption DEF TypeOK, PerKey
    <2>2. rxcnt * PerKey \in Nat /\ DEPTH * PerKey \in Nat
        BY <1>1, <2>1, Scaled
    <2>3. QED
        BY <1>1, <2>1, <2>2 DEF Keys, MaxKeys
<1>3. 0 < FullMargin - 3 * PerKey
    <2>1. (FRAME - 1) * FullWork \in Nat
        BY <1>1
    <2>2. 2 * MaxKeys + 3 * PerKey < (FRAME - 1) * FullWork
        BY DrainAssumption DEF FullWork, MaxKeys, PerByte, PerKey
    <2>3. QED
        BY <1>1, <1>2, <2>1, <2>2 DEF FullMargin, PerKey
<1>4. Work = 0 => Margin <= 0
    BY <1>1, <1>2 DEF Margin
<1>5. Margin \in Int /\ FullMargin \in Int /\ PerKey \in Nat
    BY <1>1, <1>2 DEF Margin, FullMargin, PerKey
<1>6. Work # 0
    BY <1>3, <1>4, <1>5 DEF Lost
<1>7. QED
    BY <1>1, <1>6 DEF uart_irq

LEMMA StillBusyNext == TypeOK' /\ Lost(3)' => uart_irq'
BY StillBusy, PTL

-----------------------------------------------------------------------------
(* Each step of the CPU preserves the invariant.                           *)

\* The types of the hardware's registers and the program's variables.
LEMMA Types ==
    ASSUME IInv, NEW acc, Clk(acc),
           tx_busy' \in BOOLEAN, cpu' \in Procs \cup {None, Intr},
           pc' \in [Procs -> {"out", "ready", "loop", "asleep", "put"}],
           left' \in [Procs -> 0 .. MaxN], hpc' \in Handler, echo' \in 0 .. MaxEcho
    PROVE  TypeOK'
BY ClkStep, Zenon DEF TypeOK

\* With the handler off, all it takes is the interrupt that is coming: a step
\* that neither completes it nor starts a transmission leaves it coming.
LEMMA Quiet ==
    ASSUME IInv, NEW acc, acc # "complete", Clk(acc),
           cpu' \in Procs \cup {None, Intr}, hpc' \in {"off", "claim"},
           cpu' = Intr <=> hpc' # "off",
           pc' \in [Procs -> {"out", "ready", "loop", "asleep", "put"}],
           left' \in [Procs -> 0 .. MaxN],
           tx_busy' = tx_busy, echo' = echo,
           \A p \in Procs : pc'[p] = "asleep" => pc[p] = "asleep" \/ tx_busy
    PROVE  IInv'
<1>1. TypeOK'
    <2>1. tx_busy \in BOOLEAN /\ echo \in 0 .. MaxEcho /\ hpc' \in Handler
        BY DEF IInv, TypeOK, Handler
    <2>2. QED
        BY <2>1, Types
<1>2. CpuInv'
    BY DEF CpuInv
<1>3. SendInv'
    <2>1. tx_busy => pending \/ uart_irq
        BY DEF IInv, SendInv
    <2>2. tx_busy' => pending'
        BY <2>1, ClkStep, Zenon
    <2>3. QED
        BY <2>2 DEF SendInv
<1>4. \A p \in Procs : pc'[p] = "asleep" => tx_busy'
    BY DEF IInv
<1>5. QED
    BY <1>1, <1>2, <1>3, <1>4 DEF IInv

\* A byte that is written raises the line (soc.v:528-578, 811).
LEMMA Sent ==
    ASSUME IInv, Clk("thr"), ~Full
    PROVE  uart_irq'
<1>1. txcnt \in Nat /\ txcnt' = txcnt + 1 - Bit(~shift /\ txcnt > 0)
    <2>1. txcnt' = txcnt + Bit(TRUE) - Bit(~shift /\ txcnt > 0)
        BY DEF Clk, tx_clk, Bit
    <2>2. QED
        BY <2>1, UartAssumption DEF IInv, TypeOK, Bit
<1>2. txcnt' > 0
    BY <1>1 DEF Bit
<1>3. QED
    BY <1>2 DEF uart_irq, tx_busy_wire

LEMMA ProcessInv ==
    ASSUME IInv, NEW p \in Procs, call(p) \/ resume(p) \/ write_wait(p) \/ put(p)
    PROVE  IInv'
<1> USE UartAssumption
<1>1. cpu # Intr /\ hpc = "off" /\ hpc' = "off" /\ tx_busy' = tx_busy /\ echo' = echo
    BY DEF IInv, CpuInv, call, resume, write_wait, put
<1>2. PICK acc \in {"none", "thr"} : Clk(acc)
    BY Zenon DEF call, resume, write_wait, put
<1>3. cpu' \in Procs \cup {None} /\ cpu' # Intr
    BY <1>1 DEF call, resume, write_wait, put
<1>4. pc' \in [Procs -> {"out", "ready", "loop", "asleep", "put"}]
    BY DEF IInv, TypeOK, call, resume, write_wait, put
<1>5. left' \in [Procs -> 0 .. MaxN]
    BY DEF IInv, TypeOK, call, resume, write_wait, put
<1>6. \A q \in Procs : pc'[q] = "asleep" => pc[q] = "asleep" \/ tx_busy
    BY DEF IInv, TypeOK, call, resume, write_wait, put
<1>7. acc # "complete" /\ cpu' \in Procs \cup {None, Intr}
    BY <1>2, <1>3
<1>8. QED
    BY <1>1, <1>2, <1>3, <1>4, <1>5, <1>6, <1>7, Quiet

LEMMA WriteThrInv ==
    ASSUME IInv, NEW p \in Procs, write_thr(p)
    PROVE  IInv'
<1> USE UartAssumption
<1>1. /\ cpu = p /\ cpu' = cpu /\ pc' = pc /\ echo' = echo /\ hpc = "off" /\ hpc' = "off"
      /\ Clk("thr")
    BY DEF IInv, CpuInv, write_thr
<1>2. /\ cpu \in Procs \cup {None, Intr} /\ cpu # Intr /\ echo \in 0 .. MaxEcho
      /\ pc \in [Procs -> {"out", "ready", "loop", "asleep", "put"}]
      /\ left' \in [Procs -> 0 .. MaxN]
    BY <1>1 DEF IInv, TypeOK, write_thr
<1>3. CASE Full
    <2>1. tx_busy' = tx_busy
        BY <1>3 DEF write_thr
    <2>2. QED
        BY <1>1, <1>2, <2>1, Quiet
<1>4. CASE ~Full
    <2>1. tx_busy' = TRUE
        BY <1>4 DEF write_thr
    <2>2. uart_irq'
        BY <1>1, <1>4, Sent
    <2>3. TypeOK'
        <3>1. hpc' \in Handler /\ tx_busy' \in BOOLEAN
            BY <1>1, <2>1 DEF Handler
        <3>2. QED
            BY <1>1, <1>2, <3>1, Types
    <2>4. CpuInv' /\ SendInv'
        BY <1>1, <1>2, <2>2 DEF CpuInv, SendInv
    <2>5. QED
        BY <2>1, <2>3, <2>4 DEF IInv
<1>5. QED
    BY <1>3, <1>4

LEMMA TrapInv ==
    ASSUME IInv, trap \/ other
    PROVE  IInv'
<1> USE UartAssumption
<1>1. /\ hpc = "off" /\ tx_busy' = tx_busy /\ echo' = echo /\ pc' = pc /\ left' = left
      /\ Clk("none")
      /\ \/ cpu' = Intr /\ hpc' = "claim"
         \/ cpu' = None /\ hpc' = "off"
    BY DEF IInv, CpuInv, trap, other, sw
<1>2. /\ pc \in [Procs -> {"out", "ready", "loop", "asleep", "put"}]
      /\ left \in [Procs -> 0 .. MaxN]
    BY DEF IInv, TypeOK
<1>3. QED
    BY <1>1, <1>2, Quiet

-----------------------------------------------------------------------------
(* The handler. Until plic_complete() the pending bit stays.               *)

\* A step of the handler that goes on: what is left to show.
LEMMA Going ==
    ASSUME IInv, NEW acc, acc # "complete", Clk(acc), hpc # "off",
           hpc' \in Handler \ {"off"}, cpu' = cpu, left' = left, echo' \in 0 .. MaxEcho,
           tx_busy' = tx_busy, pc' = pc,
           hpc' = "rhr" => rxcnt' > 0, hpc' = "put" => echo' > 0,
           hpc' = "lsr" => thre' \/ Lost(0)',
           tx_busy /\ hpc' = "getc" => Lost(1)',
           tx_busy /\ hpc' \in {"rhr", "complete"} => Lost(2)',
           tx_busy /\ hpc' = "put" => Lost(1)' /\ (thre' \/ Full' \/ Lost(0)')
    PROVE  IInv'
<1>1. /\ tx_busy \in BOOLEAN /\ cpu \in Procs \cup {None, Intr} /\ cpu = Intr
      /\ pc \in [Procs -> {"out", "ready", "loop", "asleep", "put"}]
      /\ left \in [Procs -> 0 .. MaxN]
      /\ \A p \in Procs : pc[p] = "asleep" => tx_busy
      /\ tx_busy => pending \/ uart_irq
    BY DEF IInv, TypeOK, CpuInv, SendInv
<1>2. TypeOK'
    BY <1>1, Types
<1>3. CpuInv'
    BY <1>1 DEF CpuInv
<1>4. tx_busy' => pending'
    BY <1>1, ClkStep, Zenon
<1>5. SendInv'
    BY <1>4, Zenon DEF SendInv
<1>6. QED
    BY <1>1, <1>2, <1>3, <1>5 DEF IInv

LEMMA ClaimInv ==
    ASSUME IInv, claim
    PROVE  IInv'
<1>1. /\ Clk("none") /\ hpc # "off" /\ hpc' \in {"lsr", "ret"} /\ echo' = echo
      /\ cpu' = cpu /\ left' = left /\ tx_busy' = tx_busy /\ pc' = pc
    BY DEF claim
<1>2. thre' \/ Lost(0)'
    BY <1>1, ClkStep, LostStep, "none" # "thr", Zenon
<1>3. echo' \in 0 .. MaxEcho /\ hpc' \in Handler \ {"off"} /\ "none" # "complete"
    BY <1>1 DEF IInv, TypeOK, Handler
<1>4. QED
    BY <1>1, <1>2, <1>3, Going

LEMMA LsrInv ==
    ASSUME IInv, lsr
    PROVE  IInv'
<1>1. /\ Clk("none") /\ hpc = "lsr" /\ hpc' = "getc" /\ echo' = echo
      /\ cpu' = cpu /\ left' = left
    BY DEF lsr
<1>2. echo' \in 0 .. MaxEcho /\ hpc' \in Handler \ {"off"} /\ "none" # "complete"
    BY <1>1 DEF IInv, TypeOK, Handler
<1>3. CASE thre
    <2>1. /\ tx_busy' = FALSE
          /\ pc' = [p \in Procs |-> IF pc[p] = "asleep" THEN "ready" ELSE pc[p]]
        BY <1>3 DEF lsr
    <2>2. /\ pc' \in [Procs -> {"out", "ready", "loop", "asleep", "put"}]
          /\ \A p \in Procs : pc'[p] # "asleep"
        BY <2>1 DEF IInv, TypeOK
    <2>3. TypeOK'
        <3>1. cpu \in Procs \cup {None, Intr} /\ left \in [Procs -> 0 .. MaxN]
            BY DEF IInv, TypeOK
        <3>2. QED
            BY <1>1, <1>2, <2>1, <2>2, <3>1, Types, Zenon
    <2>4. CpuInv' /\ SendInv'
        BY <1>1, <2>1 DEF IInv, CpuInv, SendInv
    <2>5. QED
        BY <2>2, <2>3, <2>4 DEF IInv
<1>4. CASE ~thre
    <2>1. tx_busy' = tx_busy /\ pc' = pc
        BY <1>4 DEF lsr
    <2>2. tx_busy => Lost(0)
        BY <1>1, <1>4 DEF IInv, SendInv
    <2>3. tx_busy => Lost(1)'
        BY <1>1, <2>2, LostStep, Zenon
    <2>4. QED
        BY <1>1, <1>2, <2>1, <2>3, Going
<1>5. QED
    BY <1>3, <1>4

LEMMA GetcInv ==
    ASSUME IInv, getc
    PROVE  IInv'
<1>1. /\ Clk("none") /\ hpc = "getc" /\ echo' = echo
      /\ cpu' = cpu /\ left' = left /\ tx_busy' = tx_busy /\ pc' = pc
      /\ hpc' = IF rxcnt > 0 THEN "rhr" ELSE "complete"
    BY DEF getc
<1>2. /\ echo' \in 0 .. MaxEcho /\ hpc' \in {"rhr", "complete"} /\ hpc' \in Handler \ {"off"}
      /\ "none" # "complete" /\ "none" # "rhr"
    BY <1>1 DEF IInv, TypeOK, Handler
<1>3. tx_busy => Lost(2)'
    <2>1. tx_busy => Lost(1)
        BY <1>1 DEF IInv, SendInv
    <2>2. QED
        BY <1>1, <2>1, LostStep, Zenon
<1>4. hpc' = "rhr" => rxcnt' > 0
    BY <1>1, <1>2, ClkStep, Zenon
<1>5. QED
    BY <1>1, <1>2, <1>3, <1>4, Going

LEMMA RhrInv ==
    ASSUME IInv, rhr
    PROVE  IInv'
<1>1. /\ Clk("rhr") /\ hpc = "rhr" /\ rxcnt > 0 /\ echo' \in 0 .. MaxEcho
      /\ cpu' = cpu /\ left' = left /\ tx_busy' = tx_busy /\ pc' = pc
      /\ hpc' = IF echo' = 0 THEN "getc" ELSE "put"
    BY DEF IInv, CpuInv, rhr
<1>2. /\ hpc' \in {"getc", "put"} /\ hpc' \in Handler \ {"off"}
      /\ hpc' = "put" => echo' > 0
    BY <1>1, UartAssumption DEF Handler
<1>3. tx_busy => Lost(1)'
    <2>1. tx_busy => Lost(2)
        BY <1>1 DEF IInv, SendInv
    <2>2. QED
        BY <1>1, <2>1, LostStep, Zenon
<1>4. thre' \/ Lost(0)'
    BY <1>1, ClkStep, LostStep, "rhr" # "thr", Zenon
<1>5. "rhr" # "complete"
    OBVIOUS
<1>6. QED
    BY <1>1, <1>2, <1>3, <1>4, <1>5, Going

\* A byte of the echo that is written makes up for what the handler lost; one
\* that waits for THRE waits for the FIFO to have room.
LEMMA PutEchoInv ==
    ASSUME IInv, put_echo
    PROVE  IInv'
<1> DEFINE acc == IF thre THEN "thr" ELSE "none"
<1>1. /\ Clk(acc) /\ hpc = "put" /\ echo > 0 /\ echo \in 0 .. MaxEcho
      /\ cpu' = cpu /\ left' = left /\ tx_busy' = tx_busy /\ pc' = pc
      /\ IF thre /\ ~Full THEN echo' = echo - 1 /\ hpc' = IF echo = 1 THEN "getc" ELSE "put"
                          ELSE echo' = echo /\ hpc' = hpc
    BY DEF IInv, TypeOK, CpuInv, put_echo
<1>2. /\ hpc' \in {"getc", "put"} /\ hpc' \in Handler \ {"off"} /\ echo' \in 0 .. MaxEcho
      /\ hpc' = "put" => echo' > 0
    BY <1>1, UartAssumption DEF Handler
<1>3. /\ acc # "complete"
      /\ thre => acc = "thr"
      /\ ~thre => acc # "thr"
    OBVIOUS
<1> HIDE DEF acc
<1>4. ASSUME tx_busy PROVE Lost(1)' /\ (thre' \/ Lost(0)')
    <2>1. IF thre \/ Full THEN Lost(1) ELSE Lost(0)
        BY <1>1, <1>4 DEF IInv, SendInv
    <2>2. CASE Full
        BY <1>1, <2>2, LostStep, Zenon
    <2>3. CASE thre /\ ~Full
        BY <1>1, <1>3, <2>1, <2>3, LostStep, Zenon
    <2>4. CASE ~thre /\ ~Full
        BY <1>1, <1>3, <2>1, <2>4, LostStep, ClkStep, Zenon
    <2>5. QED
        BY <2>2, <2>3, <2>4
<1>5. QED
    BY <1>1, <1>2, <1>3, <1>4, Going

\* plic_complete() wipes out the pending bit; the line is up still.
LEMMA CompleteInv ==
    ASSUME IInv, plic_complete
    PROVE  IInv'
<1> USE UartAssumption
<1>1. /\ hpc \in {"complete", "ret"} /\ hpc' = "off" /\ cpu' = None /\ cpu' # Intr
      /\ tx_busy' = tx_busy /\ echo' = echo /\ pc' = pc /\ left' = left
    BY DEF plic_complete
<1>2. /\ pc \in [Procs -> {"out", "ready", "loop", "asleep", "put"}]
      /\ left \in [Procs -> 0 .. MaxN] /\ cpu' \in Procs \cup {None, Intr}
      /\ tx_busy \in BOOLEAN /\ echo \in 0 .. MaxEcho /\ hpc' \in Handler
    BY <1>1 DEF IInv, TypeOK, Handler
<1>3. CASE hpc = "ret"
    <2>1. Clk("none") /\ "none" # "complete"
        BY <1>3 DEF plic_complete
    <2>2. QED
        BY <1>1, <1>2, <2>1, Quiet
<1>4. CASE hpc = "complete"
    <2>1. Clk("complete")
        BY <1>4 DEF plic_complete
    <2>2. TypeOK'
        BY <1>1, <1>2, <2>1, Types
    <2>3. tx_busy => Lost(3)'
        <3>1. tx_busy => Lost(2)
            BY <1>4 DEF IInv, SendInv
        <3>2. QED
            BY <2>1, <3>1, LostStep, Zenon
    <2>4. tx_busy' => uart_irq'
        BY <1>1, <2>2, <2>3, StillBusyNext
    <2>5. CpuInv' /\ SendInv'
        BY <1>1, <2>4 DEF CpuInv, SendInv
    <2>6. QED
        BY <1>1, <2>2, <2>5 DEF IInv
<1>5. QED
    BY <1>1, <1>3, <1>4

-----------------------------------------------------------------------------
LEMMA NextInv ==
    ASSUME IInv, [Next]_vars
    PROVE  IInv'
<1>1. CASE trap \/ other
    BY <1>1, TrapInv
<1>2. CASE handler
    BY <1>2, ClaimInv, LsrInv, GetcInv, RhrInv, PutEchoInv, CompleteInv DEF handler
<1>3. ASSUME NEW p \in Procs, call(p) \/ process(p) PROVE IInv'
    BY <1>3, ProcessInv, WriteThrInv DEF process
<1>4. CASE UNCHANGED vars
    <2>1. /\ txcnt' = txcnt /\ shift' = shift /\ age' = age /\ thre' = thre
          /\ rxcnt' = rxcnt /\ rxage' = rxage /\ rxleft' = rxleft /\ pending' = pending
          /\ tx_busy' = tx_busy /\ cpu' = cpu /\ pc' = pc /\ left' = left
          /\ hpc' = hpc /\ echo' = echo
        BY <1>4 DEF vars, hw, txhw, rxhw, sw
    <2>2. TypeOK' /\ CpuInv'
        BY <2>1, Zenon DEF IInv, TypeOK, CpuInv
    <2>3. Margin' = Margin /\ (Full' <=> Full) /\ (uart_irq' <=> uart_irq)
        BY <2>1, Zenon DEF Margin, Work, Keys, PerByte, PerKey, Full, uart_irq, tx_busy_wire
    <2>4. (Lost(0)' <=> Lost(0)) /\ (Lost(1)' <=> Lost(1)) /\ (Lost(2)' <=> Lost(2))
        BY <2>3, Zenon DEF Lost, FullMargin, FullWork, MaxKeys, PerByte, PerKey
    <2>5. SendInv'
        BY <2>1, <2>3, <2>4, Zenon DEF IInv, SendInv
    <2>6. QED
        BY <2>1, <2>2, <2>5, Zenon DEF IInv
<1>5. QED
    BY <1>1, <1>2, <1>3, <1>4 DEF Next

\* The inductive invariant of the console's output path: a transmission that
\* uartwrite() waits for has its interrupt pending or its line up, and between
\* the look at LSR and plic_complete() the handler has lost too few steps for
\* the transmitter to have gone idle (uart.c:140-162, plic.v:131-142).
THEOREM UartInvariant == Spec => []IInv
<1>1. Init => IInv
    <2> HAVE Init
    <2>1. /\ 0 \in 0 .. DEPTH /\ 0 \in 0 .. FRAME /\ MaxRx \in 0 .. MaxRx /\ 0 \in 0 .. MaxN
          /\ 0 \in 0 .. MaxEcho /\ "off" \in Handler /\ None # Intr
        BY UartAssumption DEF Handler
    <2>2. /\ pc \in [Procs -> {"out", "ready", "loop", "asleep", "put"}]
          /\ left \in [Procs -> 0 .. MaxN] /\ \A p \in Procs : pc[p] = "out"
        BY <2>1 DEF Init
    <2>3. TypeOK
        BY <2>1, <2>2, Zenon DEF Init, TypeOK
    <2>4. CpuInv /\ SendInv
        BY <2>1 DEF Init, CpuInv, SendInv
    <2>5. QED
        BY <2>2, <2>3, <2>4 DEF IInv
<1>2. IInv /\ [Next]_vars => IInv'
    BY NextInv
<1>3. QED
    BY <1>1, <1>2, PTL DEF Spec

\* A process asleep in uartwrite() has an interrupt on its way, for any number
\* of processes and keys, any echo and any FIFO that drains slowly enough.
THEOREM InterruptComingHolds == Spec => []InterruptComing
<1>1. IInv => InterruptComing
    BY DEF IInv, SendInv, InterruptComing
<1>2. QED
    BY <1>1, UartInvariant, PTL
=============================================================================
