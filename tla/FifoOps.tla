------------------------------ MODULE FifoOps ------------------------------
(***************************************************************************)
(* The synchronous FIFO of the SoC (fifo.v) as a value and its clock edge  *)
(* as a function, for the modules that contain one.                        *)
(***************************************************************************)
EXTENDS Naturals, Sequences

CONSTANT DEPTH   \* a power of two: the pointers have $clog2(DEPTH) bits

\* After reset; the RAM is not reset and holds init.
fifo_reset(init) ==
    [ram |-> [i \in 0 .. DEPTH - 1 |-> init], rd_ptr |-> 0, wr_ptr |-> 0, cnt |-> 0]

empty(f) == f.cnt = 0
full(f) == f.cnt = DEPTH
dout(f) == f.ram[f.rd_ptr]

wr_accept(f, push, pop) == push /\ (~full(f) \/ pop)
rd_accept(f, pop) == pop /\ ~empty(f)

\* Mutant: a pop together with a push does not move the read pointer.
fifo_clk_stuck(f, push, pop, din) ==
    LET wr == wr_accept(f, push, pop)
        rd == rd_accept(f, pop) /\ ~push
    IN  [ram    |-> IF wr THEN [f.ram EXCEPT ![f.wr_ptr] = din] ELSE f.ram,
         wr_ptr |-> IF wr THEN (f.wr_ptr + 1) % DEPTH ELSE f.wr_ptr,
         rd_ptr |-> IF rd THEN (f.rd_ptr + 1) % DEPTH ELSE f.rd_ptr,
         cnt    |-> CASE pop /\ ~push /\ ~empty(f) -> f.cnt - 1
                      [] push /\ ~pop /\ ~full(f) -> f.cnt + 1
                      [] OTHER -> f.cnt]

\* One clock edge.
fifo_clk(f, push, pop, din) ==
    LET wr == wr_accept(f, push, pop)
        rd == rd_accept(f, pop)
    IN  [ram    |-> IF wr THEN [f.ram EXCEPT ![f.wr_ptr] = din] ELSE f.ram,
         wr_ptr |-> IF wr THEN (f.wr_ptr + 1) % DEPTH ELSE f.wr_ptr,
         rd_ptr |-> IF rd THEN (f.rd_ptr + 1) % DEPTH ELSE f.rd_ptr,
         cnt    |-> CASE pop /\ ~push /\ ~empty(f) -> f.cnt - 1
                      [] push /\ ~pop /\ ~full(f) -> f.cnt + 1
                      [] OTHER -> f.cnt]

\* What the FIFO holds, oldest first.
Contents(f) == [i \in 1 .. f.cnt |-> f.ram[(f.rd_ptr + i - 1) % DEPTH]]
=============================================================================
