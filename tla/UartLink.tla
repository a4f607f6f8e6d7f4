------------------------------ MODULE UartLink ------------------------------
(***************************************************************************)
(* The transmitter tx_uart.v and the receiver rx_uart.v of the SoC, joined *)
(* by a wire and driven by one clock; every step is a clock edge. The CPU  *)
(* at one end offers bytes (valid), the CPU at the other end reads the     *)
(* receive FIFO (data_rd).                                                 *)
(***************************************************************************)
EXTENDS FifoOps, SequencesExt

CONSTANTS Bytes,      \* the bytes sent, each a function 0 .. 7 -> {0, 1}
          DIV,        \* div, the baud divisor, 2 or more
          Setups,     \* of the sender: STOP_BITS and the clocks it pauses after
                      \* a frame (tio's -o)
          MaxBytes    \* how many bytes are sent

VARIABLES
    tx,     \* registers of tx_uart
    rx,     \* registers of rx_uart
    setup,  \* a member of Setups
    quiet,  \* clocks since tx was busy, up to setup.pause
    sent,   \* bytes accepted by tx so far
    got     \* bytes read from rx so far

vars == <<tx, rx, setup, quiet, sent, got>>

AByte == [i \in 0 .. 7 |-> 0]

Init ==
    /\ tx = [fifo |-> fifo_reset(AByte), pop |-> FALSE, state |-> "IDLE", ret |-> "IDLE",
             bit_idx |-> 0, data |-> AByte, wait |-> 0, out |-> 1]
    /\ rx = [fifo |-> fifo_reset(AByte), ready |-> FALSE, error |-> FALSE,
             state |-> "idle", ret |-> "idle", bit_idx |-> 0, data |-> AByte,
             wait |-> 1, sync |-> <<0, 0, 0>>]
    /\ setup \in Setups /\ quiet = setup.pause
    /\ sent = <<>> /\ got = <<>>

-----------------------------------------------------------------------------
ready == ~full(tx.fifo)
busy == tx.state # "IDLE" \/ ~empty(tx.fifo)

\* The FSM of tx_uart; s is tx with the FIFO's new value and fifo_pop cleared.
tx_fsm(s) ==
    CASE tx.state = "IDLE" /\ empty(tx.fifo) ->
           [s EXCEPT !.out = 1, !.bit_idx = 0]
      [] tx.state = "IDLE" /\ ~empty(tx.fifo) ->
           [s EXCEPT !.out = 0, !.bit_idx = 0, !.data = dout(tx.fifo), !.pop = TRUE,
                     !.wait = DIV - 1, !.ret = "DATA", !.state = "WAIT"]
      [] tx.state = "DATA" ->
           [s EXCEPT !.out = tx.data[tx.bit_idx], !.bit_idx = (@ + 1) % 8,
                     !.wait = DIV - 1, !.state = "WAIT",
                     !.ret = IF tx.bit_idx = 7 THEN "STOP" ELSE "DATA"]
      [] tx.state = "STOP" ->
           [s EXCEPT !.out = 1, !.wait = DIV * setup.stop_bits - 1, !.ret = "IDLE",
                     !.state = "WAIT"]
      [] tx.state = "WAIT" ->
           IF tx.wait = 0 THEN [s EXCEPT !.state = tx.ret]
                          ELSE [s EXCEPT !.wait = @ - 1]

tx_uart(valid, byte) ==
    tx' = tx_fsm([tx EXCEPT !.fifo = fifo_clk(@, valid /\ ready, tx.pop, byte),
                            !.pop = FALSE])

-----------------------------------------------------------------------------
\* The FSM of rx_uart, whose states 0 to 4 are idle, start, data, stop and
\* wait; s is rx with the FIFO's and the synchroniser's new values.
in == rx.sync[3]
after(s, n, st) == [s EXCEPT !.wait = n, !.ret = st, !.state = "wait"]

rx_idle(s) ==
    [IF in = 1 /\ rx.sync[2] = 0 THEN after(s, DIV \div 2, "start") ELSE s
       EXCEPT !.ready = FALSE, !.error = FALSE]

rx_start(s) == IF in = 0 THEN after(s, DIV, "data") ELSE [s EXCEPT !.state = "idle"]

\* Mutant: the bits are stored most significant first.
rx_data_msb(s) ==
    [after(s, DIV, IF rx.bit_idx = 7 THEN "stop" ELSE "data")
       EXCEPT !.data[7 - rx.bit_idx] = in, !.bit_idx = (@ + 1) % 8]

rx_data(s) ==
    [after(s, DIV, IF rx.bit_idx = 7 THEN "stop" ELSE "data")
       EXCEPT !.data[rx.bit_idx] = in, !.bit_idx = (@ + 1) % 8]

rx_stop(s) == IF in = 0 THEN [s EXCEPT !.error = TRUE, !.state = "idle"]
                        ELSE after(s, DIV, "idle")

rx_wait(s) == [s EXCEPT !.wait = @ - 1,
                        !.state = IF rx.wait = 1 THEN rx.ret ELSE @,
                        !.ready = IF rx.wait = 1 /\ rx.ret = "idle" THEN TRUE ELSE @]

rx_fsm(s) ==
    CASE rx.state = "idle" -> rx_idle(s)
      [] rx.state = "start" -> rx_start(s)
      [] rx.state = "data" -> rx_data(s)
      [] rx.state = "stop" -> rx_stop(s)
      [] rx.state = "wait" -> rx_wait(s)

rx_uart(rx_in, data_rd) ==
    rx' = rx_fsm([rx EXCEPT
            !.fifo = fifo_clk(@, rx.ready /\ ~full(@), data_rd /\ ~empty(@), rx.data),
            !.sync = <<rx_in, rx.sync[1], rx.sync[2]>>])

\* A clock edge of both ends. The reader takes a byte as soon as there is one.
Clk ==
    \E valid \in BOOLEAN, byte \in Bytes :
       /\ valid => Len(sent) < MaxBytes /\ ready /\ (setup.pause > 0 => quiet = setup.pause /\ ~busy)
       /\ tx_uart(valid, byte)
       /\ rx_uart(tx.out, ~empty(rx.fifo))
       /\ sent' = IF valid THEN Append(sent, byte) ELSE sent
       /\ got' = IF empty(rx.fifo) THEN got ELSE Append(got, dout(rx.fifo))
       /\ quiet' = CASE busy -> 0 [] ~busy /\ quiet < setup.pause -> quiet + 1 [] OTHER -> quiet
       /\ UNCHANGED setup

Spec == Init /\ [][Clk]_vars

-----------------------------------------------------------------------------
\* One clock of a queue that is pushed to and popped from.
Step(q, push, pop, v) == (IF pop THEN Tail(q) ELSE q) \o (IF push THEN <<v>> ELSE <<>>)

\* fifo.v under the pushes and pops of its users (tx_uart.v:43-65, rx_uart.v:50-65):
\* at every clock edge pointers, count and RAM make one step of a queue
\* (fifo.v:55-97), also when a push and a pop meet.
QueueStep ==
    /\ Contents(tx.fifo') = Step(Contents(tx.fifo), sent' # sent, tx.pop, Last(sent'))
    /\ Contents(rx.fifo') = Step(Contents(rx.fifo), rx.ready /\ ~full(rx.fifo),
                                 got' # got, rx.data)
IsQueue == [][QueueStep]_vars

\* The bytes that come out are the bytes sent, in order: the receiver samples
\* each bit of each frame inside that bit (rx_uart.v:88-135, tx_uart.v:97-147).
InOrder == IsPrefix(got, sent)

\* No byte is lost: once both ends have come to rest, all bytes sent have been
\* received. This includes bytes that follow each other without a gap
\* (tx_uart.v:101-113 after 130-135, rx_uart.v:117-126 before 88-96).
NoLoss ==
    ~busy /\ rx.state = "idle" /\ ~rx.ready /\ rx.sync = <<1, 1, 1>> /\ empty(rx.fifo)
       => got = sent
=============================================================================
