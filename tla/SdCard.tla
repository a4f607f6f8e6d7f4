------------------------------- MODULE SdCard -------------------------------
(***************************************************************************)
(* The SD card over SPI: the bootloader's driver (bootloader/sd.c, spi.c)  *)
(* and the one of xv6 (kernel/sdcard.c), byte by byte against a card.      *)
(*                                                                         *)
(* SPI moves a byte each way at once, so a driver that reads one byte too  *)
(* few or too many leaves the card's answer out of step with the next      *)
(* command. A driver function is an operator: from a card it computes the  *)
(* card afterwards and what the function returns. How long the card takes  *)
(* (before a response, before data, busy after a write), which frames it   *)
(* does not answer and which transfers it refuses is chosen for each call. *)
(* xv6's driver holds sdlock for a whole call, the bootloader is alone.    *)
(***************************************************************************)
EXTENDS Integers, Sequences, SequencesExt

CONSTANTS
    BlockLen,       \* bytes in a block (512)
    Blocks,         \* block numbers of the card
    Data,           \* contents a block can have: sequences of BlockLen bytes
    MAX_RETRIES,    \* sd.c (8)
    CmdPolls,       \* bytes read before a response is given up
    TokenPolls,     \* bytes read before a start token, or the end of busy, is given up
    InitLoops,      \* rounds of ACMD41 in spi_init() (10)
    MaxDelay,       \* bound: bytes a card takes before data, or is busy
    MaxDeaf         \* bound: frames in a row that a card does not answer

VARIABLES
    card,        \* the card
    _sdhc_card,  \* sd.c: blocks, not bytes, are addressed
    phase,       \* "off", "boot", "xv6", "panic"
    result,      \* the last call: what it did and whether it succeeded
    want         \* ghost: what the blocks hold

vars == <<card, _sdhc_card, phase, result, want>>

-----------------------------------------------------------------------------
(* The card, as far as the drivers use it.                                 *)

Kinds == {"SD1", "SD2", "SDHC"}
Idle(c) == IF c.left > 0 THEN 1 ELSE 0
Illegal(c) == 4 + Idle(c)
Argument(n) == <<n \div 16777216, (n \div 65536) % 256, (n \div 256) % 256, n % 256>>
Number(s) == s[1] * 16777216 + s[2] * 65536 + s[3] * 256 + s[4]

\* The block an argument names: a number, or a byte address that must be aligned.
Addressed(c, arg) ==
    IF c.kind = "SDHC" THEN {b \in Blocks : b = arg} ELSE {b \in Blocks : b * BlockLen = arg}

Later(n) == [i \in 1 .. n |-> 255]
Answer(c, bytes) == [c EXCEPT !.out = @ \o Later(c.ncr) \o bytes, !.app = FALSE]

\* A frame has arrived: f is the command, four bytes of argument, the checksum.
Execute(c, f) ==
    LET cmd == f[1] - 64
        at == Addressed(c, Number(SubSeq(f, 2, 5)))
    IN CASE cmd = c.deafto /\ c.deaf > 0 -> [c EXCEPT !.deaf = @ - 1]
         [] cmd = 0 /\ f[6] = 149 -> Answer([c EXCEPT !.left = c.powerup, !.out = <<>>], <<1>>)
         [] cmd = 8 /\ f[6] = 135 /\ c.kind # "SD1" -> Answer(c, <<Idle(c), 0, 0, 1, 170>>)
         [] cmd = 55 -> [Answer(c, <<Idle(c)>>) EXCEPT !.app = TRUE]
         [] cmd = 41 /\ c.app ->
              LET d == [c EXCEPT !.left = IF @ > 0 THEN @ - 1 ELSE 0] IN Answer(d, <<Idle(d)>>)
         [] cmd = 58 -> Answer(c, <<Idle(c), IF c.kind = "SDHC" THEN 192 ELSE 128, 255, 128, 0>>)
         [] cmd = 16 -> Answer(c, <<Idle(c)>>)
         [] cmd \in {17, 24} /\ c.left = 0 /\ at = {} -> Answer(c, <<64>>)
         [] cmd = 17 /\ c.left = 0 /\ at # {} ->
              Answer(c, <<0>> \o Later(c.nac) \o
                        IF c.bad THEN <<9>>
                        ELSE <<254>> \o c.blocks[CHOOSE b \in at : TRUE] \o <<0, 254>>)
         [] cmd = 24 /\ c.left = 0 /\ at # {} ->
              [Answer(c, <<0>>) EXCEPT !.mode = "token", !.at = CHOOSE b \in at : TRUE]
         [] OTHER -> Answer(c, <<Illegal(c)>>)

\* A block to write has arrived with its checksum.
Store(c, bytes) ==
    IF c.bad THEN [c EXCEPT !.out = @ \o <<237>>]
    ELSE [c EXCEPT !.blocks[c.at] = SubSeq(bytes, 1, BlockLen),
                   !.out = @ \o <<229>> \o [i \in 1 .. c.busy |-> 0]]

\* The card takes in bytes: a frame after idle bytes, a start token, a block.
Receive(c, bytes) ==
    LET First(S) == SelectInSeq(bytes, LAMBDA b : b \in S)
        start == IF c.in = <<>> THEN First(64 .. 127) ELSE 1
        got == c.in \o IF start = 0 THEN <<>> ELSE SubSeq(bytes, start, Len(bytes))
        token == First({254})
        block == c.in \o IF c.mode = "data" THEN bytes ELSE SubSeq(bytes, token + 1, Len(bytes))
    IN CASE c.mode = "cmd" /\ Len(got) < 6 -> [c EXCEPT !.in = got]
         [] c.mode = "cmd" /\ Len(got) >= 6 -> Execute([c EXCEPT !.in = <<>>], SubSeq(got, 1, 6))
         [] c.mode = "token" /\ token = 0 -> c
         [] OTHER ->
              IF Len(block) < BlockLen + 2 THEN [c EXCEPT !.mode = "data", !.in = block]
              ELSE Store([c EXCEPT !.in = <<>>, !.mode = "cmd"], block)

\* Chip select taken away and given back ends a frame that was begun.
Deselected(c) == [c EXCEPT !.in = <<>>, !.mode = "cmd"]

-----------------------------------------------------------------------------
(* spi.c. `s` is [c |-> the card, r |-> the last byte received]. A byte    *)
(* comes back for every byte sent.                                         *)

On(c) == [c |-> c, r |-> 255]
ByteAt(out, i) == IF i <= Len(out) THEN out[i] ELSE 255

spi_writeblock(s, bytes) ==
    [c |-> Receive([s.c EXCEPT !.out = SubSeq(@, Len(bytes) + 1, Len(@))], bytes),
     r |-> ByteAt(s.c.out, Len(bytes))]

spi_sendrecv(s, b) == spi_writeblock(s, <<b>>)

spi_readblock(s, n) ==
    [s |-> spi_writeblock(s, Later(n)), buf |-> [i \in 1 .. n |-> ByteAt(s.c.out, i)]]

\* Read until a byte of Stop comes, n bytes at most.
Poll(s, Stop, n) ==
    LET found == {i \in 1 .. n : ByteAt(s.c.out, i) \in Stop} IN
    spi_writeblock(s, Later(IF found = {} THEN n ELSE Min(found)))

NotFF == 0 .. 254
NotZero == 1 .. 255

-----------------------------------------------------------------------------
(* sd.c. `h` is [c, r, sdhc], r the response or the value returned.        *)

Host(c, r, sdhc) == [c |-> c, r |-> r, sdhc |-> sdhc]

_sd_send_command(h, cmd, arg) ==
    LET addr == IF ~h.sdhc /\ cmd \in {17, 24} THEN arg * BlockLen ELSE arg
        Ocr(ocr) == Host(spi_sendrecv(ocr.s, 255).c, 0, (ocr.buf[1] \div 64) % 2 = 1)
        Response(p) == IF cmd = 58 /\ p.r = 0 THEN Ocr(spi_readblock(p, 4))
                       ELSE Host(spi_sendrecv(p, 255).c, p.r, h.sdhc)
    IN Response(Poll(spi_writeblock(On(h.c), <<64 + cmd>> \o Argument(addr)
                                               \o <<IF cmd = 8 THEN 135 ELSE 149>>),
                     NotFF, CmdPolls))

\* do { response = command; if (retries++ > MAX_RETRIES) give up } while (response != ok)
RECURSIVE Retry(_, _, _, _, _)
Retry(h, cmd, arg, ok, retries) ==
    LET app == IF cmd = 41 THEN _sd_send_command(h, 55, 0) ELSE h
        Then(g) == CASE retries > MAX_RETRIES -> [h |-> g, up |-> TRUE]
                     [] retries <= MAX_RETRIES /\ g.r = ok -> [h |-> g, up |-> FALSE]
                     [] OTHER -> Retry(g, cmd, arg, ok, retries + 1)
    IN Then(_sd_send_command(app, cmd, arg))

\* The commands of _sd_init() with their arguments and the response each waits for;
\* without an answer to CMD8 the card is an old one, and CMD58 is left out.
InitSteps == <<<<0, 0, 1>>, <<8, 426, 1>>, <<41, 1073741824, 0>>, <<58, 0, 0>>>>

RECURSIVE _sd_init_from(_, _, _)
_sd_init_from(h, i, old) ==
    LET Clocked(g) == [g EXCEPT !.c = spi_writeblock(On(@), <<255, 255>>).c]
        Then(r) == CASE i = 1 /\ r.up -> [r.h EXCEPT !.r = -1]
                     [] i = 1 /\ ~r.up -> _sd_init_from(Clocked(r.h), 2, FALSE)
                     [] i = 2 -> _sd_init_from(r.h, 3, r.up)
                     [] i = 3 /\ r.up -> [r.h EXCEPT !.r = -2]
                     [] i = 3 /\ ~r.up /\ old -> [r.h EXCEPT !.r = 0, !.sdhc = FALSE]
                     [] i = 3 /\ ~r.up /\ ~old -> _sd_init_from(r.h, 4, FALSE)
                     [] i = 4 -> [r.h EXCEPT !.r = 0]
    IN Then(Retry(h, InitSteps[i][1], InitSteps[i][2], InitSteps[i][3], 0))

_sd_init(h0) == _sd_init_from([h0 EXCEPT !.c = Deselected(@)], 1, FALSE)

\* Three attempts.
RECURSIVE sd_init_from(_, _)
sd_init_from(h, retries) ==
    LET Then(g) == IF g.r = 0 THEN g ELSE sd_init_from(g, retries + 1)
    IN IF retries = 3 THEN [h EXCEPT !.r = -1] ELSE Then(_sd_init(h))

\* ok: the value returned.
sd_readsector(h, block) ==
    LET Out(g, c, ok, buf) == [h |-> [g EXCEPT !.c = c], ok |-> ok, buf |-> buf]
        Read(g, d) == Out(g, spi_writeblock(d.s, <<255, 255, 255>>).c, TRUE, d.buf)
        Token(g, t) == IF t.r # 254 THEN Out(g, t.c, FALSE, <<>>)
                       ELSE Read(g, spi_readblock(t, BlockLen))
        Sent(g) == IF g.r # 0 THEN Out(g, g.c, FALSE, <<>>)
                   ELSE Token(g, Poll(On(g.c), {254}, TokenPolls))
    IN Sent(_sd_send_command(h, 17, block))

sd_writesector(h, block, buf) ==
    LET Out(g, s, ok) == [h |-> [g EXCEPT !.c = s.c], ok |-> ok]
        Idled(g, i) == Out(g, i, i.r # 0)
        Waited(g, w) == IF w.r = 0 THEN Out(g, w, FALSE)
                        ELSE Idled(g, Poll(spi_sendrecv(w, 255), NotZero, TokenPolls))
        Taken(g, d) == IF d.r % 32 # 5 THEN Out(g, d, FALSE)
                       ELSE Waited(g, Poll(d, NotZero, TokenPolls))
        Sent(g) ==
            IF g.r # 0 THEN Out(g, On(g.c), FALSE)
            ELSE Taken(g, spi_sendrecv(spi_writeblock(On(g.c), <<254>> \o buf \o <<255, 255>>),
                                       255))
    IN Sent(_sd_send_command(h, 24, block))

-----------------------------------------------------------------------------
(* sdcard.c                                                                *)

spi_cmd(c, cmd, arg, crc) ==
    Poll(spi_writeblock(On(c), <<255, 64 + cmd>> \o arg \o <<crc>>), NotFF, CmdPolls)

\* Every round reads a byte more than the response has: none of them ends the loop.
RECURSIVE ACMD41Loop(_, _)
ACMD41Loop(c, n) ==
    LET Then(s) == IF s.r = 0 \/ n = 1 THEN s.c ELSE ACMD41Loop(s.c, n - 1)
    IN Then(spi_sendrecv(spi_cmd(spi_cmd(c, 55, Argument(0), 0).c, 41, Argument(1073741824), 0), 255))

spi_init(c0) ==
    LET c1 == spi_cmd(Deselected(c0), 0, Argument(0), 149).c
        c2 == spi_readblock(spi_cmd(c1, 8, Argument(426), 135), 4).s.c
        c3 == ACMD41Loop(c2, InitLoops)
        c4 == spi_readblock(spi_cmd(c3, 58, Argument(0), 0), 4).s.c
    IN spi_cmd(c4, 16, Argument(512), 0).c

\* Mutant: the two bytes of the CRC are not read.
spi_rb_no_crc(c, block) ==
    LET Read(d) == [c |-> d.s.c, ok |-> TRUE, buf |-> d.buf]
        Token(t) == IF t.r # 254 THEN [c |-> t.c, ok |-> FALSE, buf |-> <<>>]
                    ELSE Read(spi_readblock(t, BlockLen))
        Sent(r) == IF r.r # 0 THEN [c |-> r.c, ok |-> TRUE, buf |-> <<>>]
                   ELSE Token(Poll(r, NotFF, TokenPolls))
    IN Sent(spi_cmd(c, 17, Argument(block), 0))

\* A refused command returns with the buffer as it was; no start token panics.
spi_rb(c, block) ==
    LET Read(d) == [c |-> spi_writeblock(d.s, <<255, 255>>).c, ok |-> TRUE, buf |-> d.buf]
        Token(t) == IF t.r # 254 THEN [c |-> t.c, ok |-> FALSE, buf |-> <<>>]
                    ELSE Read(spi_readblock(t, BlockLen))
        Sent(r) == IF r.r # 0 THEN [c |-> r.c, ok |-> TRUE, buf |-> <<>>]
                   ELSE Token(Poll(r, NotFF, TokenPolls))
    IN Sent(spi_cmd(c, 17, Argument(block), 0))

\* ok is false when the function panics.
spi_wb(c, block, buf) ==
    LET Out(s, ok) == [c |-> s.c, ok |-> ok]
        Waited(b) == Out(b, b.r = 255)
        Taken(d) == IF d.r % 32 # 5 THEN Out(d, FALSE) ELSE Waited(Poll(d, {255}, TokenPolls))
        Ready(y) ==
            IF y.r # 255 THEN Out(y, FALSE)
            ELSE Taken(spi_sendrecv(spi_writeblock(y, <<254>> \o buf \o <<255, 255>>), 255))
        Sent(r) == IF r.r # 0 THEN Out(r, FALSE) ELSE Ready(Poll(r, {255}, TokenPolls))
    IN Sent(spi_cmd(c, 24, Argument(block), 0))

-----------------------------------------------------------------------------
(* Calls. Each one meets a card of its own pace and faults.                *)

Commands == {0, 8, 41, 55, 58, 17, 24}

NewCard(kind, powerup) ==
    [kind |-> kind, powerup |-> powerup, left |-> powerup, app |-> FALSE, mode |-> "cmd",
     in |-> <<>>, out |-> <<>>, at |-> CHOOSE b \in Blocks : TRUE, blocks |-> want,
     ncr |-> 0, nac |-> 1, busy |-> 0, bad |-> FALSE, deafto |-> 0, deaf |-> 0]

\* The answer to a command comes in time, data comes a byte later at the earliest.
Pace(c) ==
    {[c EXCEPT !.ncr = n, !.nac = d, !.busy = b, !.bad = x] :
        n \in {0, CmdPolls - 1}, d \in {1, MaxDelay}, b \in {0, 1, MaxDelay}, x \in BOOLEAN}
Deaf(c) ==
    {[c EXCEPT !.deafto = k, !.deaf = n] : k \in Commands, n \in 0 .. MaxDeaf}

NoResult == [op |-> "none", ok |-> TRUE, block |-> CHOOSE b \in Blocks : TRUE, buf |-> <<>>]
Done(op, ok, block, buf) == [op |-> op, ok |-> ok, block |-> block, buf |-> buf]
\* Between calls only the kind, the power-up time and the contents matter.
Settled(c) ==
    [c EXCEPT !.ncr = 0, !.nac = 1, !.busy = 0, !.bad = FALSE, !.deafto = 0, !.deaf = 0,
              !.out = IF \A i \in DOMAIN @ : @[i] = 255 THEN <<>> ELSE @]

Init ==
    /\ want \in [Blocks -> Data]
    /\ \E k \in Kinds, n \in 1 .. MAX_RETRIES + 1 : card = NewCard(k, n)
    /\ _sdhc_card = FALSE
    /\ phase = "off"
    /\ result = NoResult

\* The bootloader repeats sd_init() until it succeeds.
sd_init ==
    /\ phase = "off"
    /\ \E c \in Deaf(card), n \in {0, CmdPolls - 1} :
         \E h \in {sd_init_from(Host([c EXCEPT !.ncr = n], 0, _sdhc_card), 0)} :
         /\ card' = Settled(h.c)
         /\ _sdhc_card' = h.sdhc
         /\ phase' = IF h.r = 0 THEN "boot" ELSE "off"
         /\ result' = Done("init", h.r = 0, NoResult.block, <<>>)
    /\ UNCHANGED want

\* After an error the bootloader reads no more and starts what it has.
BootRead(block) ==
    /\ phase = "boot"
    /\ result.ok
    /\ \E c \in Pace(card) : \E d \in {[c EXCEPT !.deafto = 17, !.deaf = n] : n \in {0, 1}} :
         \E x \in {sd_readsector(Host(d, 0, _sdhc_card), block)} :
         /\ card' = Settled(x.h.c)
         /\ result' = Done("read", x.ok, block, x.buf)
    /\ UNCHANGED <<_sdhc_card, phase, want>>

BootWrite(block, buf) ==
    /\ phase = "boot"
    /\ result.ok
    /\ \E c \in Pace(card) :
         \E x \in {sd_writesector(Host(c, 0, _sdhc_card), block, buf)} :
         /\ card' = Settled(x.h.c)
         /\ result' = Done("write", x.ok, block, buf)
         /\ want' = [want EXCEPT ![block] = IF x.ok THEN buf ELSE card'.blocks[block]]
    /\ UNCHANGED <<_sdhc_card, phase>>

\* main() of xv6, with a card that is addressed by blocks.
KernelInit ==
    /\ phase = "boot"
    /\ card.kind = "SDHC"
    /\ card.powerup <= InitLoops
    /\ \E n \in {0, CmdPolls - 1} : card' = Settled(spi_init([card EXCEPT !.ncr = n]))
    /\ phase' = "xv6"
    /\ result' = Done("init", TRUE, NoResult.block, <<>>)
    /\ UNCHANGED <<_sdhc_card, want>>

\* A read command that the card refuses is the subject of module BioReadError.
KernelRead(block) ==
    /\ phase = "xv6"
    /\ \E c \in Pace(card) :
         \E x \in {spi_rb(c, block)} :
         /\ card' = Settled(x.c)
         /\ phase' = IF x.ok THEN "xv6" ELSE "panic"
         /\ result' = Done("read", x.ok, block, x.buf)
    /\ UNCHANGED <<_sdhc_card, want>>

KernelWrite(block, buf) ==
    /\ phase = "xv6"
    /\ \E c \in Pace(card) : \E d \in {[c EXCEPT !.deafto = 24, !.deaf = n] : n \in {0, 1}} :
         \E x \in {spi_wb(d, block, buf)} :
         /\ card' = Settled(x.c)
         /\ phase' = IF x.ok THEN "xv6" ELSE "panic"
         /\ result' = Done("write", x.ok, block, buf)
         /\ want' = [want EXCEPT ![block] = IF x.ok THEN buf ELSE card'.blocks[block]]
    /\ UNCHANGED _sdhc_card

\* Power off and on, with another card of the same contents.
PowerCycle ==
    /\ phase # "off"
    /\ \E k \in Kinds, n \in 1 .. MAX_RETRIES + 1 : card' = [NewCard(k, n) EXCEPT !.blocks = card.blocks]
    /\ _sdhc_card' = FALSE
    /\ phase' = "off"
    /\ result' = NoResult
    /\ want' = card.blocks

Next ==
    \/ sd_init \/ KernelInit \/ PowerCycle
    \/ \E b \in Blocks : BootRead(b) \/ KernelRead(b)
    \/ \E b \in Blocks, d \in Data : BootWrite(b, d) \/ KernelWrite(b, d)

Spec == Init /\ [][Next]_vars

-----------------------------------------------------------------------------
(* Properties.                                                             *)

\* A read that reports success returned the block that was asked for, whatever
\* bytes it holds and however slow the card was, and a write that reports
\* success changed that block and no other.
Faithful ==
    /\ result.op = "read" /\ result.ok => result.buf = want[result.block]
    /\ card.blocks = want

\* After a call that succeeded driver and card agree on where the next frame
\* begins: no byte of an answer is left, no frame or block is half sent.
InStep ==
    result.ok /\ result.op # "none" => card.out = <<>> /\ card.in = <<>> /\ card.mode = "cmd"

\* A card that sd_init() reports ready is ready, and is addressed by bytes or by
\* blocks as its kind wants, although it did not answer some of the commands.
Addressing ==
    /\ phase \in {"boot", "xv6"} => card.left = 0
    /\ phase = "boot" => (_sdhc_card <=> card.kind = "SDHC")

\* The drivers' calls do what they report.
CardExact == Faithful /\ InStep /\ Addressing
=============================================================================
