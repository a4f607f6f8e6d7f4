----------------------------- MODULE MCPrograms -----------------------------
(* Sequential programs, drivers and small machines for TLC: the string,    *)
(* printing and division functions (Lib), malloc (Umalloc), grep (Grep),    *)
(* the bytes of a pipe (Pipe), the boot loader (Boot), the drivers of the   *)
(* SD card (SdCard), the UART's line (UartLink) and console input          *)
(* (Console). One component moves, the others are switched off or stay at   *)
(* their beginning.                                                        *)
EXTENDS Pipe, TLC

CONSTANTS p1, p2

VARIABLES part, in,
    h, live, cores, denied,
    pattern, file, rest, gbuf, out, done,
    mem, fault, step, image, blocks, pos, failed,
    card, _sdhc_card, phase, result, want,
    tx, rx, setup, quiet, sent, got,
    buf, r, w, e, clock, cpc, n, target, ckilled

heap == <<h, live, cores, denied>>
search == <<pattern, file, rest, gbuf, out, done>>
loader == <<mem, fault, step, image, blocks, pos, failed>>
sd == <<card, _sdhc_card, phase, result, want>>
uart == <<tx, rx, setup, quiet, sent, got>>
keys == <<buf, r, w, e, clock, cpc, n, target, ckilled>>

-----------------------------------------------------------------------------
\* Byte strings with holes and bytes that compare differently as signed ones.
Memories == {m \in [0 .. 7 -> {0, 1, 3}] : m[3] # 3 /\ m[6] # 1 /\ m[7] = 0}
Paths == UNION {[1 .. k -> {1, 2, 9}] : k \in 0 .. 4}
Formats == UNION {[1 .. k -> {"%", "l", "d", "p", "s", "z"}] : k \in 0 .. 4}
\* Long numbers of 16 bits around the powers of two; a process of 16 addresses
\* in pages of four with up to two zero bytes; letters, blanks and newlines.
Longs == (0 .. 20) \cup (250 .. 260) \cup {2 ^ k : k \in 4 .. 15}
         \cup {2 ^ k - 1 : k \in 4 .. 15} \cup (65530 .. 65535)
UserBytes == {[va \in 0 .. 15 |-> IF va \in {i, j} THEN 0 ELSE 1] : i \in {2, 7, 16}, j \in 0 .. 16}
Sizes == {0, 1, 6, 8}
Targets == (0 .. 12) \cup {63, 64}
Texts == UNION {[1 .. k -> {1, 7, 8}] : k \in 0 .. 5}
F == INSTANCE Lib WITH DIRSIZ <- 2, W <- 256, Half <- 8, Space <- 16, PGSIZE <- 4, WORD <- 2,
                       MEGA <- 5, KILO <- 3, FRAC <- 4, DivMax <- 31

\* A heap of eight units, of which malloc takes at least four at a time.
U == INSTANCE Umalloc WITH Header <- 2, WRAP <- 64, MinCore <- 4, HeapStart <- 2,
                           HeapEnd <- 10, Requests <- {0, 1, 5}, Moves <- {1}

\* Patterns of up to three characters; files of up to four, and two that fill
\* the buffer more than once.
Patterns == UNION {[1 .. k -> {"a", ".", "*", "^", "$"}] : k \in 0 .. 3}
Files == UNION {[1 .. k -> {"a", "b", "nl"}] : k \in 0 .. 4}
         \cup {<<"a", "a", "nl", "b", "nl", "a", "nl">>, <<"a", "nl", "a", "b", "a", "nl", "b">>}
G == INSTANCE Grep WITH BUFSIZE <- 5, buf <- gbuf

\* 16 words of two bits, half of them tested, in rows of two; blocks of two
\* pairs, runs of at most two.
Images == UNION {[1 .. k -> {{}, {1}, {0, 1}}] : k \in 1 .. 4}
Rests == {<<<<{}, 0>>, <<{}, 0>>>>, <<<<{0}, 2>>, <<{0}, 2>>, <<{1}, 2>>, <<{0}, 2>>>>}
B == INSTANCE Boot WITH Lines <- 4, TestLines <- 3, AddrWords <- 4, Width <- 2, RowWords <- 2,
                        Stride <- 2, Taps <- {0, 1}, Reserved <- 1, MaxRun <- 2,
                        ChunkPairs <- 2, ImageChunks <- 3, phase <- step

\* Blocks of two bytes, whose numbers differ in two bytes of the argument, and
\* contents that look like a start token.
D == INSTANCE SdCard WITH BlockLen <- 2, Blocks <- {255, 256},
                          Data <- {<<254, 0>>, <<9, 254>>}, MAX_RETRIES <- 1, CmdPolls <- 3,
                          TokenPolls <- 2, InitLoops <- 2, MaxDelay <- 3, MaxDeaf <- 1

\* The bytes have edges at every bit, at no bit, and an odd number of leading
\* zeros. Two stop bits ("set 2 for extra margin"), or one and a sender that
\* pauses.
Bytes8 == {[i \in 0 .. 7 |-> 0], [i \in 0 .. 7 |-> 1], [i \in 0 .. 7 |-> i % 2],
           [i \in 0 .. 7 |-> IF i < 3 THEN 0 ELSE 1]}
Setups == {[stop_bits |-> 2, pause |-> 0], [stop_bits |-> 1, pause |-> 4]}
K == INSTANCE UartLink WITH Bytes <- Bytes8, DEPTH <- 2, DIV <- 4, MaxBytes <- 3

\* A ring of three keys whose indices soon overflow.
C == INSTANCE Console WITH Procs <- {p1, p2}, Letters <- {"x"}, INPUT_BUF_SIZE <- 3,
                           WRAP <- 6, MaxN <- 2, lock <- clock, pc <- cpc,
                           killed <- ckilled

Symmetry == Permutations({p1, p2})

\* Left out: what a ring holds outside its counters, and the counts of a read
\* that has returned. They are written before they are read again.
PipeView ==
    <<[i \in DOMAIN data |-> IF \E k \in 0 .. PIPESIZE - 1 :
                                  (nread + k) % PIPESIZE = i /\ k < (nwrite + WRAP - nread) % WRAP
                             THEN data[i] ELSE None],
      nread, nwrite, readopen, writeopen, lock, pc, left, killed>>
KeysView ==
    LET Live(f) == [p \in {p1, p2} |-> IF cpc[p] = "out" THEN 0 ELSE f[p]]
    IN  <<C!Committed, C!Editing, r, clock, cpc, Live(n), Live(target), ckilled>>
View == <<part, in, heap, search, loader, sd, uart, KeysView, PipeView>>

-----------------------------------------------------------------------------
LibOff == in = None
HeapOff == h = None /\ live = None /\ cores = None /\ denied = None
GrepOff ==
    pattern = None /\ file = None /\ rest = None /\ gbuf = None /\ out = None /\ done = None
BootOff ==
    /\ mem = None /\ fault = None /\ step = None /\ image = None /\ blocks = None
    /\ pos = None /\ failed = None
CardOff == card = None /\ _sdhc_card = None /\ phase = None /\ result = None /\ want = None
LinkOff == tx = None /\ rx = None /\ setup = None /\ quiet = None /\ sent = None /\ got = None

ProgramsInit ==
    /\ part \in {"lib", "umalloc", "grep", "pipe", "boot", "card", "link", "console"}
    /\ IF part = "lib" THEN F!Init ELSE LibOff
    /\ IF part = "umalloc" THEN U!Init ELSE HeapOff
    /\ IF part = "grep" THEN G!Init ELSE GrepOff
    /\ IF part = "boot" THEN B!Init ELSE BootOff
    /\ IF part = "card" THEN D!Init ELSE CardOff
    /\ IF part = "link" THEN K!Init ELSE LinkOff
    /\ C!Init /\ Init
    /\ part # "pipe" => data[0] = CHOOSE b \in Bytes : TRUE

ProgramsNext ==
    \/ part = "lib" /\ F!Next /\ UNCHANGED <<part, heap, search, loader, sd, uart, keys, vars>>
    \/ part = "umalloc" /\ U!Next /\ UNCHANGED <<part, in, search, loader, sd, uart, keys, vars>>
    \/ part = "grep" /\ G!Next /\ UNCHANGED <<part, in, heap, loader, sd, uart, keys, vars>>
    \/ part = "boot" /\ B!Next /\ UNCHANGED <<part, in, heap, search, sd, uart, keys, vars>>
    \/ part = "card" /\ D!Next /\ UNCHANGED <<part, in, heap, search, loader, uart, keys, vars>>
    \/ part = "link" /\ K!Clk /\ UNCHANGED <<part, in, heap, search, loader, sd, keys, vars>>
    \/ part = "console" /\ C!Next /\ UNCHANGED <<part, in, heap, search, loader, sd, uart, vars>>
    \/ part = "pipe" /\ Next /\ UNCHANGED <<part, in, heap, search, loader, sd, uart, keys>>

ProgramsSpec ==
    ProgramsInit /\ [][ProgramsNext]_<<part, in, heap, search, loader, sd, uart, keys, vars>>

-----------------------------------------------------------------------------
(* The properties of the modules; FifoPipe is Pipe's own.                   *)

\* Strings, numbers and formats come out as their definitions say (Lib).
Library == part = "lib" => F!LibExact

\* The heap is shared out exactly among the blocks (Umalloc).
HeapExact == part = "umalloc" => U!HeapExact

\* grep writes exactly the lines that match (Grep).
GrepExact == part = "grep" => G!GrepExact

\* What is started is the image, in a memory that passed its test (Boot).
BootExact == part = "boot" => B!BootExact

\* The drivers' calls do what they report (SdCard).
CardExact == part = "card" => D!CardExact

\* Bytes cross the line in order and none is lost (UartLink).
Delivered == part = "link" => K!InOrder /\ K!NoLoss

\* The FIFOs of the UART are queues (UartLink).
IsQueue == [][part = "link" => K!QueueStep]_uart

\* Nobody sleeps beside committed input, and a full ring has something to read
\* (Console).
Readable == C!TypeOK /\ C!SleepJustified /\ C!FullIsReadable

\* The console's ring is a line editor (Console).
EditsLines == C!EditsLines

\* The read that takes ^D returns 0 bytes (Console).
EofAlone == C!EofAlone
=============================================================================
