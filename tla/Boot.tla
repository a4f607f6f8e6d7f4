-------------------------------- MODULE Boot --------------------------------
(***************************************************************************)
(* The bootloader of LinuxSoC_v2 (bootloader/bootloader.c) and the encoder *)
(* of its images (rle_encoder.c): test the memory, clear it, read the      *)
(* run-length encoded image from the card, decode it, start it.            *)
(*                                                                         *)
(* A word of memory is the set of its bits that are 1. The memory may have *)
(* one fault, chosen at the start: a stuck bit, an address line that does  *)
(* not reach the chip, a cell that is disturbed by writes to another one.  *)
(* Tests and loader use memory only through Read and Write. The image is   *)
(* one word per byte.                                                      *)
(***************************************************************************)
EXTENDS Integers, FiniteSets, Sequences, SequencesExt, TLC

CONSTANTS
    Lines,        \* address lines: the memory has 2^Lines words
    TestLines,    \* lines within TEST_LIMIT_MB: the tests cover 2^TestLines words
    AddrWords,    \* words of the address bus test (128 KiB)
    Width,        \* bits in a word (32)
    RowWords,     \* SDRAM_ROW_SIZE_BYTES in words
    Stride,       \* stride of the PRBS test
    Taps,         \* bits that lfsr32_step() combines
    Reserved,     \* words at the top that are not cleared (1 MiB)
    MaxRun,       \* longest run the encoder writes (255)
    ChunkPairs,   \* pairs in a block of the card (256)
    ImageChunks,  \* blocks the loader reads at most (20 MiB)
    Images,       \* images to boot: sequences of words
    Rests         \* what the card holds behind an image: sequences of pairs

Bits == 0 .. Width - 1
SDRAM_SIZE == 2 ^ Lines
Words == 0 .. SDRAM_SIZE - 1
limit == 2 ^ TestLines
From(a, n) == [i \in 1 .. n |-> a + i - 1]
Up == From(0, limit)
Down == Reverse(Up)

VARIABLES
    mem,      \* cells of the memory
    fault,    \* the fault it has
    phase,    \* the next test, or what main() does next
    image,    \* what was encoded
    blocks,   \* the card: sequence of blocks of pairs
    pos,      \* sdram_offset and block_index
    failed    \* a block could not be read

vars == <<mem, fault, phase, image, blocks, pos, failed>>

-----------------------------------------------------------------------------
(* The memory.                                                             *)

NoFault == [kind |-> "none"]
Faults ==
    LET Tested == 0 .. limit - 1 IN
    [kind : {"stuck"}, at : Tested, bit : Bits, value : BOOLEAN]
      \cup [kind : {"line"}, line : 0 .. TestLines - 1]
      \cup {f \in [kind : {"coupled"}, from : Tested, to : Tested, bit : Bits] : f.from # f.to}

Cell(a) ==
    IF fault.kind = "line" /\ (a \div 2 ^ fault.line) % 2 = 1 THEN a - 2 ^ fault.line ELSE a

Read(m, a) ==
    LET v == m[Cell(a)] IN
    IF fault.kind = "stuck" /\ fault.at = a
    THEN IF fault.value THEN v \cup {fault.bit} ELSE v \ {fault.bit}
    ELSE v

\* A coupled cell loses its bit when the bit rises in the other cell.
Write(m, a, v) ==
    LET n == [m EXCEPT ![Cell(a)] = v] IN
    IF fault.kind = "coupled" /\ fault.from = a /\ fault.bit \in v \ m[a]
    THEN [n EXCEPT ![fault.to] = @ \ {fault.bit}]
    ELSE n

-----------------------------------------------------------------------------
(* The memory tests: each takes the memory and gives the memory, and       *)
(* whether it passed.                                                      *)

Ones == Bits
PatA == {b \in Bits : b % 2 = 1}
Pat5 == {b \in Bits : b % 2 = 0}
Same(v) == [a \in Words |-> v]

Pass(m) == [m |-> m, ok |-> TRUE]
Fail(m) == [m |-> m, ok |-> FALSE]

\* for p in order: *p = F[p]
RECURSIVE Fill(_, _, _)
Fill(m, order, F) ==
    IF order = <<>> THEN m
    ELSE Fill(Write(m, Head(order), F[Head(order)]), Tail(order), F)

Verify(m, order, F) == [m |-> m, ok |-> \A i \in DOMAIN order : Read(m, order[i]) = F[order[i]]]

mem_fill_verify_u32(m, F) == Verify(Fill(m, Up, F), Up, F)

\* Checkerboard A and B of sdram_memtest().
Checker(m, even, odd) ==
    mem_fill_verify_u32(m, [a \in Words |-> IF a % 2 = 1 THEN odd ELSE even])

\* Two rows in turn; only the last values are looked at.
mem_row_pingpong(m) ==
    LET F == 0 :> Pat5 @@ RowWords :> PatA
        G == 0 :> PatA @@ RowWords :> Ones
        order == <<0, RowWords>>
    IN IF RowWords >= limit THEN Pass(m)
       ELSE Verify(Fill(Fill(m, order, F), order, G), order, G)

\* Each pattern written to the first word must come back.
RECURSIVE Patterns(_, _)
Patterns(m, ps) ==
    IF ps = <<>> THEN Pass(m)
    ELSE LET n == Write(m, 0, Head(ps)) IN
         IF Read(n, 0) # Head(ps) THEN Fail(n) ELSE Patterns(n, Tail(ps))

data_bus_test32(m) ==
    Patterns(m, [i \in 1 .. Width |-> {i - 1}] \o [i \in 1 .. Width |-> Bits \ {i - 1}])

RECURSIVE Alias(_, _)
Alias(m, off) ==
    IF off >= AddrWords THEN Pass(m)
    ELSE LET n == Write(m, off, Pat5) IN
         IF Read(n, 0) # PatA \/ Read(n, off) # Pat5 THEN Fail(n)
         ELSE Alias(Write(n, off, PatA), 2 * off)

addr_bus_test32(m) ==
    LET order == From(0, AddrWords)
        r == Alias(Fill(m, order, Same(PatA)), 1)
    IN IF r.ok THEN Verify(r.m, order, Same(PatA)) ELSE r

\* An element of a march: every word must hold `expect` and then gets `v`.
RECURSIVE March(_, _, _, _)
March(m, order, expect, v) ==
    CASE order = <<>> -> Pass(m)
      [] order # <<>> /\ Read(m, Head(order)) # expect -> Fail(m)
      [] OTHER -> March(Write(m, Head(order), v), Tail(order), expect, v)

\* Mutant: all elements go upwards and the last value is not read.
march_c_minus_up(m) ==
    LET m1 == March(Fill(m, Up, Same({})), Up, {}, Ones)
        m2 == March(m1.m, Up, Ones, {})
        m3 == March(m2.m, Up, {}, Ones)
        m4 == March(m3.m, Up, Ones, {})
        m5 == Pass(m4.m)
    IN [m |-> m5.m, ok |-> m1.ok /\ m2.ok /\ m3.ok /\ m4.ok /\ m5.ok]

march_c_minus(m) ==
    LET m1 == March(Fill(m, Up, Same({})), Up, {}, Ones)
        m2 == March(m1.m, Up, Ones, {})
        m3 == March(m2.m, Down, {}, Ones)
        m4 == March(m3.m, Down, Ones, {})
        m5 == Verify(m4.m, Down, Same({}))
    IN [m |-> m5.m, ok |-> m1.ok /\ m2.ok /\ m3.ok /\ m4.ok /\ m5.ok]

lfsr32_step(s) ==
    {b - 1 : b \in s \ {0}} \cup IF Cardinality(s \cap Taps) % 2 = 1 THEN {Width - 1} ELSE {}

\* The state of the generator after k steps from the seed.
RECURSIVE Prbs(_, _)
Prbs(seed, k) == IF k = 0 THEN seed ELSE lfsr32_step(Prbs(seed, k - 1))

prbs_stream(m, seed) ==
    LET order == SelectSeq(Up, LAMBDA a : a % Stride = 0)
        F == [a \in Words |-> Prbs(seed, a \div Stride)]
    IN Verify(Fill(m, order, F), order, F)

row_hammer_small(m) ==
    LET F == RowWords :> PatA
        agg(v, w) == 0 :> v @@ 2 * RowWords :> w
        order == <<0, 2 * RowWords>>
        n == Fill(Fill(Fill(m, <<RowWords>>, F), order, agg({}, Ones)), order, agg(Ones, {}))
    IN Verify(n, <<RowWords>>, F)

\* The order of sdram_memtest().
Tests == <<"zero", "ones", "checkA", "checkB", "pingpong", "data", "addr", "march", "prbs",
           "hammer">>
Test(t, m) ==
    CASE t = "zero" -> mem_fill_verify_u32(m, Same({}))
      [] t = "ones" -> mem_fill_verify_u32(m, Same(Ones))
      [] t = "checkA" -> Checker(m, PatA, Pat5)
      [] t = "checkB" -> Checker(m, Pat5, PatA)
      [] t = "pingpong" -> mem_row_pingpong(m)
      [] t = "data" -> data_bus_test32(m)
      [] t = "addr" -> addr_bus_test32(m)
      [] t = "march" -> march_c_minus(m)
      [] t = "prbs" -> prbs_stream(m, {0})
      [] t = "hammer" -> row_hammer_small(m)

-----------------------------------------------------------------------------
(* The image on the card.                                                  *)

\* fputc() writes the count as a byte.
Pair(value, count) == <<value, count % (MaxRun + 1)>>

\* The pairs for the rest of the file, when the last byte was read `count` times.
RECURSIVE Encode(_, _, _)
Encode(rest, lastValue, count) ==
    IF rest = <<>> THEN <<Pair(lastValue, count)>>
    ELSE IF Head(rest) = lastValue /\ count < MaxRun
         THEN Encode(Tail(rest), lastValue, count + 1)
         ELSE <<Pair(lastValue, count)>> \o Encode(Tail(rest), Head(rest), 1)

rle_encode(file) == IF file = <<>> THEN <<>> ELSE Encode(Tail(file), Head(file), 1)

\* The image is written in whole blocks, the last one filled with zeros, over
\* whatever the card held.
Card(pairs, rest) ==
    LET n == (Len(pairs) + ChunkPairs - 1) \div ChunkPairs
        full == pairs \o [i \in 1 .. n * ChunkPairs - Len(pairs) |-> <<{}, 0>>] \o rest
    IN [b \in 1 .. Len(full) \div ChunkPairs |->
          SubSeq(full, (b - 1) * ChunkPairs + 1, b * ChunkPairs)]

\* Decode the pairs of a block to memory from `at` on. `end`: the image ends here.
RECURSIVE Decode(_, _, _)
Decode(m, at, pairs) ==
    IF pairs = <<>> THEN [m |-> m, at |-> at, end |-> FALSE]
    ELSE LET value == Head(pairs)[1]
             count == Head(pairs)[2]
             room == IF at + count > SDRAM_SIZE THEN SDRAM_SIZE - at ELSE count
             n == Fill(m, From(at, room), Same(value))
         IN IF count = 0 \/ room < count THEN [m |-> n, at |-> at + room, end |-> TRUE]
            ELSE Decode(n, at + count, Tail(pairs))

-----------------------------------------------------------------------------
(* main()                                                                  *)

Init ==
    /\ mem = Same(PatA)
    /\ fault \in Faults \cup {NoFault}
    /\ phase = "init"
    /\ image = <<>>
    /\ blocks = <<>>
    /\ pos = [sdram_offset |-> 0, block_index |-> 0]
    /\ failed = FALSE

\* The controller reports that it is initialised, or main() stops here.
sdram_init_default ==
    /\ phase = "init"
    /\ phase' \in {Head(Tests), "timeout"}
    /\ UNCHANGED <<mem, fault, image, blocks, pos, failed>>

sdram_memtest ==
    /\ phase \in ToSet(Tests)
    /\ LET r == Test(phase, mem)
           i == SelectInSeq(Tests, LAMBDA t : t = phase)
       IN /\ mem' = r.m
          /\ phase' = IF ~r.ok THEN "halt" ELSE IF i < Len(Tests) THEN Tests[i + 1] ELSE "clear"
    /\ UNCHANGED <<fault, image, blocks, pos, failed>>

clear_sdram ==
    /\ phase = "clear"
    /\ mem' = Fill(mem, From(0, SDRAM_SIZE - Reserved), Same({}))
    /\ phase' = "card"
    /\ UNCHANGED <<fault, image, blocks, pos, failed>>

\* A card with an image is inserted; sd_init() is repeated until it succeeds.
sd_init ==
    /\ phase = "card"
    /\ image' \in Images
    /\ \E rest \in Rests : blocks' = Card(rle_encode(image'), rest)
    /\ phase' = "load"
    /\ UNCHANGED <<mem, fault, pos, failed>>

load ==
    /\ phase = "load"
    /\ pos.block_index < ImageChunks
    /\ pos.block_index < Len(blocks)
    /\ LET r == Decode(mem, pos.sdram_offset, blocks[pos.block_index + 1]) IN
       /\ mem' = r.m
       /\ pos' = [sdram_offset |-> r.at, block_index |-> pos.block_index + 1]
       /\ phase' = IF r.end THEN "entry" ELSE "load"
    /\ UNCHANGED <<fault, image, blocks, failed>>

\* An error of sd_readsector(): what was decoded is started nevertheless.
load_error ==
    /\ phase = "load"
    /\ pos.block_index < ImageChunks
    /\ phase' = "entry"
    /\ failed' = TRUE
    /\ UNCHANGED <<mem, fault, image, blocks, pos>>

load_ends ==
    /\ phase = "load"
    /\ pos.block_index = ImageChunks
    /\ phase' = "entry"
    /\ UNCHANGED <<mem, fault, image, blocks, pos, failed>>

Next == sdram_init_default \/ sdram_memtest \/ clear_sdram \/ sd_init \/ load \/ load_error \/ load_ends

Spec == Init /\ [][Next]_vars

-----------------------------------------------------------------------------
(* Properties.                                                             *)

\* The memory test passes a good memory and stops the boot on a stuck bit, a
\* dead address line or a cell disturbed by another one, wherever it is in the tested part.
FaultStops ==
    /\ phase \in {"clear", "card", "load", "entry"} => fault = NoFault
    /\ phase = "halt" => fault # NoFault

\* When the image is started and no read failed, it lies decoded at the start
\* of the memory, also when runs were split, a run crosses a block, or old
\* pairs follow on the card because the image ended with a block.
ImageLoaded ==
    phase = "entry" /\ ~failed => \A i \in DOMAIN image : Read(mem, i - 1) = image[i]

\* The memory behind the image, or behind the part of it that a read error
\* left, is cleared, unless the image ended exactly with a block of the card.
RestCleared ==
    phase = "entry" /\ Len(rle_encode(image)) % ChunkPairs # 0 =>
        \A a \in 0 .. SDRAM_SIZE - Reserved - 1 :
            Read(mem, a) = IF a < pos.sdram_offset /\ a < Len(image) THEN image[a + 1] ELSE {}

\* What is started is the image, in a memory that passed its test.
BootExact == FaultStops /\ ImageLoaded /\ RestCleared
=============================================================================
