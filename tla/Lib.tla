-------------------------------- MODULE Lib ---------------------------------
(***************************************************************************)
(* The small algorithms everything else leans on: the memory and string    *)
(* routines of the kernel (kernel/string.c), the user library              *)
(* (user/ulib.c) and the boot loader (custom_stdlib.c), the path and name  *)
(* handling of fs.c built on them, the three printf, the strings a system  *)
(* call fetches (syscall.c, vm.c), user programs that read in pieces, and  *)
(* the boot loader's 64-bit division and clock arithmetic                  *)
(* (kianv_io_utils.c, bootloader.c).  Each is a function of its inputs;    *)
(* the one step of this module picks an input.                             *)
(*                                                                         *)
(* A memory is a function from addresses to bytes, byte 0 ends a string.   *)
(* A byte has two bits in the word-at-a-time routines, an integer W values.*)
(***************************************************************************)
EXTENDS Integers, FiniteSets, Sequences, SequencesExt

CONSTANTS Memories,   \* the memories strings are copied and compared in
          DIRSIZ, Paths,
          W,          \* 2^32: the number of machine words
          Half,       \* bits of a word in the division (32)
          Longs,      \* the numbers divided
          Formats,    \* the format strings
          Texts,      \* what is typed or read from a file
          UserBytes,  \* the memory of a process
          Sizes,      \* and its sizes, below the two pages of the trap frame
          Targets,    \* frequencies and times
          Space,      \* 2^32: the number of addresses of a process
          PGSIZE, WORD,             \* bytes of a page and of a word (4096, 4)
          MEGA, KILO, FRAC, DivMax  \* 10^6, 10^3, 256, 2^16 - 1

VARIABLE in

NUL == 0

-----------------------------------------------------------------------------
(* Copying upwards and downwards, one byte at a time. *)
RECURSIVE Forward(_, _, _, _), Backward(_, _, _, _)
Forward(m, d, s, n) ==
    IF n = 0 THEN m ELSE Forward([m EXCEPT ![d] = m[s]], d + 1, s + 1, n - 1)
Backward(m, d, s, n) ==
    IF n = 0 THEN m
    ELSE Backward([m EXCEPT ![d + n - 1] = m[s + n - 1]], d, s, n - 1)

\* Mutant: overlapping areas are copied upwards.
memmove_forward(m, dst, src, n) ==
    Forward(m, dst, src, n)

memmove(m, dst, src, n) ==
    IF src < dst /\ src + n > dst THEN Backward(m, dst, src, n)
    ELSE Forward(m, dst, src, n)

ulib_memmove(m, dst, src, n) ==
    IF src > dst THEN Forward(m, dst, src, n) ELSE Backward(m, dst, src, n)

memset(m, dst, c, n) == [x \in DOMAIN m |-> IF x \in dst .. dst + n - 1 THEN c ELSE m[x]]

RECURSIVE Fill(_, _, _)
Fill(m, s, n) == IF n <= 0 THEN m ELSE Fill([m EXCEPT ![s] = NUL], s + 1, n - 1)

RECURSIVE memcmp(_, _, _, _)
memcmp(m, p, q, n) ==
    IF n = 0 THEN 0 ELSE IF m[p] # m[q] THEN m[p] - m[q] ELSE memcmp(m, p + 1, q + 1, n - 1)

RECURSIVE strcpy(_, _, _)
strcpy(m, s, t) ==
    LET m1 == [m EXCEPT ![s] = m[t]]
    IN  IF m1[s] = NUL THEN m1 ELSE strcpy(m1, s + 1, t + 1)

RECURSIVE strncpy(_, _, _, _)
strncpy(m, s, t, n) ==
    IF n <= 0 THEN m
    ELSE IF m[t] = NUL THEN Fill(m, s, n)
    ELSE strncpy([m EXCEPT ![s] = m[t]], s + 1, t + 1, n - 1)

RECURSIVE safestrcpy(_, _, _, _)
safestrcpy(m, s, t, n) ==
    IF n <= 0 THEN m
    ELSE IF n = 1 \/ m[t] = NUL THEN [m EXCEPT ![s] = NUL]
    ELSE safestrcpy([m EXCEPT ![s] = m[t]], s + 1, t + 1, n - 1)

RECURSIVE strncmp(_, _, _, _)
strncmp(m, p, q, n) ==
    IF n = 0 THEN 0
    ELSE IF m[p] # NUL /\ m[p] = m[q] THEN strncmp(m, p + 1, q + 1, n - 1)
    ELSE m[p] - m[q]

RECURSIVE strcmp(_, _, _)
strcmp(m, p, q) ==
    IF m[p] # NUL /\ m[p] = m[q] THEN strcmp(m, p + 1, q + 1) ELSE m[p] - m[q]

RECURSIVE strlen(_, _)
strlen(m, s) == IF m[s] = NUL THEN 0 ELSE 1 + strlen(m, s + 1)

(* The address of the first c, or 0. *)
RECURSIVE strchr(_, _, _)
strchr(m, s, c) ==
    IF m[s] = NUL THEN 0 ELSE IF m[s] = c THEN s ELSE strchr(m, s + 1, c)

-----------------------------------------------------------------------------
(* The boot loader copies and compares a word of four bytes at a time once *)
(* both addresses are aligned, and tells by subtraction whether one of the *)
(* bytes is zero.  (v - 0x01010101) & ~v & 0x80808080, with borrows.       *)
Aligned(p, q) == p % 4 = 0 /\ q % 4 = 0
Word(m, p) == m[p] + 4 * m[p + 1] + 16 * m[p + 2] + 64 * m[p + 3]
TopBit(v, i) == ((v \div 4 ^ i) % 4) \div 2
HasZero(v) ==
    \E i \in 0 .. 3 : TopBit((v - 85) % 256, i) = 1 /\ TopBit(v, i) = 0

(* The first of the bytes at p that ends the copy: a zero, or the fourth.  *)
LastByte(m, p) ==
    CHOOSE k \in 0 .. 3 : /\ m[p + k] = NUL \/ k = 3
                          /\ \A j \in 0 .. k - 1 : m[p + j] # NUL

RECURSIVE boot_strcpy(_, _, _)
boot_strcpy(m, dst, src) ==
    IF ~Aligned(dst, src)
    THEN LET m1 == [m EXCEPT ![dst] = m[src]]
         IN  IF m[src] = NUL THEN m1 ELSE boot_strcpy(m1, dst + 1, src + 1)
    ELSE IF HasZero(Word(m, src))
         THEN Forward(m, dst, src, LastByte(m, src) + 1)
         ELSE boot_strcpy(Forward(m, dst, src, 4), dst + 4, src + 4)

Order(c1, c2) == IF c1 < c2 THEN -1 ELSE 1

RECURSIVE boot_strcmp(_, _, _)
boot_strcmp(m, s1, s2) ==
    IF ~Aligned(s1, s2)
    THEN IF m[s1] # m[s2] THEN Order(m[s1], m[s2])
         ELSE IF m[s1] = NUL THEN 0 ELSE boot_strcmp(m, s1 + 1, s2 + 1)
    ELSE IF Word(m, s1) # Word(m, s2)
    THEN LET k == CHOOSE k \in 0 .. 3 :
                     /\ m[s1 + k] # m[s2 + k] \/ m[s1 + k] = NUL
                     /\ \A j \in 0 .. k - 1 : m[s1 + j] = m[s2 + j] /\ m[s1 + j] # NUL
         IN  IF m[s1 + k] = m[s2 + k] THEN 0 ELSE Order(m[s1 + k], m[s2 + k])
    ELSE IF HasZero(Word(m, s1)) THEN 0 ELSE boot_strcmp(m, s1 + 4, s2 + 4)

-----------------------------------------------------------------------------
(* The elements of a path (fs.c).  The name is a buffer of DIRSIZ bytes    *)
(* that namex uses for one element after the other and that has no end     *)
(* mark when the element fills it.                                         *)
SLASH == 9

RECURSIVE NoSlash(_)
NoSlash(path) ==
    IF path # <<>> /\ Head(path) = SLASH THEN NoSlash(Tail(path)) ELSE path

ElementLen(path) ==
    CHOOSE n \in 0 .. Len(path) :
        /\ n = Len(path) \/ path[n + 1] = SLASH
        /\ \A i \in 1 .. n : path[i] # SLASH

skipelem(path, name) ==
    LET s   == NoSlash(path)
        len == ElementLen(s)
    IN  [path |-> NoSlash(SubSeq(s, len + 1, Len(s))),
         name |-> [i \in 0 .. DIRSIZ - 1 |->
                     CASE i < len -> s[i + 1]
                       [] i = len -> NUL
                       [] OTHER -> name[i]]]

RECURSIVE Names(_, _)
Names(path, name) ==
    IF NoSlash(path) = <<>> THEN <<>>
    ELSE LET r == skipelem(path, name) IN <<r.name>> \o Names(r.path, r.name)

(* dirlink copies a name into an entry, dirlookup compares a name with it. *)
dirlink(de, name) ==
    strncpy([a \in 0 .. 2 * DIRSIZ - 1 |-> IF a < DIRSIZ THEN name[a] ELSE de],
            DIRSIZ, 0, DIRSIZ)
namecmp(m, name) ==
    strncmp([a \in 0 .. 2 * DIRSIZ - 1 |-> IF a < DIRSIZ THEN name[a] ELSE m[a]],
            0, DIRSIZ, DIRSIZ)

-----------------------------------------------------------------------------
(* Numbers in print.  A text is a sequence of digits; MINUS is the sign,   *)
(* BLANK the zero byte that printf_x sends for a digit it has not got.     *)
MINUS == -1
BLANK == -2
Signed(x) == IF x >= W \div 2 THEN x - W ELSE x

RECURSIVE Digits(_, _)
Digits(x, base) ==
    IF x < base THEN <<x>> ELSE Append(Digits(x \div base, base), x % base)

printint(x, base, sign) ==
    IF sign /\ Signed(x) < 0 THEN <<MINUS>> \o Digits((- Signed(x)) % W, base)
    ELSE Digits(x, base)

ulib_printint(xx, base, sgn) ==
    IF sgn /\ xx < 0 THEN <<MINUS>> \o Digits((-xx) % W, base)
    ELSE Digits(xx % W, base)

printptr(x) == <<x \div (W \div 16), x % (W \div 16)>>

Padding(digits, width) ==
    IF width > Len(digits) THEN width - Len(digits) ELSE 0
Times(c, n) == [i \in 1 .. n |-> c]

printf_d(x, width) ==
    LET v == Signed(x)
        d == Digits(IF v < 0 THEN -v ELSE v, 10)
    IN  (IF v < 0 THEN <<MINUS>> ELSE <<>>) \o Times(0, Padding(d, width)) \o d

printf_u(x) == Digits(IF Signed(x) < 0 THEN - Signed(x) ELSE x, 10)

printf_x(x, width) ==
    LET d == Digits(x, 16)
    IN  Times(0, Padding(d, width)) \o Times(BLANK, Padding(d, width)) \o d

-----------------------------------------------------------------------------
(* The format: what is printed is a sequence of characters and of          *)
(* conversions, each of which takes the next argument.                     *)
Char(c) == <<"char", c>>
Convert(c) == <<"convert", c>>
At(f, i) == IF i <= Len(f) THEN f[i] ELSE "end"

Conversion(f) ==
    LET long == At(f, 1) = "l"
        twice == long /\ At(f, 2) = "l"
        c == IF twice THEN At(f, 3) ELSE IF long THEN At(f, 2) ELSE At(f, 1)
        plain == {"d", "u", "x"} \cup (IF long THEN {} ELSE {"p", "c", "s"})
    IN  CASE c \in plain ->
               [out |-> <<Convert(c)>>, skip |-> IF twice THEN 3 ELSE IF long THEN 2 ELSE 1]
          [] At(f, 1) = "%" -> [out |-> <<Char("%")>>, skip |-> 1]
          [] OTHER -> [out |-> <<Char("%"), Char(At(f, 1))>>, skip |-> 1]

RECURSIVE kprintf(_)
kprintf(f) ==
    IF f = <<>> THEN <<>>
    ELSE IF f[1] # "%" THEN <<Char(f[1])>> \o kprintf(Tail(f))
    ELSE IF Len(f) = 1 THEN <<>>
    ELSE LET r == Conversion(Tail(f))
         IN  r.out \o kprintf(SubSeq(f, 2 + r.skip, Len(f)))

RECURSIVE vprintf(_, _)
vprintf(f, state) ==
    IF f = <<>> THEN <<>>
    ELSE IF state = "text"
    THEN IF f[1] = "%" THEN vprintf(Tail(f), "%")
         ELSE <<Char(f[1])>> \o vprintf(Tail(f), "text")
    ELSE LET r == Conversion(f)
         IN  r.out \o vprintf(SubSeq(f, 1 + r.skip, Len(f)), "text")

(* The boot loader's printf skips what it does not know, a width included, *)
(* and runs past the end when no conversion follows a "%".                 *)
RECURSIVE boot_printf(_, _)
boot_printf(f, state) ==
    IF f = <<>> THEN IF state = "text" THEN <<>> ELSE <<Char("past the end")>>
    ELSE IF state = "text"
    THEN IF f[1] = "%" THEN boot_printf(Tail(f), "%")
         ELSE <<Char(f[1])>> \o boot_printf(Tail(f), "text")
    ELSE IF f[1] \in {"c", "s", "d", "u", "x"}
         THEN <<Convert(f[1])>> \o boot_printf(Tail(f), "text")
         ELSE boot_printf(Tail(f), "%")

-----------------------------------------------------------------------------
(* Division of 64-bit numbers, by shifting and subtracting.                *)
Long == 4 ^ Half
clz32(x) ==
    IF x = 0 THEN Half
    ELSE CHOOSE n \in 0 .. Half - 1 : 2 ^ (Half - n - 1) <= x /\ x < 2 ^ (Half - n)

RECURSIVE Quotient(_, _, _, _)
Quotient(num, den, quot, steps) ==
    IF steps = 0 THEN quot
    ELSE IF num >= den THEN Quotient(num - den, den \div 2, 2 * quot + 1, steps - 1)
    ELSE Quotient(num, den \div 2, 2 * quot, steps - 1)

udivdi3(num, den) ==
    LET high  == den \div 2 ^ Half
        shift == clz32(IF high # 0 THEN high ELSE den)
    IN  CASE den = 0 -> Long - 1
          [] den # 0 /\ den > num -> 0
          [] den # 0 /\ den = num -> 1
          [] OTHER -> Quotient(num, (den * 2 ^ shift) % Long, 0, shift + 1)

umoddi3(num, den) ==
    IF den = 0 THEN num ELSE (num - udivdi3(num, den) * den) % Long

(* The clock register holds the frequency in MHz, 8 bits behind the point. *)
Hz(q) == (q * MEGA + FRAC \div 2) \div FRAC
read_cpu_frequency(reg) ==
    Hz(IF reg % (DivMax + 1) = 0 THEN 20 * FRAC ELSE reg % (DivMax + 1))

set_cpu_frequency(freq_hz) ==
    LET hz == IF freq_hz = 0 THEN 20 * MEGA ELSE freq_hz
        q  == udivdi3((hz * FRAC + MEGA \div 2) % Long, MEGA)
        q1 == IF q > DivMax THEN DivMax ELSE q
    IN  [reg |-> q1, hz |-> Hz(q1)]

clamp16(v) == IF v < 1 THEN 1 ELSE IF v > DivMax THEN DivMax ELSE v
div_from_hz16(fclk, target) ==
    IF target = 0 THEN 1 ELSE clamp16((fclk + target \div 2) \div target)

(* What soc_program_dividers() writes to the two registers, high and low. *)
soc_program_dividers(fclk, uart, spi0, spi1, tick) ==
    [div0 |-> <<div_from_hz16(fclk, spi0), div_from_hz16(fclk, uart)>>,
     div1 |-> <<div_from_hz16(fclk, spi1), clamp16(tick)>>]

ns_to_cycles(ns, f_hz) ==
    LET cyc == udivdi3(ns * (f_hz \div MEGA) + KILO - 1, KILO)
    IN  IF cyc = 0 THEN 1 ELSE cyc

-----------------------------------------------------------------------------
(* What a system call fetches from the memory of its process: `u` has the  *)
(* bytes, the mapped pages and the size.  A page below the size that is    *)
(* not mapped yet reads as zeros once copyin() has mapped it; copyinstr()  *)
(* does not map it.                                                        *)
PGROUNDDOWN(va) == va - (va % PGSIZE)
Pages == {PGROUNDDOWN(va) : va \in 0 .. Space - 1}
UserByte(u, va) == IF PGROUNDDOWN(va) \in u.mapped THEN u.byte[va] ELSE NUL

RECURSIVE copyinstr(_, _, _, _)
copyinstr(u, dst, srcva, max) ==
    LET va0   == PGROUNDDOWN(srcva)
        page  == PGSIZE - (srcva - va0)
        n     == IF page > max THEN max ELSE page
        nulls == {i \in 0 .. n - 1 : u.byte[srcva + i] = NUL}
        first == CHOOSE i \in nulls : \A j \in nulls : i <= j
        bytes(k) == [i \in 1 .. k |-> u.byte[srcva + i - 1]]
    IN  CASE max = 0 \/ va0 \notin u.mapped -> [r |-> -1, dst |-> dst]
          [] max # 0 /\ va0 \in u.mapped /\ nulls # {} ->
                [r |-> 0, dst |-> dst \o bytes(first) \o <<NUL>>]
          [] OTHER -> copyinstr(u, dst \o bytes(n), (va0 + PGSIZE) % Space, max - n)

fetchaddr(u, addr) ==
    IF addr >= u.sz \/ (addr + WORD) % Space > u.sz THEN [r |-> -1]
    ELSE [r |-> 0, ip |-> [i \in 0 .. WORD - 1 |-> UserByte(u, addr + i)]]

fetchstr(u, addr, max) ==
    LET c == copyinstr(u, <<>>, addr, max)
    IN  IF c.r < 0 THEN [r |-> -1, buf |-> c.dst] ELSE [r |-> Len(c.dst) - 1, buf |-> c.dst]

(* The argument registers a0 to a5 are frame[1] to frame[6]. *)
argraw(frame, n) == frame[n]
argstr(u, frame, n, max) == fetchstr(u, argraw(frame, n), max)

(* sys_pipe(): two descriptors in the table `ofile`, or neither; `bad` is  *)
(* the number of the copy to user memory that fails, `open` the ends of    *)
(* the pipe that are still open afterwards.                                *)
NoFile == "none"
fdalloc(ofile, file) ==
    LET free == {fd \in DOMAIN ofile : ofile[fd] = NoFile}
        fd   == CHOOSE fd \in free : \A g \in free : fd <= g
    IN  IF free = {} THEN [fd |-> -1, ofile |-> ofile]
        ELSE [fd |-> fd, ofile |-> [ofile EXCEPT ![fd] = file]]

sys_pipe(ofile, bad) ==
    LET f0 == fdalloc(ofile, "rf")
        f1 == fdalloc(f0.ofile, "wf")
        undone(table, fds) == [fd \in DOMAIN table |-> IF fd \in fds THEN NoFile ELSE table[fd]]
    IN  CASE f0.fd < 0 -> [r |-> -1, ofile |-> ofile, open |-> {}]
          [] f0.fd >= 0 /\ f1.fd < 0 -> [r |-> -1, ofile |-> undone(f0.ofile, {f0.fd}), open |-> {}]
          [] f0.fd >= 0 /\ f1.fd >= 0 /\ bad \in {1, 2} ->
                [r |-> -1, ofile |-> undone(f1.ofile, {f0.fd, f1.fd}), open |-> {}]
          [] OTHER -> [r |-> 0, ofile |-> f1.ofile, open |-> {"rf", "wf"}]

-----------------------------------------------------------------------------
(* Programs that read their input a piece at a time: gets() up to the end  *)
(* of a line, wc() whatever read() returns; `s` is what wc() has counted.  *)
NEWLINE == 8

RECURSIVE gets(_, _, _)
gets(buf, input, max) ==
    CASE Len(buf) + 1 >= max \/ input = <<>> -> [buf |-> buf, rest |-> input]
      [] Len(buf) + 1 < max /\ input # <<>> /\ Head(input) = NEWLINE ->
            [buf |-> Append(buf, NEWLINE), rest |-> Tail(input)]
      [] OTHER -> gets(Append(buf, Head(input)), Tail(input), max)

BLANKS == {NEWLINE, 7}
Blank(c) == c \in BLANKS
wc_byte(s, c) ==
    [c |-> s.c + 1,
     l |-> IF c = NEWLINE THEN s.l + 1 ELSE s.l,
     w |-> IF ~Blank(c) /\ ~s.inword THEN s.w + 1 ELSE s.w,
     inword |-> ~Blank(c)]

RECURSIVE wc(_, _)
wc(s, reads) == IF reads = <<>> THEN s ELSE wc(FoldLeft(wc_byte, s, Head(reads)), Tail(reads))

(* consolewrite() takes its bytes ConsoleBuf at a time; `bad` is the       *)
(* number of the copy that fails.                                          *)
ConsoleBuf == 2
RECURSIVE consolewrite(_, _, _)
consolewrite(src, i, bad) ==
    LET left == Len(src) - i
        nn   == IF left < ConsoleBuf THEN left ELSE ConsoleBuf
        more == consolewrite(src, i + nn, bad - 1)
    IN  IF i >= Len(src) \/ bad = 1 THEN [r |-> i, sent |-> <<>>]
        ELSE [r |-> more.r, sent |-> SubSeq(src, i + 1, i + nn) \o more.sent]

RECURSIVE atoi(_, _)
atoi(n, s) ==
    IF s = <<>> \/ Head(s) \notin 0 .. 9 THEN n ELSE atoi((n * 10 + Head(s)) % W, Tail(s))

-----------------------------------------------------------------------------
Inputs ==
    [f : {"memory"}, m : Memories] \cup [f : {"paths"}, p : Paths, q : Paths]
    \cup [f : {"number"}, x : 0 .. W - 1] \cup [f : {"format"}, fmt : Formats]
    \cup [f : {"divide"}, num : Longs, den : Longs]
    \cup [f : {"clock"}, hz : 0 .. 2 ^ Half - 1, target : Targets]
    \cup [f : {"user"}, byte : UserBytes, sz : Sizes, mapped : SUBSET Pages]
    \cup [f : {"text"}, t : Texts]
    \cup [f : {"pipe"}, ofile : [0 .. 3 -> {NoFile, "file"}], bad : 0 .. 2]

Init == in = [f |-> "none"]

Next == in.f = "none" /\ in' \in Inputs

Spec == Init /\ [][Next]_in

-----------------------------------------------------------------------------
(* The string at s, and a memory with room for a copy behind it.           *)
RECURSIVE String(_, _)
String(m, s) == IF m[s] = NUL THEN <<>> ELSE <<m[s]>> \o String(m, s + 1)
Size(m) == Cardinality(DOMAIN m)
Widened(m) == [a \in 0 .. 2 * Size(m) + 3 |-> IF a < Size(m) THEN m[a] ELSE 1]
Upto(n, len) == IF n < len THEN n ELSE len

(* Does u come before v in the order of their first different bytes?       *)
Before(u, v) ==
    \/ Len(u) < Len(v) /\ u = SubSeq(v, 1, Len(u))
    \/ \E i \in 1 .. Upto(Len(u), Len(v)) :
          SubSeq(u, 1, i - 1) = SubSeq(v, 1, i - 1) /\ u[i] < v[i]
Sign(c) == IF c < 0 THEN -1 ELSE IF c > 0 THEN 1 ELSE 0
Compared(u, v) == IF u = v THEN 0 ELSE IF Before(u, v) THEN -1 ELSE 1

Moved(m, d, s, n) ==
    [a \in DOMAIN m |-> IF a \in d .. d + n - 1 THEN m[a - d + s] ELSE m[a]]

(* Both memmove copy as if the source were read before the first byte is   *)
(* written, however the two ranges overlap.  strncpy and safestrcpy write  *)
(* exactly the bytes they may, and safestrcpy always ends the string.  The *)
(* boot loader's word-at-a-time strcpy and strcmp agree, for strings of    *)
(* every alignment, with copying and comparing byte by byte, and so do     *)
(* strcpy, strcmp, strncmp and memcmp; strchr finds the first of the bytes *)
(* (kernel/string.c, user/ulib.c, custom_stdlib.c).                        *)
MemoryExact ==
    LET m == in.m
        b == Widened(m)
        N == Size(m)
        A == DOMAIN m
    IN  /\ \A d, s \in A : \A n \in 0 .. N - (IF d > s THEN d ELSE s) :
              /\ memmove(m, d, s, n) = Moved(m, d, s, n)
              /\ ulib_memmove(m, d, s, n) = Moved(m, d, s, n)
        /\ \A s \in A :
              LET t == String(m, s) IN
              /\ strlen(m, s) = Len(t)
              /\ \A n \in 0 .. N :
                    LET len == Upto(n - 1, Len(t))
                        copy(stop, end) ==
                            [a \in DOMAIN b |->
                               IF a \notin N .. end - 1 THEN b[a]
                               ELSE IF a < stop THEN t[a - N + 1] ELSE NUL]
                    IN  /\ strncpy(b, N, s, n) = copy(N + Len(t), N + n)
                        /\ safestrcpy(b, N, s, n) =
                             (IF n = 0 THEN b ELSE copy(N + len, N + len + 1))
              /\ \A d \in N .. N + 3 :
                    /\ boot_strcpy(b, d, s) = Moved(b, d, s, Len(t) + 1)
                    /\ strcpy(b, d, s) = boot_strcpy(b, d, s)
              /\ \A c \in {m[a] : a \in A} \ {NUL} :
                    LET at == strchr(b, s, c)
                    IN  IF at = 0 /\ (s # 0 \/ m[0] # c) THEN c \notin ToSet(t)
                        ELSE at \in s .. s + Len(t) - 1 /\ strlen([b EXCEPT ![at] = NUL], s) = at - s
              /\ \A q \in A :
                    LET u == String(m, q) IN
                    /\ boot_strcmp(m, s, q) = Compared(t, u)
                    /\ Sign(strcmp(m, s, q)) = Compared(t, u)
                    /\ \A n \in 0 .. N - (IF q > s THEN q ELSE s) :
                         Sign(memcmp(m, s, q, n)) =
                         Compared([i \in 1 .. n |-> m[s + i - 1]], [i \in 1 .. n |-> m[q + i - 1]])
                    /\ \A n \in 0 .. N :
                         Sign(strncmp(m, s, q, n)) =
                         Compared(SubSeq(t, 1, Upto(n, Len(t))), SubSeq(u, 1, Upto(n, Len(u))))

(* The elements of a path: the maximal runs of characters but "/", in      *)
(* order, cut to DIRSIZ characters.                                        *)
Elements(path) ==
    LET starts == {i \in 1 .. Len(path) :
                     path[i] # SLASH /\ (i = 1 \/ path[i - 1] = SLASH)}
        run(i) == SubSeq(path, i, i + ElementLen(SubSeq(path, i, Len(path))) - 1)
    IN  [k \in 1 .. Cardinality(starts) |->
           LET e == run(CHOOSE i \in starts : Cardinality({j \in starts : j < i}) = k - 1)
           IN  SubSeq(e, 1, Upto(DIRSIZ, Len(e)))]

(* A directory entry made for one element of a path is found by an element *)
(* of another path exactly when the two agree in their first DIRSIZ        *)
(* characters: what the buffer still holds of an earlier element, and the  *)
(* missing end mark of a name that fills it, never count (fs.c's skipelem, *)
(* dirlink and namecmp).                                                   *)
NamesAgree ==
    LET old == [i \in 0 .. DIRSIZ - 1 |-> 2]
        np == Names(in.p, old)  nq == Names(in.q, old)
        ep == Elements(in.p)    eq == Elements(in.q)
    IN  /\ Len(np) = Len(ep) /\ Len(nq) = Len(eq)
        /\ \A i \in DOMAIN np, j \in DOMAIN nq :
              (namecmp(dirlink(1, np[i]), nq[j]) = 0) <=> (ep[i] = eq[j])

(* The number a text says. *)
RECURSIVE Value(_, _)
Value(t, base) ==
    IF t = <<>> THEN 0
    ELSE IF Head(t) = MINUS THEN - Value(Tail(t), base)
    ELSE Value(Front(t), base) * (IF Len(t) = 1 THEN 0 ELSE base)
         + t[Len(t)]
Said(t, base) == Value(SelectSeq(t, LAMBDA c : c # BLANK), base)

(* Every number in print reads back as the number that was printed, the    *)
(* most negative one included in the kernel and the user library.  The     *)
(* boot loader's printf_d goes wrong for the most negative number, and its *)
(* printf_u for numbers that are negative as int: they are left out.       *)
(* atoi() gives the number back, whatever follows it.                      *)
PrintsBack ==
    LET x == in.x IN
    /\ Said(printint(x, 10, TRUE), 10) = Signed(x)
    /\ Said(ulib_printint(Signed(x), 10, TRUE), 10) = Signed(x)
    /\ \A base \in {10, 16} : /\ Said(printint(x, base, FALSE), base) = x
                               /\ Said(ulib_printint(x, base, FALSE), base) = x
    /\ Said(printptr(x), 16) = x
    /\ \A w \in 0 .. 3 : /\ x # W \div 2 => Said(printf_d(x, w), 10) = Signed(x)
                          /\ Said(printf_x(x, w), 16) = x
    /\ Signed(x) >= 0 => /\ Said(printf_u(x), 10) = x
                         /\ \A tail \in {<<>>, <<MINUS, 7>>} : atoi(0, printint(x, 10, TRUE) \o tail) = x

(* The kernel's and the user library's printf, one looking ahead from the  *)
(* "%" and the other a state machine, print the same for every format: in  *)
(* particular they take the same arguments for the same conversions.  The  *)
(* boot loader's agrees with them where every "%" starts a conversion that *)
(* it knows.                                                               *)
FormatsAgree ==
    LET f == in.fmt IN
    /\ vprintf(f, "text") = kprintf(f)
    /\ (\A i \in 1 .. Len(f) : f[i] = "%" => At(f, i + 1) \in {"c", "s", "d", "u", "x"})
          => boot_printf(f, "text") = kprintf(f)

(* The boot loader's division and remainder are right for numbers below    *)
(* 2^32, and for every number when the divisor is 2^32 or more.            *)
DividesWords ==
    LET num == in.num  den == in.den IN
    den # 0 /\ (num < 2 ^ Half \/ den >= 2 ^ Half) =>
        /\ udivdi3(num, den) = num \div den
        /\ umoddi3(num, den) = num % den

(* A frequency that is set is the nearest that the register can hold, and  *)
(* read_cpu_frequency() returns what set_cpu_frequency() returned, unless  *)
(* it rounds to 0 (kianv_io_utils.c).  A divider is "rounded to nearest,   *)
(* clamped to [1..0xFFFF]" (bootloader.c), and a time in cycles is never   *)
(* shorter than the time asked for when the clock is a whole number of MHz *)
(* (its fraction is dropped, so that it may be shorter otherwise).         *)
Distance(x, y) == IF x > y THEN x - y ELSE y - x
ClockExact ==
    LET s == set_cpu_frequency(in.hz)
        d == soc_program_dividers(in.hz, in.target, in.target + 1, 2 * in.target, in.target)
        nearest(n, target) ==
            \A k \in 1 .. DivMax : Distance(n * target, in.hz) <= Distance(k * target, in.hz)
    IN  /\ in.hz * FRAC + MEGA < 2 ^ Half =>
              /\ s.reg # 0 => read_cpu_frequency(s.reg) = s.hz
              /\ in.hz # 0 => \A q \in 0 .. DivMax :
                    Distance(s.reg * MEGA, in.hz * FRAC) <= Distance(q * MEGA, in.hz * FRAC)
        /\ nearest(d.div0[1], in.target + 1)
        /\ in.target # 0 => nearest(d.div0[2], in.target) /\ nearest(d.div1[1], 2 * in.target)
        /\ d.div1[2] \in 1 .. DivMax
        /\ in.hz % MEGA = 0 /\ in.target * (in.hz \div MEGA) + KILO <= 2 ^ Half =>
              LET cyc == ns_to_cycles(in.target, in.hz)
              IN  cyc >= 1 /\ cyc * KILO >= in.target * (in.hz \div MEGA)

(* A system call gets a string exactly when it ends within max bytes and   *)
(* all of it is in mapped pages, across any page boundary, and then the    *)
(* buffer holds it with its end and no byte more; it gets a word exactly   *)
(* when all its bytes are below the size, also when the address plus the   *)
(* length of a word overflows (fetchstr, fetchaddr and copyinstr).         *)
ArgsExact ==
    \A addr \in 0 .. Space - 1 :
        LET word == fetchaddr(in, addr) IN
        /\ IF \A i \in 0 .. WORD - 1 : addr + i < in.sz
           THEN word.r = 0 /\ word.ip = [i \in 0 .. WORD - 1 |-> UserByte(in, addr + i)]
           ELSE word.r = -1
        /\ \A max \in 0 .. 2 * PGSIZE + 1 :
              LET s == argstr(in, <<addr>>, 1, max)
                  here(i) == (addr + i) % Space
                  ends == {k \in 0 .. max - 1 :
                             /\ \A i \in 0 .. k : PGROUNDDOWN(here(i)) \in in.mapped
                             /\ \A i \in 0 .. k : in.byte[here(i)] = NUL <=> i = k}
              IN  /\ Len(s.buf) <= max
                  /\ IF ends = {} THEN s.r = -1
                     ELSE /\ ends = {s.r}
                          /\ s.buf = [i \in 1 .. s.r + 1 |-> in.byte[here(i - 1)]]

(* The lines that gets() returns are together what was typed, each ends at *)
(* its newline or fills the buffer or is the last, and wc counts the same  *)
(* characters, lines and words however read() cuts the file (ulib.c,       *)
(* wc.c).  A write to the console that fails half way has sent exactly the *)
(* bytes it reports (console.c).                                           *)
RECURSIVE Lines(_, _)
Lines(t, max) ==
    IF t = <<>> THEN <<>>
    ELSE LET g == gets(<<>>, t, max) IN <<g.buf>> \o Lines(g.rest, max)
RECURSIVE Cut(_, _)
Cut(t, at) ==
    IF t = <<>> THEN <<>>
    ELSE LET n == CHOOSE n \in 1 .. Len(t) : /\ n = Len(t) \/ n \in at
                                             /\ \A k \in 1 .. n - 1 : k \notin at
         IN  <<SubSeq(t, 1, n)>> \o Cut(SubSeq(t, n + 1, Len(t)), {k - n : k \in at})
PiecesExact ==
    LET t == in.t
        starts == {i \in 1 .. Len(t) : ~Blank(t[i]) /\ (i = 1 \/ Blank(t[i - 1]))}
    IN  /\ \A max \in 2 .. 4 :
              LET ls == Lines(t, max) IN
              /\ FlattenSeq(ls) = t
              /\ \A i \in DOMAIN ls :
                    /\ Len(ls[i]) < max
                    /\ \A k \in 1 .. Len(ls[i]) - 1 : ls[i][k] # NEWLINE
                    /\ i < Len(ls) => Len(ls[i]) = max - 1 \/ Last(ls[i]) = NEWLINE
        /\ \A at \in SUBSET (1 .. Len(t)) :
              LET s == wc([c |-> 0, l |-> 0, w |-> 0, inword |-> FALSE], Cut(t, at))
              IN  /\ s.c = Len(t)
                  /\ s.l = Cardinality({i \in 1 .. Len(t) : t[i] = NEWLINE})
                  /\ s.w = Cardinality(starts)
        /\ \A bad \in 0 .. 3 :
              LET c == consolewrite(t, 0, bad)
              IN  /\ c.sent = SubSeq(t, 1, c.r)
                  /\ c.r < Len(t) <=> bad # 0 /\ Len(t) > (bad - 1) * ConsoleBuf

(* pipe() makes two descriptors that name the two ends of an open pipe, or *)
(* leaves the table as it was and no end open, whichever of its steps      *)
(* fails (sys_pipe in sysfile.c).                                          *)
PipeAllOrNothing ==
    LET p == sys_pipe(in.ofile, in.bad)
        new == {fd \in DOMAIN in.ofile : p.ofile[fd] # in.ofile[fd]}
    IN  IF p.r < 0 THEN new = {} /\ p.open = {}
        ELSE /\ {p.ofile[fd] : fd \in new} = p.open
             /\ Cardinality(new) = 2
             /\ \A fd \in new : in.ofile[fd] = NoFile

(* All of the above, on every input.                                       *)
LibExact ==
    CASE in.f = "memory" -> MemoryExact
      [] in.f = "paths"  -> NamesAgree
      [] in.f = "number" -> PrintsBack
      [] in.f = "format" -> FormatsAgree
      [] in.f = "divide" -> DividesWords
      [] in.f = "clock"  -> ClockExact
      [] in.f = "user"   -> ArgsExact
      [] in.f = "text"   -> PiecesExact
      [] in.f = "pipe"   -> PipeAllOrNothing
      [] OTHER -> TRUE

(* "Unsigned 64-bit divide" (kianv_io_utils.c:56): the quotient is the     *)
(* quotient.                                                               *)
UnsignedDivide ==
    in.f = "divide" /\ in.den # 0 => udivdi3(in.num, in.den) = in.num \div in.den
=============================================================================
