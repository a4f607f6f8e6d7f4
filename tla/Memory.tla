------------------------------- MODULE Memory -------------------------------
(***************************************************************************)
(* Physical pages, page tables and the address spaces of processes in the  *)
(* xv6 port: kernel/kalloc.c, kernel/vm.c, kernel/exec.c and the parts of  *)
(* kernel/proc.c, sysproc.c and sysfile.c that allocate or free memory.    *)
(*                                                                         *)
(* A step is a whole system call or page fault. Only the list of free      *)
(* pages, which kmem.lock protects, is shared between processes, so what   *)
(* the calls of others do in between is to change how many pages are left  *)
(* and with it the kalloc() that fails; other processes and pipes holding  *)
(* pages give every such case. Addresses are bytes modulo WRAP, a page has *)
(* PGSIZE bytes and a table NPTE entries (two levels, Sv32). The contents  *)
(* of a page are one value.                                                *)
(***************************************************************************)
EXTENDS Integers, Sequences, FiniteSets, FiniteSetsExt, SequencesExt

CONSTANTS
    NPROC,
    NPAGES,     \* pages between `end` and PHYSTOP
    PGSIZE, NPTE,
    USERSTACK,
    Programs,   \* executables: sequences of [vaddr, filesz, memsz, perm]
    MaxArgs,    \* bound: arguments of exec()
    MaxPipes,   \* bound: pages in use by pipes
    MaxSize,    \* bound: process size, below TRAPFRAME
    Addrs,      \* bound: addresses used by stores, read() and write()
    Deltas      \* bound: arguments of sbrk()

Procs == 1 .. NPROC
initproc == 1
Pages == 1 .. NPAGES
trampoline == NPAGES + 1         \* a page of the kernel image
NoPage == 0
WRAP == NPTE * NPTE * PGSIZE
TRAMPOLINE == NPTE * NPTE - 1    \* as page numbers
TRAPFRAME == TRAMPOLINE - 1

PGROUNDUP(sz) == ((sz + PGSIZE - 1) % WRAP) \div PGSIZE   \* in pages

VARIABLES
    mem,     \* free pages, tables and contents of pages, and broken rules
    proc,    \* trapframe page, page table and size of each process
    pipes,   \* pages that pipealloc() holds
    image    \* ghost: the value each page of each process should have

vars == <<mem, proc, pipes, image>>

Invalid == [pa |-> NoPage, perm |-> {}]
EmptyTable == [i \in 0 .. NPTE - 1 |-> Invalid]

Broken(m, what) == [m EXCEPT !.bad = @ \cup {what}]

-----------------------------------------------------------------------------
(* kalloc.c                                                                *)

\* The page at the head of the list, full of junk; no page if it is empty.
kalloc(m) ==
    IF m.free = {} THEN [m |-> m, pa |-> NoPage]
    ELSE LET pa == CHOOSE pa \in m.free : TRUE IN [m |-> [m EXCEPT !.free = @ \ {pa}], pa |-> pa]

kfree(m, pa) ==
    [m EXCEPT !.free = @ \cup {pa}, !.val[pa] = "junk", !.tab[pa] = EmptyTable,
              !.bad = @ \cup (IF pa \in m.free THEN {"freed twice"} ELSE {})
                          \cup (IF pa \notin Pages THEN {"kfree"} ELSE {})]

RECURSIVE kfree_all(_, _)
kfree_all(m, pas) ==
    IF pas = {} THEN m ELSE LET pa == CHOOSE x \in pas : TRUE IN kfree_all(kfree(m, pa), pas \ {pa})

memset0(m, pa) == [m EXCEPT !.val[pa] = "zero", !.tab[pa] = EmptyTable]

-----------------------------------------------------------------------------
(* vm.c: an address is given as its page number a.                         *)

\* The table with the entry of page a, NoPage if there is none.
walk(m, root, a, alloc) ==
    LET pte == m.tab[root][a \div NPTE]
        k == kalloc(m)
    IN IF pte.pa # NoPage THEN [m |-> m, leaf |-> pte.pa]
       ELSE IF ~alloc \/ k.pa = NoPage THEN [m |-> m, leaf |-> NoPage]
       ELSE [m |-> [memset0(k.m, k.pa) EXCEPT
                        !.tab[root][a \div NPTE] = [pa |-> k.pa, perm |-> {}]],
             leaf |-> k.pa]

\* The entry of page a, Invalid if there is none.
Pte(m, root, a) ==
    LET w == walk(m, root, a, FALSE) IN
    IF w.leaf = NoPage THEN Invalid ELSE m.tab[w.leaf][a % NPTE]

SetPte(m, root, a, pte) ==
    [m EXCEPT !.tab[walk(m, root, a, FALSE).leaf][a % NPTE] = pte]

walkaddr(m, root, a) ==
    LET pte == Pte(m, root, a) IN IF "U" \in pte.perm THEN pte.pa ELSE NoPage

ismapped(m, root, a) == Pte(m, root, a).pa # NoPage

\* One page; every caller outside of kvmmake() maps one page.
mappages(m, root, a, pa, perm) ==
    LET w == walk(m, root, a, TRUE)
        checked == IF ismapped(m, root, a) THEN Broken(w.m, "mappages: remap") ELSE w.m
    IN IF w.leaf = NoPage THEN [m |-> m, ok |-> FALSE]
       ELSE [m |-> SetPte(checked, root, a, [pa |-> pa, perm |-> perm]), ok |-> TRUE]

uvmcreate(m) ==
    LET k == kalloc(m) IN
    IF k.pa = NoPage THEN k ELSE [k EXCEPT !.m = memset0(k.m, k.pa)]

\* Pages a, a+1, ..., a+n-1, those that are mapped.
RECURSIVE uvmunmap(_, _, _, _, _)
uvmunmap(m, root, a, n, do_free) ==
    LET pte == Pte(m, root, a)
        t == IF do_free THEN kfree(m, pte.pa) ELSE m
    IN IF n = 0 THEN m
       ELSE uvmunmap(IF pte.pa = NoPage THEN m ELSE SetPte(t, root, a, Invalid),
                     root, a + 1, n - 1, do_free)

\* oldsz and newsz in bytes.
uvmdealloc(m, root, oldsz, newsz) ==
    IF newsz >= oldsz \/ PGROUNDUP(newsz) >= PGROUNDUP(oldsz) THEN m
    ELSE uvmunmap(m, root, PGROUNDUP(newsz), PGROUNDUP(oldsz) - PGROUNDUP(newsz), TRUE)

\* The loop of uvmalloc(), at page a; it began at page first.
RECURSIVE uvmalloc_from(_, _, _, _, _, _)
\* Mutant: the page is not freed when it could not be mapped.
uvmalloc_from_leaks(m, root, a, first, newsz, xperm) ==
    LET k == kalloc(m)
        Undo(t) == [m |-> uvmdealloc(t, root, a * PGSIZE, first * PGSIZE), sz |-> 0]
        Then(mapped) == IF ~mapped.ok THEN Undo(mapped.m)
                        ELSE uvmalloc_from(mapped.m, root, a + 1, first, newsz, xperm)
    IN IF a * PGSIZE >= newsz THEN [m |-> m, sz |-> newsz]
       ELSE IF k.pa = NoPage THEN Undo(m)
       ELSE Then(mappages(memset0(k.m, k.pa), root, a, k.pa, {"R", "U"} \cup xperm))

uvmalloc_from(m, root, a, first, newsz, xperm) ==
    LET k == kalloc(m)
        Undo(t) == [m |-> uvmdealloc(t, root, a * PGSIZE, first * PGSIZE), sz |-> 0]
        Then(mapped) == IF ~mapped.ok THEN Undo(kfree(mapped.m, k.pa))
                        ELSE uvmalloc_from(mapped.m, root, a + 1, first, newsz, xperm)
    IN IF a * PGSIZE >= newsz THEN [m |-> m, sz |-> newsz]
       ELSE IF k.pa = NoPage THEN Undo(m)
       ELSE Then(mappages(memset0(k.m, k.pa), root, a, k.pa, {"R", "U"} \cup xperm))

uvmalloc(m, root, oldsz, newsz, xperm) ==
    IF newsz < oldsz THEN [m |-> m, sz |-> oldsz]
    ELSE uvmalloc_from(m, root, PGROUNDUP(oldsz), PGROUNDUP(oldsz), newsz, xperm)

\* Free the tables below root, then root; leaf mappings must be gone.
freewalk(m, root) ==
    LET children == {m.tab[root][i].pa : i \in DOMAIN EmptyTable} \ {NoPage}
        leaf == \E c \in children : m.tab[c] # EmptyTable
        freed == kfree_all(m, children)
    IN kfree(IF leaf THEN Broken(freed, "freewalk: leaf") ELSE freed, root)

uvmfree(m, root, sz) ==
    freewalk(IF sz > 0 THEN uvmunmap(m, root, 0, PGROUNDUP(sz), TRUE) ELSE m, root)

\* The loop of uvmcopy(), at page i.
RECURSIVE uvmcopy_from(_, _, _, _, _)
uvmcopy_from(m, old, new, sz, i) ==
    LET pte == Pte(m, old, i)
        k == kalloc(m)
        Err(t) == [m |-> uvmunmap(t, new, 0, i, TRUE), ok |-> FALSE]
        Then(mapped) == IF ~mapped.ok THEN Err(kfree(mapped.m, k.pa))
                        ELSE uvmcopy_from(mapped.m, old, new, sz, i + 1)
    IN IF i * PGSIZE >= sz THEN [m |-> m, ok |-> TRUE]
       ELSE IF pte.pa = NoPage THEN uvmcopy_from(m, old, new, sz, i + 1)
       ELSE IF k.pa = NoPage THEN Err(m)
       ELSE Then(mappages([k.m EXCEPT !.val[k.pa] = m.val[pte.pa]], new, i, k.pa, pte.perm))

uvmcopy(m, old, new, sz) == uvmcopy_from(m, old, new, sz, 0)

uvmclear(m, root, a) ==
    LET pte == Pte(m, root, a) IN
    IF walk(m, root, a, FALSE).leaf = NoPage THEN Broken(m, "uvmclear")
    ELSE SetPte(m, root, a, [pte EXCEPT !.perm = @ \ {"U"}])

\* Mutant: the new page is not cleared.
vmfault_unset(m, root, sz, va) ==
    LET a == va \div PGSIZE
        k == kalloc(m)
        Then(mapped) == IF ~mapped.ok THEN [m |-> kfree(mapped.m, k.pa), pa |-> NoPage]
                        ELSE [m |-> mapped.m, pa |-> k.pa]
    IN IF va >= sz \/ ismapped(m, root, a) \/ k.pa = NoPage THEN [m |-> m, pa |-> NoPage]
       ELSE Then(mappages(k.m, root, a, k.pa, {"W", "U", "R"}))

\* The page that backs address va of a process of size sz, mapped now.
vmfault(m, root, sz, va) ==
    LET a == va \div PGSIZE
        k == kalloc(m)
        Then(mapped) == IF ~mapped.ok THEN [m |-> kfree(mapped.m, k.pa), pa |-> NoPage]
                        ELSE [m |-> mapped.m, pa |-> k.pa]
    IN IF va >= sz \/ ismapped(m, root, a) \/ k.pa = NoPage THEN [m |-> m, pa |-> NoPage]
       ELSE Then(mappages(memset0(k.m, k.pa), root, a, k.pa, {"W", "U", "R"}))

\* copyout() of value v when write is TRUE, copyin() otherwise: len bytes at
\* va, one page at a time. `hit` is the set of pages written.
RECURSIVE CopyLoop(_, _, _, _, _, _, _)
CopyLoop(m, root, sz, va, len, v, write) ==
    LET a == va \div PGSIZE
        n == Min({PGSIZE - (va % PGSIZE), len})
        Found(pa0) == IF pa0 = NoPage THEN vmfault(m, root, sz, a * PGSIZE)
                      ELSE [m |-> m, pa |-> pa0]
        Copied(f) == IF write THEN [f.m EXCEPT !.val[f.pa] = v] ELSE f.m
        Page(f) ==
            IF f.pa = NoPage \/ (write /\ "W" \notin Pte(f.m, root, a).perm)
            THEN [m |-> f.m, ok |-> FALSE, hit |-> {}]
            ELSE [CopyLoop(Copied(f), root, sz, ((a + 1) * PGSIZE) % WRAP, len - n, v, write)
                    EXCEPT !.hit = @ \cup {a}]
    IN IF len = 0 THEN [m |-> m, ok |-> TRUE, hit |-> {}]
       ELSE Page(Found(walkaddr(m, root, a)))

copyout(m, root, sz, va, len, v) == CopyLoop(m, root, sz, va, len, v, TRUE)
copyin(m, root, sz, va, len) == CopyLoop(m, root, sz, va, len, "", FALSE)

-----------------------------------------------------------------------------
(* The kernel's own page table, in page numbers of the real machine. The   *)
(* end of the kernel text depends on the build; any page after KERNBASE.   *)

KSTACK(p) == \hFFFFF - ((p + 1) * 2)
etext == \h80010

Span(va, n) == [first |-> va, last |-> va + n - 1]

proc_mapstacks == {Span(KSTACK(p), 1) : p \in 0 .. 63}

kvmmake ==
    {Span(\h10000, 1), Span(\h10500, 1), Span(\hC000, \h4000),
     Span(\h80000, etext - \h80000), Span(etext, \h80800 - etext), Span(\hFFFFF, 1)}
    \cup proc_mapstacks

\* No page is mapped twice, which is a panic, and the page below each kernel
\* stack is left unmapped.
KernelMap ==
    /\ \A r, q \in kvmmake : r = q \/ r.last < q.first \/ q.last < r.first
    /\ \A p \in 0 .. 63, r \in kvmmake : KSTACK(p) - 1 \notin r.first .. r.last

-----------------------------------------------------------------------------
(* proc.c: processes, their trapframes and page tables.                    *)

NoProc == [tf |-> NoPage, pt |-> NoPage, sz |-> 0]

\* A page table with the trampoline and trapframe tf, no user memory.
proc_pagetable(m, tf) ==
    LET Both(frame, pt) ==
            IF ~frame.ok
            THEN [m |-> uvmfree(uvmunmap(frame.m, pt, TRAMPOLINE, 1, FALSE), pt, 0),
                  pt |-> NoPage]
            ELSE [m |-> frame.m, pt |-> pt]
        One(tramp, pt) ==
            IF ~tramp.ok THEN [m |-> uvmfree(tramp.m, pt, 0), pt |-> NoPage]
            ELSE Both(mappages(tramp.m, pt, TRAPFRAME, tf, {"R", "W"}), pt)
        Table(c) ==
            IF c.pa = NoPage THEN [m |-> m, pt |-> NoPage]
            ELSE One(mappages(c.m, c.pa, TRAMPOLINE, trampoline, {"R", "X"}), c.pa)
    IN Table(uvmcreate(m))

proc_freepagetable(m, pt, sz) ==
    uvmfree(uvmunmap(uvmunmap(m, pt, TRAMPOLINE, 1, FALSE), pt, TRAPFRAME, 1, FALSE), pt, sz)

freeproc(m, p) ==
    LET t == IF p.tf # NoPage THEN kfree(m, p.tf) ELSE m IN
    IF p.pt # NoPage THEN proc_freepagetable(t, p.pt, p.sz) ELSE t

\* A process without user memory; NoProc when memory runs out.
allocproc(m) ==
    LET k == kalloc(m)
        Table(t) ==
            IF t.pt = NoPage
            THEN [m |-> freeproc(t.m, [NoProc EXCEPT !.tf = k.pa]), p |-> NoProc]
            ELSE [m |-> t.m, p |-> [tf |-> k.pa, pt |-> t.pt, sz |-> 0]]
    IN IF k.pa = NoPage THEN [m |-> freeproc(m, NoProc), p |-> NoProc]
       ELSE Table(proc_pagetable(k.m, k.pa))

-----------------------------------------------------------------------------
(* exec.c                                                                  *)

SegPages(seg) == seg.vaddr .. seg.vaddr + ((seg.filesz + PGSIZE - 1) \div PGSIZE) - 1

loadseg(m, root, seg) ==
    FoldSet(LAMBDA a, t : LET pa == walkaddr(t, root, a) IN
                          IF pa = NoPage THEN Broken(t, "loadseg: address should exist")
                          ELSE [t EXCEPT !.val[pa] = "text"],
            m, SegPages(seg))

\* The loop over the program headers. `fail` makes readi() fail on the last
\* header ("header") or on its segment ("segment").
RECURSIVE LoadSegs(_, _, _, _, _)
LoadSegs(m, root, sz, segs, fail) ==
    LET seg == Head(segs)
        last == Len(segs) = 1
        Bad(t, s) == [m |-> t, sz |-> s, ok |-> FALSE]
        Grown(u) ==
            IF u.sz = 0 THEN Bad(u.m, sz)
            ELSE IF last /\ fail = "segment" THEN Bad(u.m, u.sz)
            ELSE LoadSegs(loadseg(u.m, root, seg), root, u.sz, Tail(segs), fail)
    IN IF segs = << >> THEN [m |-> m, sz |-> sz, ok |-> TRUE]
       ELSE IF last /\ fail = "header" THEN Bad(m, sz)
       ELSE Grown(uvmalloc(m, root, sz, (seg.vaddr * PGSIZE) + seg.memsz, seg.perm))

\* The new process record, or p itself when kexec() returns -1.
kexec(m, p, prog, fail) ==
    LET Bad(b, pt, sz) == [m |-> proc_freepagetable(b, pt, sz), p |-> p]
        Pushed(args, pt, sz) ==
            IF ~args.ok THEN Bad(args.m, pt, sz)
            ELSE [m |-> proc_freepagetable(args.m, p.pt, p.sz),
                  p |-> [p EXCEPT !.pt = pt, !.sz = sz]]
        Guarded(g, pt, sz) ==
            IF fail = "args" THEN Bad(g, pt, sz)
            ELSE Pushed(copyout(g, pt, p.sz, sz - 1, 1, "args"), pt, sz)
        Stack(u, pt, sz0) ==
            IF u.sz = 0 THEN Bad(u.m, pt, sz0)
            ELSE Guarded(uvmclear(u.m, pt, (u.sz \div PGSIZE) - (USERSTACK + 1)), pt, u.sz)
        Loaded(segs, pt) ==
            LET sz0 == PGROUNDUP(segs.sz) * PGSIZE IN
            IF ~segs.ok THEN Bad(segs.m, pt, segs.sz)
            ELSE Stack(uvmalloc(segs.m, pt, sz0, sz0 + (USERSTACK + 1) * PGSIZE, {"W"}), pt, sz0)
        Table(t) == IF t.pt = NoPage THEN [m |-> t.m, p |-> p]
                    ELSE Loaded(LoadSegs(t.m, t.pt, 0, prog, fail), t.pt)
    IN IF fail = "open" THEN [m |-> m, p |-> p] ELSE Table(proc_pagetable(m, p.tf))

Fails == {"none", "open", "header", "segment", "args"}

\* What the pages of a process hold when it starts prog.
ProgramImage(prog) ==
    LET end == Max({(s.vaddr * PGSIZE) + s.memsz : s \in ToSet(prog)})
        n == PGROUNDUP(end)
    IN [i \in 1 .. n + 1 + USERSTACK |->
            IF i = n + 1 THEN "guard"
            ELSE IF i = n + 1 + USERSTACK THEN "args"
            ELSE IF \E s \in ToSet(prog) : i - 1 \in SegPages(s) THEN "text" ELSE "zero"]
-----------------------------------------------------------------------------
(* System calls and faults.                                                *)

Boot == allocproc([free |-> Pages, bad |-> {}, tab |-> [pg \in Pages |-> EmptyTable],
                   val |-> [pg \in Pages |-> "junk"]])

\* kinit(), userinit(), and forkret(), which runs /init in the first process.
Init ==
    /\ \E b \in {Boot}, prog \in Programs : \E e \in {kexec(b.m, b.p, prog, "none")} :
           /\ mem = e.m
           /\ proc = [p \in Procs |-> IF p = initproc THEN e.p ELSE NoProc]
           /\ image = [p \in Procs |-> IF p = initproc THEN ProgramImage(prog) ELSE << >>]
    /\ pipes = {}

Running(p) == proc[p].pt # NoPage

kfork(p, np) ==
    /\ Running(p)
    /\ proc[np] = NoProc
    /\ \E a \in {allocproc(mem)} :
         IF a.p = NoProc THEN mem' = a.m /\ UNCHANGED <<proc, image>>
         ELSE \E c \in {uvmcopy(a.m, proc[p].pt, a.p.pt, proc[p].sz)} :
              IF ~c.ok THEN mem' = freeproc(c.m, a.p) /\ UNCHANGED <<proc, image>>
              ELSE /\ mem' = c.m
                   /\ proc' = [proc EXCEPT ![np] = [a.p EXCEPT !.sz = proc[p].sz]]
                   /\ image' = [image EXCEPT ![np] = image[p]]
    /\ UNCHANGED pipes

\* argv[] takes one page per argument; "fetch" is a bad argument string.
sys_exec(p, prog, argc, fail) ==
    LET Grab(g, i) == LET k == kalloc(g.m) IN
                      IF k.pa = NoPage THEN [g EXCEPT !.ok = FALSE]
                      ELSE [g EXCEPT !.m = k.m, !.got = @ \cup {k.pa}]
    IN /\ Running(p)
       /\ \E args \in {FoldLeft(Grab, [m |-> mem, got |-> {}, ok |-> fail # "fetch"],
                                [i \in 1 .. argc |-> i])} :
          \E e \in {IF args.ok THEN kexec(args.m, proc[p], prog, fail)
                    ELSE [m |-> args.m, p |-> proc[p]]} :
            /\ mem' = kfree_all(e.m, args.got)
            /\ proc' = [proc EXCEPT ![p] = e.p]
            /\ image' = [image EXCEPT ![p] = IF e.p = proc[p] THEN @ ELSE ProgramImage(prog)]
       /\ UNCHANGED pipes

\* The image of a process resized to sz bytes.
Resized(seq, sz) ==
    [i \in 1 .. PGROUNDUP(sz) |-> IF i <= Len(seq) THEN seq[i] ELSE "zero"]

\* growproc(): sbrk(n) with SBRK_EAGER, or with n < 0.
growproc(p, n) ==
    LET sz == proc[p].sz
        newsz == (sz + n) % WRAP
        u == uvmalloc(mem, proc[p].pt, sz, newsz, {"W"})
        Resize(m, s) == /\ mem' = m
                        /\ proc' = [proc EXCEPT ![p].sz = s]
                        /\ image' = [image EXCEPT ![p] = Resized(@, s)]
    IN /\ Running(p)
       /\ sz + n <= MaxSize
       /\ IF n < 0 THEN Resize(uvmdealloc(mem, proc[p].pt, sz, newsz),
                               IF newsz >= sz THEN sz ELSE newsz)
          ELSE IF u.sz = 0 THEN mem' = u.m /\ UNCHANGED <<proc, image>>
          ELSE Resize(u.m, u.sz)
       /\ UNCHANGED pipes

\* sbrk(n) with SBRK_LAZY and n >= 0: nothing is mapped.
sbrk_lazy(p, n) ==
    /\ Running(p)
    /\ proc[p].sz + n <= MaxSize
    /\ proc' = [proc EXCEPT ![p].sz = @ + n]
    /\ image' = [image EXCEPT ![p] = Resized(@, proc[p].sz + n)]
    /\ UNCHANGED <<mem, pipes>>

Die(p) ==
    /\ p # initproc
    /\ mem' = freeproc(mem, proc[p])
    /\ proc' = [proc EXCEPT ![p] = NoProc]
    /\ image' = [image EXCEPT ![p] = << >>]
    /\ UNCHANGED pipes

\* kexit() and the kwait() of the parent.
exit(p) == Running(p) /\ Die(p)

\* A store of the program to address va. A fault that vmfault() cannot repair
\* kills the process.
store(p, va) ==
    LET a == va \div PGSIZE
        pte == Pte(mem, proc[p].pt, a)
        f == vmfault(mem, proc[p].pt, proc[p].sz, va)
        Write(m, pa) == /\ mem' = [m EXCEPT !.val[pa] = "data"]
                        /\ image' = [image EXCEPT ![p][a + 1] = "data"]
                        /\ UNCHANGED <<proc, pipes>>
    IN /\ Running(p)
       /\ \/ {"U", "W"} \subseteq pte.perm /\ Write(mem, pte.pa)
          \/ ~({"U", "W"} \subseteq pte.perm) /\ f.pa # NoPage /\ Write(f.m, f.pa)
          \/ ~({"U", "W"} \subseteq pte.perm) /\ f.pa = NoPage /\ Die(p)

\* read() into, and write() from, len bytes at va of user memory.
sys_read(p, va, len) ==
    /\ Running(p)
    /\ \E c \in {copyout(mem, proc[p].pt, proc[p].sz, va, len, "data")} :
         /\ mem' = c.m
         /\ image' = [image EXCEPT ![p] =
                         [i \in DOMAIN @ |-> IF i - 1 \in c.hit THEN "data" ELSE @[i]]]
    /\ UNCHANGED <<proc, pipes>>

sys_write(p, va, len) ==
    /\ Running(p)
    /\ mem' = copyin(mem, proc[p].pt, proc[p].sz, va, len).m
    /\ UNCHANGED <<proc, pipes, image>>

pipealloc ==
    LET k == kalloc(mem) IN
    /\ Cardinality(pipes) < MaxPipes
    /\ k.pa # NoPage
    /\ mem' = k.m
    /\ pipes' = pipes \cup {k.pa}
    /\ UNCHANGED <<proc, image>>

pipeclose(pa) ==
    /\ mem' = kfree(mem, pa)
    /\ pipes' = pipes \ {pa}
    /\ UNCHANGED <<proc, image>>

Next ==
    \/ \E p, np \in Procs : kfork(p, np)
    \/ \E p \in Procs, prog \in Programs, argc \in {MaxArgs}, fail \in Fails \cup {"fetch"} :
           sys_exec(p, prog, argc, fail)
    \/ \E p \in Procs, n \in Deltas : growproc(p, n)
    \/ \E p \in Procs, n \in {d \in Deltas : d > 0} : sbrk_lazy(p, n)
    \/ \E p \in Procs : exit(p)
    \/ \E p \in Procs, va \in Addrs : store(p, va)
    \/ \E p \in Procs, va \in Addrs : sys_read(p, va, PGSIZE) \/ sys_write(p, va, PGSIZE)
    \/ pipealloc
    \/ \E pa \in pipes : pipeclose(pa)

Spec == Init /\ [][Next]_vars

-----------------------------------------------------------------------------
(* Properties.                                                             *)

Live == {p \in Procs : proc[p].pt # NoPage}
Tables(p) == {mem.tab[proc[p].pt][i].pa : i \in DOMAIN EmptyTable} \ {NoPage}
UserPages(p) == {a \in 0 .. TRAPFRAME - 1 : ismapped(mem, proc[p].pt, a)}
Frames(p) == {Pte(mem, proc[p].pt, a).pa : a \in UserPages(p)}
Owned(p) == {proc[p].tf, proc[p].pt} \cup Tables(p) \cup Frames(p)

\* Every page is free, held by a pipe, or has exactly one use in exactly one
\* process, whichever kalloc() of a fork(), exec(), sbrk() or page fault fails:
\* nothing is leaked, shared or freed twice.
PagesExact ==
    /\ "freed twice" \notin mem.bad
    /\ UNION {Owned(p) : p \in Live} \cup pipes \cup mem.free = Pages
    /\ MapThenSumSet(LAMBDA p : 2 + Cardinality(Tables(p)) + Cardinality(UserPages(p)), Live)
         + Cardinality(pipes) + Cardinality(mem.free) = NPAGES

\* A process sees the memory that fork(), exec(), sbrk(), its stores and
\* read() give it: a page it has not touched since it was added reads as
\* zero, no page outside its size is mapped, and it reaches neither the guard
\* page of its stack nor the trapframe and the trampoline.
AddressSpace ==
    \A p \in Live :
        /\ \A a \in 0 .. TRAPFRAME - 1 :
              LET pte == Pte(mem, proc[p].pt, a) IN
              IF a >= Len(image[p]) THEN pte = Invalid
              ELSE IF image[p][a + 1] = "guard" THEN pte.pa # NoPage /\ "U" \notin pte.perm
              ELSE IF pte.pa = NoPage THEN image[p][a + 1] = "zero"
              ELSE "U" \in pte.perm /\ mem.val[pte.pa] = image[p][a + 1]
        /\ Pte(mem, proc[p].pt, TRAPFRAME) = [pa |-> proc[p].tf, perm |-> {"R", "W"}]
        /\ Pte(mem, proc[p].pt, TRAMPOLINE) = [pa |-> trampoline, perm |-> {"R", "X"}]

\* No panic of kfree(), mappages(), freewalk(), uvmclear() or loadseg(), nor
\* of kvmmap() at boot.
NoVmPanic == mem.bad \subseteq {"freed twice"} /\ KernelMap
=============================================================================
