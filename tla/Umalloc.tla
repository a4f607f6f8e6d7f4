------------------------------ MODULE Umalloc ------------------------------
(***************************************************************************)
(* The user library's memory allocator (user/umalloc.c): a circular list   *)
(* of free blocks in address order, searched first fit from where the last *)
(* search ended, with neighbours joined when a block is freed and more     *)
(* memory taken from sbrk when nothing fits.  Addresses and sizes are in   *)
(* units of one Header; the program's data, with the static Header base,   *)
(* lies below the heap.                                                    *)
(***************************************************************************)
EXTENDS Integers, FiniteSets, FiniteSetsExt

CONSTANTS Header,    \* sizeof(Header), in bytes
          WRAP,      \* unsigned integers are taken modulo WRAP
          MinCore,   \* the fewest units morecore asks for (4096)
          HeapStart, \* the program break when the program starts
          HeapEnd,   \* sbrk fails past this unit
          Requests,  \* the sizes the program asks for, in bytes
          Moves      \* the units by which the program itself calls sbrk

VARIABLES h,         \* [ptr, size, freep, brk]: the headers, freep, the break
          live,      \* the blocks malloc returned and free has not had back
          cores,     \* the units morecore obtained (ghost)
          denied     \* the request malloc last refused, in units, or 0 (ghost)

vars == <<h, live, cores, denied>>

NULL == -1
base == 0
Units == base .. HeapEnd

Init ==
    /\ h = [ptr |-> [u \in Units |-> NULL], size |-> [u \in Units |-> 0],
            freep |-> NULL, brk |-> HeapStart]
    /\ live = {} /\ cores = {} /\ denied = 0

-----------------------------------------------------------------------------
(* free: the block p of the list after which bp belongs, by the addresses. *)
(* A header that is joined to its neighbour, and the link of a block that  *)
(* is handed out, are never read again: they are cleared here.       *)
RECURSIVE Before(_, _, _)
Before(s, bp, p) ==
    IF \/ bp > p /\ bp < s.ptr[p]
       \/ p >= s.ptr[p] /\ (bp > p \/ bp < s.ptr[p])
    THEN p ELSE Before(s, bp, s.ptr[p])

\* Mutant: the block is not joined to the one above it.
free_upper_apart(s, bp) ==
    LET p  == Before(s, bp, s.freep)
        nx == s.ptr[p]
        s1 == [s EXCEPT !.ptr[bp] = nx]
        s2 == IF p + s1.size[p] = bp
              THEN [s1 EXCEPT !.size[p] = @ + s1.size[bp], !.ptr[p] = s1.ptr[bp],
                               !.size[bp] = 0, !.ptr[bp] = NULL]
              ELSE [s1 EXCEPT !.ptr[p] = bp]
    IN  [s2 EXCEPT !.freep = p]

free(s, bp) ==
    LET p  == Before(s, bp, s.freep)
        nx == s.ptr[p]
        s1 == IF bp + s.size[bp] = nx
              THEN [s EXCEPT !.size[bp] = @ + s.size[nx], !.ptr[bp] = s.ptr[nx],
                              !.size[nx] = 0, !.ptr[nx] = NULL]
              ELSE [s EXCEPT !.ptr[bp] = nx]
        s2 == IF p + s1.size[p] = bp
              THEN [s1 EXCEPT !.size[p] = @ + s1.size[bp], !.ptr[p] = s1.ptr[bp],
                               !.size[bp] = 0, !.ptr[bp] = NULL]
              ELSE [s1 EXCEPT !.ptr[p] = bp]
    IN  [s2 EXCEPT !.freep = p]

CoreSize(nu) == IF nu < MinCore THEN MinCore ELSE nu
HasCore(s, nu) == s.brk + CoreSize(nu) <= HeapEnd + 1

morecore(s, nu) ==
    free([s EXCEPT !.size[s.brk] = CoreSize(nu), !.brk = @ + CoreSize(nu)], s.brk)

-----------------------------------------------------------------------------
(* malloc: the search, from prevp and the block p after it.                *)
Taken(s, prevp, p, nunits) ==
    IF s.size[p] = nunits
    THEN [s |-> [s EXCEPT !.ptr[p] = NULL, !.ptr[prevp] = s.ptr[p], !.freep = prevp],
          at |-> p]
    ELSE LET q == p + s.size[p] - nunits
         IN  [s |-> [s EXCEPT !.size[p] = @ - nunits, !.size[q] = nunits,
                              !.freep = prevp],
              at |-> q]

RECURSIVE Search(_, _, _, _)
Search(s, prevp, p, nunits) ==
    CASE s.size[p] >= nunits -> Taken(s, prevp, p, nunits)
      [] s.size[p] < nunits /\ p # s.freep -> Search(s, p, s.ptr[p], nunits)
      [] OTHER ->
           IF HasCore(s, nunits)
           THEN LET m == morecore(s, nunits)
                IN  Search(m, m.freep, m.ptr[m.freep], nunits)
           ELSE [s |-> s, at |-> NULL]

nunits(nbytes) == ((nbytes + Header - 1) % WRAP) \div Header + 1

FirstCall(s) ==
    IF s.freep # NULL THEN s
    ELSE [s EXCEPT !.ptr[base] = base, !.size[base] = 0, !.freep = base]

malloc(nbytes) ==
    LET s == FirstCall(h)
        n == nunits(nbytes)
        r == Search(s, s.freep, s.ptr[s.freep], n)
    IN  /\ h' = r.s
        /\ cores' = cores \cup (h.brk .. r.s.brk - 1)
        /\ IF r.at = NULL
           THEN live' = live /\ denied' = n
           ELSE /\ live' = live \cup {[at |-> r.at, bytes |-> nbytes]}
                /\ denied' = 0

Free(b) ==
    /\ h' = free(h, b.at)
    /\ live' = live \ {b}
    /\ denied' = 0
    /\ UNCHANGED cores

(* The program may move the break itself, between two calls (external).    *)
sbrk(n) ==
    /\ h.brk + n <= HeapEnd + 1
    /\ h' = [h EXCEPT !.brk = @ + n]
    /\ denied' = 0
    /\ UNCHANGED <<live, cores>>

Next ==
    \/ \E n \in Requests : malloc(n)
    \/ \E b \in live : Free(b)
    \/ \E n \in Moves : sbrk(n)

Spec == Init /\ [][Next]_vars

-----------------------------------------------------------------------------
(* The blocks of the free list, from base round to base.                   *)
RECURSIVE ListFrom(_, _)
ListFrom(s, p) == {p} \cup (IF s.ptr[p] = base THEN {} ELSE ListFrom(s, s.ptr[p]))
FreeBlocks == IF h.freep = NULL THEN {} ELSE ListFrom(h, base)
Extent(p) == p .. p + h.size[p] - 1

(* The units morecore obtained are shared out exactly among the blocks the *)
(* program holds and the blocks of the free list, none in two of them and  *)
(* none lost, whatever the program frees, in whatever order, and wherever  *)
(* its own sbrk calls put holes in the heap.  A block the program holds    *)
(* has room for the bytes it asked for behind its header.  The list is in  *)
(* address order, no two free blocks touch (so fragments never stay        *)
(* fragments), and malloc gives up only when no free block would do and    *)
(* there is no more memory (umalloc.c's free and malloc).                  *)
HeapExact ==
    LET blocks == FreeBlocks \cup {b.at : b \in live}
    IN  /\ \A b \in live : /\ b.at \notin FreeBlocks
                           /\ (h.size[b.at] - 1) * Header >= b.bytes
        /\ \A p, q \in blocks : p # q => Extent(p) \cap Extent(q) = {}
        /\ UNION {Extent(p) : p \in blocks} = cores
        /\ \A p \in FreeBlocks : /\ h.ptr[p] > p \/ h.ptr[p] = base
                                 /\ p # base => p + h.size[p] # h.ptr[p]
        /\ denied > 0 => /\ \A p \in FreeBlocks : h.size[p] < denied
                         /\ ~HasCore(h, denied)
=============================================================================
