-------------------------------- MODULE MCFs --------------------------------
(* The file system for TLC: files on the blocks of the disk (FsBlocks) or   *)
(* inodes, directories and descriptors (FsTree). One of the two moves, the   *)
(* other is switched off.                                                  *)
EXTENDS FsBlocks, TLC

CONSTANTS p1, p2, None

VARIABLES part, ino, durable, active, itab, ftable, ofile, cwd, call, up, scan, left

tree == <<ino, durable, active, itab, ftable, ofile, cwd, call, up, scan, left>>

\* The file that mkfs copies.
MCHostFile == <<5, 6, 7>>

Req(op, path) == [op |-> op, path |-> path, abs |-> TRUE, new |-> << >>]
a == <<"a">>
ab == <<"a", "b">>

\* Files and directories under the same names, at two depths.
Requests ==
    {Req("mkdir", a), Req("creat", a), Req("unlink", a), Req("creat", ab),
     Req("unlink", ab), Req("unlink", <<"a", ".">>), Req("chdir", a), Req("openw", a),
     [Req("link", ab) EXCEPT !.new = [path |-> <<"b">>, abs |-> TRUE]],
     [Req("mknod", a) EXCEPT !.abs = FALSE]}

T == INSTANCE FsTree WITH NINODES <- 3, Names <- {"a", "b"}, NFILE <- 1, NOFILE <- 2,
                          MaxCalls <- 4, MaxCrash <- 1, file <- ftable

-----------------------------------------------------------------------------
BlocksOff == fs = None /\ data = None /\ file = None /\ job = None /\ writes = None
TreeOff ==
    /\ ino = None /\ durable = None /\ active = None /\ itab = None /\ ftable = None
    /\ ofile = None /\ cwd = None /\ call = None /\ up = None /\ scan = None /\ left = None

FsInit == \/ part = "blocks" /\ Init /\ TreeOff
          \/ part = "tree" /\ T!Init /\ BlocksOff

FsNext == \/ part = "blocks" /\ Next /\ UNCHANGED <<part, tree>>
          \/ part = "tree" /\ T!Next /\ UNCHANGED <<part, vars>>

FsSpec == FsInit /\ [][FsNext]_<<part, vars, tree>>

Symmetry == Permutations(Procs)

-----------------------------------------------------------------------------
(* The properties of the two modules.                                      *)

\* A file reads back as what was written to it (FsBlocks).
ReadsBack == part = "blocks" => Contents

\* Every block of the disk is in one file or free, and no transaction outgrows
\* its share of the log (FsBlocks).
BlocksShared == part = "blocks" => BlocksExact

\* No panic of the inode layer is reachable (FsTree).
NoFsPanic == part = "tree" => T!NoFsPanic

\* Whatever has a name, a descriptor or a process in it exists, now and after
\* a crash (FsTree).
Alive == part = "tree" => T!Alive

\* Every inode has exactly the references that somebody holds (FsTree).
RefsExact == part = "tree" => T!RefsExact

\* Nobody waits in a circle for the locks of inodes (FsTree).
NoWaitCycle == part = "tree" => T!NoWaitCycle
=============================================================================
