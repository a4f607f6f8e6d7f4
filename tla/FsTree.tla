------------------------------- MODULE FsTree -------------------------------
(***************************************************************************)
(* Names, inodes and open files of the xv6 port: kernel/fs.c (inode table, *)
(* path walk, directories), kernel/file.c (open files) and the calls of    *)
(* kernel/sysfile.c that create, name, unname, open and close.             *)
(*                                                                         *)
(* A step is one hold of itable.lock or one hold of an inode's sleep-lock; *)
(* a lock kept over several steps is in `lock`. The log is what AtomicDisk *)
(* promises: the last end_op() makes everything durable at once and Crash  *)
(* brings that back. File contents, blocks and offsets are in FsBlocks.    *)
(***************************************************************************)
EXTENDS Integers, Sequences, FiniteSets, FiniteSetsExt

CONSTANTS
    Procs,
    NINODES,    \* inodes on the disk (sb.ninodes - 1); number 1 is the root
    Names,      \* names other than "." and ".."
    NFILE,      \* open files in the system
    NOFILE,     \* descriptors of a process
    Requests,   \* the calls processes make: [op, path, abs, new]
    MaxCalls,   \* bound: calls begun
    MaxCrash,   \* bound: crashes
    None

ROOTINO == 1
Inums == 1 .. NINODES
Dots == {".", ".."}

VARIABLES
    ino,     \* inodes and directory entries, as the buffer cache shows them
    durable, \* the same, as the last commit left it
    active,  \* processes between begin_op() and end_op()
    itab,    \* itable: reference count, valid, copies, sleep-lock
    file,    \* ftable: reference count and inode
    ofile,   \* descriptors of each process
    cwd,     \* current directory of each process
    call,    \* what each process is doing
    up,      \* "reclaim" while fsinit() runs, then "up"
    scan,    \* inode ireclaim() looks at
    left     \* bounds: calls and crashes left

fs == <<ino, durable, active>>
tables == <<itab, file, ofile, cwd>>
vars == <<fs, tables, call, up, scan, left>>

NoEnts == [n \in Names \cup Dots |-> 0]
FreeInode == [type |-> "free", nlink |-> 0, ents |-> NoEnts]
FreeEntry == [ref |-> 0, valid |-> FALSE, type |-> "free", nlink |-> 0,
              lock |-> None]
Idle == [op |-> "", at |-> "idle", path |-> << >>, new |-> << >>, w |-> 0,
         dp |-> 0, ip |-> 0, puts |-> << >>, ph |-> "check"]

\* A call that is over but for iput() of `puts` and end_op().
Ending(puts) == [Idle EXCEPT !.at = "end", !.puts = puts]

\* mkfs: a root directory with "." and ".."; userinit() gives the first
\* process the root as current directory and fork passes it on.
Root == [type |-> "dir", nlink |-> 1,
         ents |-> [NoEnts EXCEPT !["."] = ROOTINO, ![".."] = ROOTINO]]

AtRoot == [i \in Inums |-> IF i = ROOTINO
                           THEN [FreeEntry EXCEPT !.ref = Cardinality(Procs)]
                           ELSE FreeEntry]

Init ==
    /\ ino = [i \in Inums |-> IF i = ROOTINO THEN Root ELSE FreeInode]
    /\ durable = ino
    /\ active = {}
    /\ itab = AtRoot
    /\ file = [f \in 1 .. NFILE |-> [ref |-> 0, ip |-> 0]]
    /\ ofile = [p \in Procs |-> [d \in 1 .. NOFILE |-> 0]]
    /\ cwd = [p \in Procs |-> ROOTINO]
    /\ call = [p \in Procs |-> Idle]
    /\ up = "up"
    /\ scan = 1
    /\ left = [calls |-> MaxCalls, crashes |-> MaxCrash]

-----------------------------------------------------------------------------
(* The inode table.                                                        *)

iget(t, i) ==
    IF t[i].ref > 0 THEN [t EXCEPT ![i].ref = @ + 1]
                    ELSE [t EXCEPT ![i] = [FreeEntry EXCEPT !.ref = 1]]

idup(t, i) == [t EXCEPT ![i].ref = @ + 1]

\* The copy ilock() works on, read from the disk if it is not valid.
Loaded(t, i) ==
    IF t[i].valid THEN t
    ELSE [t EXCEPT ![i].valid = TRUE, ![i].type = ino[i].type,
                   ![i].nlink = ino[i].nlink]

Typed(i) == itab[i].valid \/ ino[i].type # "free"

ilock(t, i, p) == [Loaded(t, i) EXCEPT ![i].lock = p]

iunlock(t, i) == [t EXCEPT ![i].lock = None]

\* ip->nlink changed by the holder of the lock, and iupdate().
SetLinks(t, i, n) == [t EXCEPT ![i].nlink = n]
iupdate(d, t, i) == [d EXCEPT ![i].type = t[i].type, ![i].nlink = t[i].nlink]

dirlookup(i, name) == ino[i].ents[name]

isdirempty(i) == \A n \in Names : ino[i].ents[n] = 0

Running(p) == up = "up" /\ call[p].puts = << >>

Goto(p, c) == call' = [call EXCEPT ![p] = c]

\* Where the next step of a call takes a sleep-lock, and of which inode.
LockTarget(c) ==
    CASE c.at = "namex" /\ c.path # << >> -> c.w
      [] c.at \in {"create", "unlink", "link2"} -> c.dp
      [] c.at \in {"exists", "create2", "unlink2", "link", "link_bad",
                   "open", "chdir"} -> c.ip
      [] OTHER -> 0

CanLock(p) ==
    /\ Running(p)
    /\ LockTarget(call[p]) # 0
    /\ itab[LockTarget(call[p])].lock = None

\* acquiresleep() succeeds and the inode has a type.
Locks(p, at) == call[p].at = at /\ CanLock(p) /\ Typed(LockTarget(call[p]))

-----------------------------------------------------------------------------
(* iput() of the inodes a call has finished with, one after the other.     *)

Putting(p, phase) ==
    up = "up" /\ call[p].puts # << >> /\ call[p].ph = phase

\* Mutant: the last link frees the inode whoever refers to it.
LastRef_any(i) == itab[i].valid /\ itab[i].nlink = 0

LastRef(i) == itab[i].ref = 1 /\ itab[i].valid /\ itab[i].nlink = 0

PutDone(c) == [c EXCEPT !.puts = Tail(@), !.ph = "check"]

iput_ref(p) ==
    LET i == Head(call[p].puts) IN
    /\ Putting(p, "check") /\ ~LastRef(i)
    /\ itab' = [itab EXCEPT ![i].ref = @ - 1]
    /\ Goto(p, PutDone(call[p]))
    /\ UNCHANGED <<fs, file, ofile, cwd, up, scan, left>>

\* acquiresleep() with itable.lock held: it must not have to wait.
iput_last(p) ==
    LET i == Head(call[p].puts) IN
    /\ Putting(p, "check") /\ LastRef(i)
    /\ itab[i].lock = None
    /\ itab' = [itab EXCEPT ![i].lock = p]
    /\ Goto(p, [call[p] EXCEPT !.ph = "trunc"])
    /\ UNCHANGED <<fs, file, ofile, cwd, up, scan, left>>

\* itrunc(), type = 0 and iupdate(): ialloc() may now take the inode.
iput_free(p) ==
    LET i == Head(call[p].puts) IN
    /\ Putting(p, "trunc")
    /\ ino' = [ino EXCEPT ![i] = FreeInode]
    /\ itab' = [itab EXCEPT ![i].type = "free"]
    /\ Goto(p, [call[p] EXCEPT !.ph = "unlock"])
    /\ UNCHANGED <<durable, active, file, ofile, cwd, up, scan, left>>

\* Mutant: the copy in the table stays valid after the inode is freed.
iput_unlock_valid(p) ==
    LET i == Head(call[p].puts) IN
    /\ Putting(p, "unlock")
    /\ itab' = [itab EXCEPT ![i].lock = None]
    /\ Goto(p, [call[p] EXCEPT !.ph = "drop"])
    /\ UNCHANGED <<fs, file, ofile, cwd, up, scan, left>>

iput_unlock(p) ==
    LET i == Head(call[p].puts) IN
    /\ Putting(p, "unlock")
    /\ itab' = [itab EXCEPT ![i].valid = FALSE, ![i].lock = None]
    /\ Goto(p, [call[p] EXCEPT !.ph = "drop"])
    /\ UNCHANGED <<fs, file, ofile, cwd, up, scan, left>>

iput_drop(p) ==
    LET i == Head(call[p].puts) IN
    /\ Putting(p, "drop")
    /\ itab' = [itab EXCEPT ![i].ref = @ - 1]
    /\ Goto(p, PutDone(call[p]))
    /\ UNCHANGED <<fs, file, ofile, cwd, up, scan, left>>

iput(p) ==
    iput_ref(p) \/ iput_last(p) \/ iput_free(p) \/ iput_unlock(p) \/ iput_drop(p)

-----------------------------------------------------------------------------
(* Transactions and the path walk.                                         *)

Creates(op) == op \in {"creat", "mkdir", "mknod"}
WalkToParent(c) == Creates(c.op) \/ c.op = "unlink" \/ c.ip # 0

NewType(op) == [creat |-> "file", mkdir |-> "dir", mknod |-> "dev"][op]

\* begin_op(), then namex() takes its starting point.
Walk(c, path, i) == [c EXCEPT !.at = "namex", !.path = path, !.w = i]

Start(t, p, abs) == IF abs THEN iget(t, ROOTINO) ELSE idup(t, cwd[p])
From(p, abs) == IF abs THEN ROOTINO ELSE cwd[p]

begin_op(p, r) ==
    /\ Running(p) /\ call[p].at = "idle"
    /\ left.calls > 0
    /\ left' = [left EXCEPT !.calls = @ - 1]
    /\ active' = active \cup {p}
    /\ itab' = Start(itab, p, r.abs)
    /\ Goto(p, Walk([Idle EXCEPT !.op = r.op, !.new = r.new], r.path,
                    From(p, r.abs)))
    /\ UNCHANGED <<ino, durable, file, ofile, cwd, up, scan>>

\* The last call to end makes the group durable (Log's CrashAtomic).
end_op(p) ==
    /\ Running(p) /\ call[p].at = "end"
    /\ active' = active \ {p}
    /\ durable' = IF active' = {} THEN ino ELSE durable
    /\ Goto(p, Idle)
    /\ cwd' = IF call[p].ip # 0
              THEN [cwd EXCEPT ![p] = call[p].ip] ELSE cwd
    /\ UNCHANGED <<ino, itab, file, ofile, up, scan, left>>

\* namex() returns 0: the call fails, link() after undoing its count.
Failed(c, puts) ==
    IF c.ip = 0 THEN Ending(puts)
    ELSE [c EXCEPT !.at = "link_bad", !.puts = puts, !.w = 0, !.path = << >>]

AfterNamei(op) == IF op = "openw" THEN "open" ELSE op

\* The path is used up: the inode is found, or had no parent to stop at.
namex_end(p) ==
    LET c == call[p] IN
    /\ Running(p) /\ c.at = "namex" /\ c.path = << >>
    /\ Goto(p, IF WalkToParent(c)
               THEN Failed(c, <<c.w>>)
               ELSE [c EXCEPT !.ip = c.w, !.w = 0, !.at = AfterNamei(c.op)])
    /\ UNCHANGED <<fs, tables, up, scan, left>>

AfterParent(op) ==
    IF op = "link" THEN "link2" ELSE IF op = "unlink" THEN "unlink" ELSE "create"

\* One element of the path, under the lock of the directory.
namex(p) ==
    LET c == call[p]
        next == dirlookup(c.w, Head(c.path))
        t == Loaded(itab, c.w)
    IN
    /\ Locks(p, "namex")
    /\ \/ /\ t[c.w].type # "dir"
          /\ itab' = t
          /\ Goto(p, Failed(c, <<c.w>>))
       \/ /\ t[c.w].type = "dir" /\ WalkToParent(c) /\ Len(c.path) = 1
          /\ itab' = t
          /\ Goto(p, [c EXCEPT !.dp = c.w, !.w = 0, !.at = AfterParent(c.op)])
       \/ /\ t[c.w].type = "dir" /\ ~(WalkToParent(c) /\ Len(c.path) = 1)
          /\ IF next = 0
             THEN /\ itab' = t
                  /\ Goto(p, Failed(c, <<c.w>>))
             ELSE /\ itab' = iget(t, next)
                  /\ Goto(p, [c EXCEPT !.puts = <<c.w>>, !.w = next,
                                       !.path = Tail(@)])
    /\ UNCHANGED <<fs, file, ofile, cwd, up, scan, left>>

-----------------------------------------------------------------------------
(* create(), in a locked directory.                                        *)

FreeInums == {i \in Inums : ino[i].type = "free"}

\* dirlookup() finds the name, or ialloc() takes the first free inode, or
\* there is none.
create(p) ==
    LET c == call[p]
        e == dirlookup(c.dp, Head(c.path))
        t == ilock(itab, c.dp, p)
        new == Min(FreeInums)
    IN
    /\ Locks(p, "create")
    /\ \/ /\ e # 0
          /\ itab' = iget(iunlock(t, c.dp), e)
          /\ Goto(p, [c EXCEPT !.ip = e, !.puts = <<c.dp>>, !.dp = 0,
                               !.path = << >>, !.at = "exists"])
          /\ UNCHANGED ino
       \/ /\ e = 0 /\ FreeInums = {}
          /\ itab' = iunlock(t, c.dp)
          /\ Goto(p, Ending(<<c.dp>>))
          /\ UNCHANGED ino
       \/ /\ e = 0 /\ FreeInums # {}
          /\ ino' = [ino EXCEPT ![new] = [FreeInode EXCEPT !.type = NewType(c.op)]]
          /\ itab' = iget(t, new)
          /\ Goto(p, [c EXCEPT !.ip = new, !.at = "create2"])
    /\ UNCHANGED <<durable, active, file, ofile, cwd, up, scan, left>>

\* The name exists: only open() of a file or device goes on, with it locked.
create_exists(p) ==
    LET c == call[p]
        t == ilock(itab, c.ip, p)
        ok == c.op = "creat" /\ t[c.ip].type \in {"file", "dev"}
    IN
    /\ Locks(p, "exists")
    /\ itab' = IF ok THEN t ELSE iunlock(t, c.ip)
    /\ Goto(p, IF ok THEN [c EXCEPT !.at = "opened"]
                     ELSE Ending(<<c.ip>>))
    /\ UNCHANGED <<fs, file, ofile, cwd, up, scan, left>>

\* The new inode gets its link count and, if a directory, its dots; then its
\* name. dirlink() fails when the disk is full (`full`).
create_new(p, full) ==
    LET c == call[p]
        isdir == c.op = "mkdir"
        t == [ilock(itab, c.ip, p) EXCEPT ![c.ip].nlink = IF full THEN 0 ELSE 1]
        new == [type |-> t[c.ip].type, nlink |-> t[c.ip].nlink,
                ents |-> IF isdir THEN [NoEnts EXCEPT !["."] = c.ip, ![".."] = c.dp]
                                  ELSE NoEnts]
        up1 == itab[c.dp].nlink + (IF isdir THEN 1 ELSE 0)
    IN
    /\ Locks(p, "create2")
    /\ \/ /\ full
          /\ itab' = iunlock(t, c.ip)
          /\ ino' = [ino EXCEPT ![c.ip] = new]
          /\ Goto(p, [c EXCEPT !.puts = <<c.ip>>, !.at = "dp_bad"])
       \/ /\ ~full
          /\ itab' = iunlock(SetLinks(t, c.dp, up1), c.dp)
          /\ ino' = [ino EXCEPT ![c.ip] = new, ![c.dp].nlink = up1,
                                ![c.dp].ents[Head(c.path)] = c.ip]
          /\ Goto(p, [c EXCEPT !.puts = <<c.dp>>, !.dp = 0, !.path = << >>,
                               !.at = "opened"])
    /\ UNCHANGED <<durable, active, file, ofile, cwd, up, scan, left>>

\* Every failure with the directory still locked ends here.
iunlockput_dp(p) ==
    LET c == call[p] IN
    /\ Running(p) /\ c.at = "dp_bad"
    /\ itab' = iunlock(itab, c.dp)
    /\ Goto(p, IF c.op = "link"
               THEN [c EXCEPT !.puts = <<c.dp>>, !.dp = 0, !.path = << >>,
                              !.at = "link_bad"]
               ELSE Ending(<<c.dp>>))
    /\ UNCHANGED <<fs, file, ofile, cwd, up, scan, left>>

-----------------------------------------------------------------------------
(* open(), mkdir(), mknod(), chdir() once the inode is there.              *)

sys_open_existing(p) ==
    LET c == call[p]
        t == ilock(itab, c.ip, p)
        bad == t[c.ip].type = "dir" /\ c.op = "openw"
    IN
    /\ Locks(p, "open")
    /\ itab' = IF bad THEN iunlock(t, c.ip) ELSE t
    /\ Goto(p, IF bad THEN Ending(<<c.ip>>)
                      ELSE [c EXCEPT !.at = "opened"])
    /\ UNCHANGED <<fs, file, ofile, cwd, up, scan, left>>

FreeFiles == {f \in 1 .. NFILE : file[f].ref = 0}
FreeFds(p) == {d \in 1 .. NOFILE : ofile[p][d] = 0}

\* filealloc() and fdalloc(); when one fails, the other is undone. A device
\* may have a number that is refused.
sys_open(p) ==
    LET c == call[p] IN
    /\ Running(p) /\ c.at = "opened"
    /\ itab' = iunlock(itab, c.ip)
    /\ \/ /\ c.op \in {"open", "openw", "creat"} /\ FreeFiles # {} /\ FreeFds(p) # {}
          /\ file' = [file EXCEPT ![Min(FreeFiles)] = [ref |-> 1, ip |-> c.ip]]
          /\ ofile' = [ofile EXCEPT ![p][Min(FreeFds(p))] = Min(FreeFiles)]
          /\ Goto(p, Ending(<< >>))
       \/ /\ \/ c.op \in {"mkdir", "mknod"} \/ FreeFiles = {} \/ FreeFds(p) = {}
             \/ itab[c.ip].type = "dev"
          /\ Goto(p, Ending(<<c.ip>>))
          /\ UNCHANGED <<file, ofile>>
    /\ UNCHANGED <<fs, cwd, up, scan, left>>

\* Mutant: the reference to the old directory is kept.
sys_chdir_keeps(p) ==
    LET c == call[p]
        t == Loaded(itab, c.ip)
        ok == t[c.ip].type = "dir"
    IN
    /\ Locks(p, "chdir")
    /\ itab' = t
    /\ Goto(p, IF ok THEN [Ending(<< >>) EXCEPT !.ip = c.ip]
                     ELSE Ending(<<c.ip>>))
    /\ UNCHANGED <<fs, file, ofile, cwd, up, scan, left>>

sys_chdir(p) ==
    LET c == call[p]
        t == Loaded(itab, c.ip)
        ok == t[c.ip].type = "dir"
    IN
    /\ Locks(p, "chdir")
    /\ itab' = t
    /\ Goto(p, IF ok THEN [Ending(<<cwd[p]>>) EXCEPT !.ip = c.ip]
                     ELSE Ending(<<c.ip>>))
    /\ UNCHANGED <<fs, file, ofile, cwd, up, scan, left>>

-----------------------------------------------------------------------------
(* unlink() and link().                                                    *)

\* Mutant: "." and ".." are not refused.
unlink_dp_dots(p) ==
    LET c == call[p]
        e == dirlookup(c.dp, Head(c.path))
        t == ilock(itab, c.dp, p)
    IN
    /\ Locks(p, "unlink")
    /\ itab' = IF e = 0 THEN t ELSE iget(t, e)
    /\ Goto(p, [c EXCEPT !.ip = e, !.at = IF e = 0 THEN "dp_bad" ELSE "unlink2"])
    /\ UNCHANGED <<fs, file, ofile, cwd, up, scan, left>>

unlink_dp(p) ==
    LET c == call[p]
        e == IF Head(c.path) \in Dots THEN 0 ELSE dirlookup(c.dp, Head(c.path))
        t == ilock(itab, c.dp, p)
    IN
    /\ Locks(p, "unlink")
    /\ itab' = IF e = 0 THEN t ELSE iget(t, e)
    /\ Goto(p, [c EXCEPT !.ip = e, !.at = IF e = 0 THEN "dp_bad" ELSE "unlink2"])
    /\ UNCHANGED <<fs, file, ofile, cwd, up, scan, left>>

\* The entry is cleared under the locks of both; the child stays locked.
unlink_ip(p) ==
    LET c == call[p]
        t == ilock(itab, c.ip, p)
        isdir == t[c.ip].type = "dir"
        down1 == itab[c.dp].nlink - (IF isdir THEN 1 ELSE 0)
    IN
    /\ Locks(p, "unlink2")
    /\ \/ /\ isdir /\ ~isdirempty(c.ip)
          /\ itab' = iunlock(t, c.ip)
          /\ Goto(p, [c EXCEPT !.puts = <<c.ip>>, !.at = "dp_bad"])
          /\ UNCHANGED ino
       \/ /\ ~isdir \/ isdirempty(c.ip)
          /\ itab' = iunlock(SetLinks(t, c.dp, down1), c.dp)
          /\ ino' = [ino EXCEPT ![c.dp].ents[Head(c.path)] = 0, ![c.dp].nlink = down1]
          /\ Goto(p, [c EXCEPT !.puts = <<c.dp>>, !.dp = 0,
                               !.path = << >>, !.at = "unlink3"])
    /\ UNCHANGED <<durable, active, file, ofile, cwd, up, scan, left>>

unlink_drop(p) ==
    LET c == call[p]
        t == SetLinks(itab, c.ip, itab[c.ip].nlink - 1)
    IN
    /\ Running(p) /\ c.at = "unlink3"
    /\ itab' = iunlock(t, c.ip)
    /\ ino' = iupdate(ino, t, c.ip)
    /\ Goto(p, Ending(<<c.ip>>))
    /\ UNCHANGED <<durable, active, file, ofile, cwd, up, scan, left>>

\* The link is counted first, then its name is looked for.
sys_link(p) ==
    LET c == call[p]
        t == Loaded(itab, c.ip)
        t1 == SetLinks(t, c.ip, t[c.ip].nlink + 1)
    IN
    /\ Locks(p, "link")
    /\ \/ /\ t[c.ip].type = "dir"
          /\ itab' = t
          /\ Goto(p, Ending(<<c.ip>>))
          /\ UNCHANGED ino
       \/ /\ t[c.ip].type # "dir"
          /\ ino' = iupdate(ino, t1, c.ip)
          /\ itab' = Start(t1, p, c.new.abs)
          /\ Goto(p, Walk(c, c.new.path, From(p, c.new.abs)))
    /\ UNCHANGED <<durable, active, file, ofile, cwd, up, scan, left>>

\* dirlink() gives back the inode it finds under a name that exists.
link_dp(p, full) ==
    LET c == call[p]
        e == dirlookup(c.dp, Head(c.path))
        t == ilock(itab, c.dp, p)
    IN
    /\ Locks(p, "link2")
    /\ \/ /\ e # 0 \/ full
          /\ itab' = IF e # 0 THEN iget(t, e) ELSE t
          /\ Goto(p, [c EXCEPT !.puts = IF e # 0 THEN <<e>> ELSE << >>,
                               !.at = "dp_bad"])
          /\ UNCHANGED ino
       \/ /\ e = 0 /\ ~full
          /\ ino' = [ino EXCEPT ![c.dp].ents[Head(c.path)] = c.ip]
          /\ itab' = iunlock(t, c.dp)
          /\ Goto(p, Ending(<<c.dp, c.ip>>))
    /\ UNCHANGED <<durable, active, file, ofile, cwd, up, scan, left>>

link_bad(p) ==
    LET c == call[p]
        t == SetLinks(Loaded(itab, c.ip), c.ip, Loaded(itab, c.ip)[c.ip].nlink - 1)
    IN
    /\ Locks(p, "link_bad")
    /\ itab' = t
    /\ ino' = iupdate(ino, t, c.ip)
    /\ Goto(p, Ending(<<c.ip>>))
    /\ UNCHANGED <<durable, active, file, ofile, cwd, up, scan, left>>

-----------------------------------------------------------------------------
(* Descriptors.                                                            *)

Opened(p, d) == Running(p) /\ call[p].at = "idle" /\ ofile[p][d] # 0

\* fileclose(): the last reference runs iput() in a transaction of its own.
sys_close(p, d) ==
    LET f == ofile[p][d] IN
    /\ Opened(p, d)
    /\ ofile' = [ofile EXCEPT ![p][d] = 0]
    /\ file' = [file EXCEPT ![f].ref = @ - 1]
    /\ \/ /\ file[f].ref > 1
          /\ UNCHANGED <<active, call>>
       \/ /\ file[f].ref = 1
          /\ active' = active \cup {p}
          /\ Goto(p, Ending(<<file[f].ip>>))
    /\ UNCHANGED <<ino, durable, itab, cwd, up, scan, left>>

sys_dup(p, d) ==
    /\ Opened(p, d)
    /\ FreeFds(p) # {}
    /\ ofile' = [ofile EXCEPT ![p][Min(FreeFds(p))] = ofile[p][d]]
    /\ file' = [file EXCEPT ![ofile[p][d]].ref = @ + 1]
    /\ UNCHANGED <<fs, itab, cwd, call, up, scan, left>>

-----------------------------------------------------------------------------
(* Crash, and ireclaim() in fsinit() before any process runs.              *)

Crash ==
    /\ left.crashes > 0
    /\ left' = [left EXCEPT !.crashes = @ - 1]
    /\ ino' = durable
    /\ active' = {}
    /\ itab' = AtRoot
    /\ file' = [f \in 1 .. NFILE |-> [ref |-> 0, ip |-> 0]]
    /\ ofile' = [p \in Procs |-> [d \in 1 .. NOFILE |-> 0]]
    /\ cwd' = [p \in Procs |-> ROOTINO]
    /\ call' = [p \in Procs |-> Idle]
    /\ up' = "reclaim"
    /\ scan' = 1
    /\ UNCHANGED durable

Orphan(d, i) == d[i].type # "free" /\ d[i].nlink = 0

\* One inode per step, each in a transaction of its own.
ireclaim ==
    /\ up = "reclaim"
    /\ ino' = IF Orphan(ino, scan) THEN [ino EXCEPT ![scan] = FreeInode] ELSE ino
    /\ durable' = ino'
    /\ scan' = IF scan = NINODES THEN 1 ELSE scan + 1
    /\ up' = IF scan = NINODES THEN "up" ELSE up
    /\ UNCHANGED <<active, tables, call, left>>

-----------------------------------------------------------------------------

Step(p) ==
    \/ iput(p) \/ end_op(p) \/ namex_end(p) \/ namex(p)
    \/ create(p) \/ create_exists(p) \/ iunlockput_dp(p)
    \/ \E full \in BOOLEAN : create_new(p, full) \/ link_dp(p, full)
    \/ sys_open_existing(p) \/ sys_open(p) \/ sys_chdir(p)
    \/ unlink_dp(p) \/ unlink_ip(p) \/ unlink_drop(p)
    \/ sys_link(p) \/ link_bad(p)

Calls(p) ==
    \/ \E r \in Requests : begin_op(p, r)
    \/ \E d \in 1 .. NOFILE : sys_close(p, d) \/ sys_dup(p, d)

Next == (\E p \in Procs : Step(p) \/ Calls(p)) \/ Crash \/ ireclaim

Spec == Init /\ [][Next]_vars

-----------------------------------------------------------------------------

TypeOK ==
    /\ ino \in [Inums -> [type : {"free", "file", "dir", "dev"}, nlink : Nat,
                          ents : [Names \cup Dots -> {0} \cup Inums]]]
    /\ durable \in [Inums -> [type : {"free", "file", "dir", "dev"}, nlink : Nat,
                              ents : [Names \cup Dots -> {0} \cup Inums]]]
    /\ active \subseteq Procs
    /\ \A i \in Inums : itab[i].ref \in Nat /\ itab[i].lock \in Procs \cup {None}
    /\ file \in [1 .. NFILE -> [ref : Nat, ip : {0} \cup Inums]]
    /\ ofile \in [Procs -> [1 .. NOFILE -> 0 .. NFILE]]
    /\ cwd \in [Procs -> Inums]

\* None of the panics of the inode layer can be reached: ilock() never reads
\* a free inode (fs.c:315), acquiresleep() in iput() never waits with
\* itable.lock held (fs.c:345-347), unlink() never meets a link count below
\* one (sysfile.c:215), and a directory locked again after namex() let it go
\* is still a directory (fs.c:580).
NoFsPanic ==
    \A p \in Procs :
        /\ Putting(p, "check") /\ LastRef(Head(call[p].puts))
             => itab[Head(call[p].puts)].lock = None
        /\ CanLock(p) =>
             LET i == LockTarget(call[p])
                 e == Loaded(itab, i)[i]
             IN /\ e.type # "free"
                /\ call[p].at = "unlink2" => e.nlink >= 1
                /\ call[p].at \in {"create", "unlink", "link2"} => e.type = "dir"

\* What an open descriptor or a current directory refers to is never freed
\* or given away, however often its names are removed meanwhile (iput()
\* frees only what has neither links nor references).
InUse ==
    /\ \A f \in 1 .. NFILE : file[f].ref > 0 =>
            itab[file[f].ip].ref > 0 /\ ino[file[f].ip].type # "free"
    /\ \A p \in Procs : call[p].at # "end" =>
            itab[cwd[p]].ref > 0 /\ ino[cwd[p]].type # "free"

Links(d, i) == Cardinality({<<k, n>> \in Inums \X Names :
                              d[k].type = "dir" /\ d[k].ents[n] = i})

\* No name dangles, now and after a crash at any point: an inode has a type
\* and counts at least as many links as there are names for it.
NamesAlive ==
    \A d \in {ino, durable}, i \in Inums :
        Links(d, i) > 0 => d[i].type # "free" /\ d[i].nlink >= Links(d, i)

\* Whatever has a name, a descriptor or a process in it exists.
Alive == InUse /\ NamesAlive

\* When no call is under way, the reference count of every inode is exactly
\* the number of descriptors and current directories that refer to it, so that
\* no error path of the calls keeps a reference or gives one back twice.
RefsExact ==
    up = "up" /\ (\A p \in Procs : call[p] = Idle) =>
        \A i \in Inums :
            itab[i].ref = Cardinality({p \in Procs : cwd[p] = i})
                + Cardinality({f \in 1 .. NFILE : file[f].ref > 0 /\ file[f].ip = i})

\* fs.c:131-132, "iput() frees if the reference and link counts have fallen to
\* zero": an inode without links is referenced by somebody who will free it.
OrphanHeld == up = "up" => \A i \in Inums : Orphan(ino, i) => itab[i].ref > 0

\* The process that holds the lock p waits for.
WaitsFor(p) ==
    LET i == IF call[p].puts = << >> THEN LockTarget(call[p]) ELSE 0
    IN IF i = 0 THEN None ELSE itab[i].lock

\* Nobody waits in a circle, nor for a lock of their own: unlink() and create()
\* hold a directory while they lock a child and never the other way round,
\* which is why "." and ".." are refused before they are looked up
\* (sysfile.c:207-209) and create() lets go of the directory first (257).
NoWaitCycle ==
    \A S \in SUBSET Procs : S = {} \/ \E p \in S : WaitsFor(p) \notin S

\* fs.h:43, "Number of links to inode in file system".
NlinkIsLinks ==
    \A i \in Inums : durable[i].type \in {"file", "dev"} =>
        durable[i].nlink = Links(durable, i)
=============================================================================
