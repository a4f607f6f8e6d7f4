------------------------------- MODULE Shell --------------------------------
(***************************************************************************)
(* The shell (user/sh.c): the parser, and the processes that run a parsed  *)
(* command, with their descriptors and the pipes between them.             *)
(*                                                                         *)
(* A line is a sequence of tokens as gettoken() finds them: "a" for a word, *)
(* "+" for >>, or the symbol itself. A word is remembered by its position. *)
(* A program reads its standard input to the end, when that is a pipe, and *)
(* exits; the data in pipes is the subject of module Pipe.                 *)
(***************************************************************************)
EXTENDS Integers, FiniteSets, Sequences, SequencesExt

CONSTANTS
    MAXARGS,    \* bound on the words of a command, with the final 0 (10)
    NOFILE,     \* descriptors of a process (16)
    NPROC,      \* processes besides init (63)
    Cmds        \* the commands to run

VARIABLES
    cmd,     \* the command somebody meant
    line,    \* the line typed
    parsed,  \* what parsecmd() makes of it
    proc,    \* the processes; 1 is the shell
    pipes,   \* pipes made so far
    failed   \* ghost: a fork failed

vars == <<cmd, line, parsed, proc, pipes, failed>>

-----------------------------------------------------------------------------
(* The parser. A parse function gives the command, the position of the     *)
(* next token, and whether it panicked.                                    *)

EXEC(argv) == [type |-> "EXEC", argv |-> argv]
REDIR(c, tok, file) == [type |-> "REDIR", cmd |-> c, tok |-> tok, file |-> file]
PIPE(l, r) == [type |-> "PIPE", left |-> l, right |-> r]
LIST(l, r) == [type |-> "LIST", left |-> l, right |-> r]
BACK(c) == [type |-> "BACK", cmd |-> c]

Parsed(c, at) == [cmd |-> c, at |-> at, bad |-> FALSE]
Panic == [cmd |-> EXEC(<<>>), at |-> 0, bad |-> TRUE]

gettoken(s, at) == IF at <= Len(s) THEN s[at] ELSE "0"
peek(s, at, toks) == at <= Len(s) /\ s[at] \in toks

RECURSIVE parseredirs(_, _, _)
parseredirs(c, s, at) ==
    CASE ~peek(s, at, {"<", ">", "+"}) -> Parsed(c, at)
      [] peek(s, at, {"<", ">", "+"}) /\ gettoken(s, at + 1) # "a" -> Panic
      [] OTHER -> parseredirs(REDIR(c, s[at], at + 1), s, at + 2)

\* The redirections go around the command while its words are still read.
RECURSIVE Inner(_, _)
Inner(c, argv) == IF c.type = "EXEC" THEN EXEC(argv) ELSE [c EXCEPT !.cmd = Inner(c.cmd, argv)]

RECURSIVE Words(_, _, _, _)
Words(c, argv, s, at) ==
    LET r == parseredirs(c, s, at + 1) IN
    CASE peek(s, at, {"|", ")", "&", ";"}) \/ gettoken(s, at) = "0" -> Parsed(Inner(c, argv), at)
      [] gettoken(s, at) \in {"(", "<", ">", "+"} -> Panic
      [] OTHER -> IF Len(argv) + 1 >= MAXARGS \/ r.bad THEN Panic
                  ELSE Words(r.cmd, Append(argv, at), s, r.at)

RECURSIVE parseline(_, _)
RECURSIVE parsepipe(_, _)
RECURSIVE Backs(_, _, _)

parseblock(s, at) ==
    LET r == parseline(s, at + 1) IN
    IF r.bad \/ ~peek(s, r.at, {")"}) THEN Panic ELSE parseredirs(r.cmd, s, r.at + 1)

parseexec(s, at) ==
    LET r == parseredirs(EXEC(<<>>), s, at) IN
    CASE peek(s, at, {"("}) -> parseblock(s, at)
      [] ~peek(s, at, {"("}) /\ r.bad -> Panic
      [] OTHER -> Words(r.cmd, <<>>, s, r.at)

parsepipe(s, at) ==
    LET l == parseexec(s, at)
        r == parsepipe(s, l.at + 1)
    IN CASE l.bad -> Panic
         [] ~l.bad /\ ~peek(s, l.at, {"|"}) -> l
         [] OTHER -> IF r.bad THEN Panic ELSE Parsed(PIPE(l.cmd, r.cmd), r.at)

Backs(c, s, at) == IF peek(s, at, {"&"}) THEN Backs(BACK(c), s, at + 1) ELSE Parsed(c, at)

parseline(s, at) ==
    LET p == parsepipe(s, at)
        l == Backs(p.cmd, s, p.at)
        r == parseline(s, l.at + 1)
    IN CASE p.bad -> Panic
         [] ~p.bad /\ ~peek(s, l.at, {";"}) -> l
         [] OTHER -> IF r.bad THEN Panic ELSE Parsed(LIST(l.cmd, r.cmd), r.at)

parsecmd(s) ==
    LET r == parseline(s, 1) IN IF r.bad \/ r.at <= Len(s) THEN Panic ELSE r

\* The words whose end gets a 0.
RECURSIVE nulterminate(_)
nulterminate(c) ==
    CASE c.type = "EXEC" -> ToSet(c.argv)
      [] c.type = "REDIR" -> nulterminate(c.cmd) \cup {c.file}
      [] c.type = "BACK" -> nulterminate(c.cmd)
      [] OTHER -> nulterminate(c.left) \cup nulterminate(c.right)

-----------------------------------------------------------------------------
(* Processes. `p` holds the descriptors of a pipe being set up, `io` and   *)
(* `bg` are ghosts: what input and output should be, and whether an & is   *)
(* above the process.                                                      *)

Closed == <<"closed", 0>>
Console == <<"console", 0>>
File == <<"file", 0>>
ReadEnd(n) == <<"read", n>>
WriteEnd(n) == <<"write", n>>

Fds == 0 .. NOFILE - 1
Pids == 1 .. NPROC
NoProc == [pc |-> "none"]
Live(ps) == {q \in Pids : ps[q].pc \notin {"none", "zombie"}}
FreePids == {q \in Pids : proc[q].pc = "none"}
NewPid == CHOOSE q \in FreePids : \A r \in FreePids : q <= r

LowestFree(fds) == CHOOSE f \in Fds : fds[f] = Closed /\ \A g \in 0 .. f - 1 : fds[g] # Closed
Open(fds, what) == [fds EXCEPT ![LowestFree(fds)] = what]
Close(fds, f) == [fds EXCEPT ![f] = Closed]
dup(fds, f) == Open(fds, fds[f])

\* exit() closes, gives the children to init, which reaps its own.
Exited(ps, q) ==
    [r \in Pids |->
        CASE r = q -> IF ps[q].parent = 0 THEN NoProc
                      ELSE [pc |-> "zombie", parent |-> ps[q].parent]
          [] r # q /\ ps[r].pc # "none" /\ ps[r].parent = q ->
                IF ps[r].pc = "zombie" THEN NoProc ELSE [ps[r] EXCEPT !.parent = 0]
          [] OTHER -> ps[r]]

exit(q) == proc' = Exited(proc, q) /\ UNCHANGED <<cmd, line, parsed, pipes, failed>>

\* fork1(): the child is `child`, the parent goes on as `me`, or gives up.
fork1(q, me, child) ==
    /\ failed' = (failed \/ FreePids = {})
    /\ proc' = IF FreePids = {} THEN Exited(proc, q)
               ELSE [proc EXCEPT ![q] = me, ![NewPid] = [child EXCEPT !.parent = q]]
    /\ UNCHANGED <<cmd, line, parsed>>

\* wait(): some child that has exited.
wait(q, me) ==
    /\ \E r \in Pids :
         /\ proc[r].pc = "zombie"
         /\ proc[r].parent = q
         /\ proc' = [proc EXCEPT ![r] = NoProc, ![q] = me]
    /\ UNCHANGED <<cmd, line, parsed, pipes, failed>>

At(q, label) == proc[q].pc = label
Runs(q, type) == At(q, "runcmd") /\ proc[q].cmd.type = type
To(q, label) == [proc[q] EXCEPT !.pc = label]
Become(q, c) == [proc[q] EXCEPT !.pc = "runcmd", !.cmd = c]

-----------------------------------------------------------------------------
(* main() and runcmd()                                                     *)

main_run ==
    /\ At(1, "getcmd")
    /\ fork1(1, To(1, "main_wait"), [proc[1] EXCEPT !.pc = "parsecmd"])
    /\ UNCHANGED pipes

main_wait == At(1, "main_wait") /\ wait(1, To(1, "prompt"))

\* In the child; a syntax error panics.
parse(q) ==
    /\ At(q, "parsecmd")
    /\ IF parsed.bad THEN exit(q)
       ELSE proc' = [proc EXCEPT ![q] = Become(q, parsed.cmd)] /\ UNCHANGED <<cmd, line, parsed, pipes, failed>>

runcmd_exec(q) ==
    /\ Runs(q, "EXEC")
    /\ proc[q].cmd.argv # <<>>
    /\ proc' = [proc EXCEPT ![q] = To(q, "program")]
    /\ UNCHANGED <<cmd, line, parsed, pipes, failed>>

\* An empty command, a program that is not found, a file that cannot be opened.
runcmd_fails(q) ==
    /\ Runs(q, "EXEC") \/ Runs(q, "REDIR")
    /\ exit(q)

runcmd_redir(q) ==
    LET c == proc[q].cmd
        fd == IF c.tok = "<" THEN 0 ELSE 1
    IN /\ Runs(q, "REDIR")
       /\ proc' = [proc EXCEPT ![q] = [Become(q, c.cmd) EXCEPT
                                          !.fds = Open(Close(@, fd), File), !.io[fd] = File]]
       /\ UNCHANGED <<cmd, line, parsed, pipes, failed>>

runcmd_list(q) ==
    /\ Runs(q, "LIST")
    /\ fork1(q, To(q, "list_wait"), Become(q, proc[q].cmd.left))
    /\ UNCHANGED pipes

list_wait(q) == At(q, "list_wait") /\ wait(q, Become(q, proc[q].cmd.right))

\* pipe() and the first fork.
runcmd_pipe(q) ==
    LET r == LowestFree(proc[q].fds)
        both == Open(Open(proc[q].fds, ReadEnd(pipes + 1)), WriteEnd(pipes + 1))
        w == CHOOSE f \in Fds : both[f] = WriteEnd(pipes + 1)
        me == [To(q, "pipe_right") EXCEPT !.fds = both, !.p = <<r, w>>]
    IN /\ Runs(q, "PIPE")
       /\ fork1(q, me, [me EXCEPT !.pc = "left", !.io[1] = WriteEnd(pipes + 1)])
       /\ pipes' = IF FreePids = {} THEN pipes ELSE pipes + 1

pipe_right(q) ==
    /\ At(q, "pipe_right")
    /\ fork1(q, To(q, "pipe_close"),
             [To(q, "right") EXCEPT !.io[0] = proc[q].fds[proc[q].p[1]]])
    /\ UNCHANGED pipes

\* Mutant: the read end stays open in the writer.
left_keeps(q) ==
    LET p == proc[q].p IN
    /\ At(q, "left")
    /\ proc' = [proc EXCEPT ![q] = [Become(q, proc[q].cmd.left) EXCEPT
                   !.fds = Close(dup(Close(@, 1), p[2]), p[2])]]
    /\ UNCHANGED <<cmd, line, parsed, pipes, failed>>

\* The children put their end in place and close both.
left(q) ==
    LET p == proc[q].p IN
    /\ At(q, "left")
    /\ proc' = [proc EXCEPT ![q] = [Become(q, proc[q].cmd.left) EXCEPT
                   !.fds = Close(Close(dup(Close(@, 1), p[2]), p[1]), p[2])]]
    /\ UNCHANGED <<cmd, line, parsed, pipes, failed>>

right(q) ==
    LET p == proc[q].p IN
    /\ At(q, "right")
    /\ proc' = [proc EXCEPT ![q] = [Become(q, proc[q].cmd.right) EXCEPT
                   !.fds = Close(Close(dup(Close(@, 0), p[1]), p[1]), p[2])]]
    /\ UNCHANGED <<cmd, line, parsed, pipes, failed>>

\* Mutant: the shell keeps the write end.
pipe_close_not(q) ==
    LET p == proc[q].p IN
    /\ At(q, "pipe_close")
    /\ proc' = [proc EXCEPT ![q] = [To(q, "pipe_wait") EXCEPT !.fds = Close(@, p[1])]]
    /\ UNCHANGED <<cmd, line, parsed, pipes, failed>>

pipe_close(q) ==
    LET p == proc[q].p IN
    /\ At(q, "pipe_close")
    /\ proc' = [proc EXCEPT ![q] = [To(q, "pipe_wait") EXCEPT !.fds = Close(Close(@, p[1]), p[2])]]
    /\ UNCHANGED <<cmd, line, parsed, pipes, failed>>

pipe_wait(q) == At(q, "pipe_wait") /\ wait(q, To(q, "pipe_wait2"))
pipe_wait2(q) == At(q, "pipe_wait2") /\ wait(q, To(q, "exit"))

runcmd_back(q) ==
    /\ Runs(q, "BACK")
    /\ fork1(q, To(q, "exit"), [Become(q, proc[q].cmd.cmd) EXCEPT !.bg = TRUE])
    /\ UNCHANGED pipes

runcmd_exit(q) == At(q, "exit") /\ exit(q)

\* End of file: nobody has the other end open.
program(q) ==
    LET in == proc[q].fds[0] IN
    /\ At(q, "program")
    /\ in[1] = "read" => \A r \in Live(proc), f \in Fds : proc[r].fds[f] # WriteEnd(in[2])
    /\ exit(q)

-----------------------------------------------------------------------------
\* The way to write a command down: brackets only where they are needed.
Level(c) == CASE c.type \in {"EXEC", "REDIR"} -> 1 [] c.type = "PIPE" -> 2
              [] c.type = "BACK" -> 3 [] OTHER -> 4
RECURSIVE Written(_)
Upto(c, level) == IF Level(c) <= level THEN Written(c) ELSE <<"(">> \o Written(c) \o <<")">>
Written(c) ==
    CASE c.type = "EXEC" -> [i \in 1 .. Len(c.argv) |-> "a"]
      [] c.type = "REDIR" -> Upto(c.cmd, 1) \o <<c.tok, "a">>
      [] c.type = "PIPE" -> Upto(c.left, 1) \o <<"|">> \o Upto(c.right, 2)
      [] c.type = "BACK" -> Upto(c.cmd, 3) \o <<"&">>
      [] OTHER -> Upto(c.left, 3) \o <<";">> \o Written(c.right)

Init ==
    /\ cmd \in Cmds
    /\ line = Written(cmd)
    /\ parsed = parsecmd(line)
    /\ pipes = 0
    /\ failed = FALSE
    /\ proc = [q \in Pids |->
                 IF q # 1 THEN NoProc
                 ELSE [pc |-> "getcmd", parent |-> 0, cmd |-> EXEC(<<>>), p |-> <<0, 0>>,
                       fds |-> [f \in Fds |-> IF f < 3 THEN Console ELSE Closed],
                       io |-> [f \in {0, 1} |-> Console], bg |-> FALSE]]

Step(q) ==
    \/ parse(q) \/ runcmd_exec(q) \/ runcmd_redir(q) \/ runcmd_list(q)
    \/ list_wait(q) \/ runcmd_pipe(q) \/ pipe_right(q) \/ left(q) \/ right(q) \/ pipe_close(q)
    \/ pipe_wait(q) \/ pipe_wait2(q) \/ runcmd_back(q) \/ runcmd_exit(q) \/ program(q)
    \/ q = 1 /\ (main_run \/ main_wait)

Next == \E q \in Pids : Step(q) \/ runcmd_fails(q)

Spec == Init /\ [][Next]_vars
\* Every process that can go on goes on.
FairSpec == Spec /\ \A q \in Pids : WF_vars(Step(q) \/ runcmd_fails(q))

-----------------------------------------------------------------------------
(* Properties.                                                             *)

\* The commands whose words fit in argv.
RECURSIVE Fits(_)
Fits(c) ==
    CASE c.type = "EXEC" -> Len(c.argv) < MAXARGS
      [] c.type \in {"REDIR", "BACK"} -> Fits(c.cmd)
      [] OTHER -> Fits(c.left) /\ Fits(c.right)
RECURSIVE Shape(_)
Shape(c) ==
    CASE c.type = "EXEC" -> EXEC([i \in 1 .. Len(c.argv) |-> 0])
      [] c.type = "REDIR" -> REDIR(Shape(c.cmd), c.tok, 0)
      [] c.type = "BACK" -> BACK(Shape(c.cmd))
      [] OTHER -> [c EXCEPT !.left = Shape(@), !.right = Shape(@)]

\* A command written down with the fewest brackets is parsed as that command,
\* and every word of the line gets its terminating 0; the parser panics only
\* when there are too many words.
ParsesBack ==
    /\ parsed.bad <=> ~Fits(cmd)
    /\ Fits(cmd) => Shape(parsed.cmd) = Shape(cmd)
    /\ Fits(cmd) => nulterminate(parsed.cmd) = {i \in DOMAIN line : line[i] = "a"}

\* A program starts with three open descriptors and no more, and its input and
\* output are the file, the pipe or the console that the command says.
Plumbing ==
    \A q \in Pids : At(q, "program") =>
        /\ proc[q].fds[0] = proc[q].io[0]
        /\ proc[q].fds[1] = proc[q].io[1]
        /\ \A f \in Fds : proc[q].fds[f] # Closed <=> f \in 0 .. 2

\* The next prompt comes when no process of the foreground is left, unless a
\* fork failed.
Foreground ==
    At(1, "prompt") /\ ~failed =>
        \A q \in Live(proc) : q = 1 \/ proc[q].bg

\* A command is understood and carried out as it was typed.
RunsAsTyped == ParsesBack /\ Plumbing /\ Foreground

AtPrompt == Live(proc) = {1} /\ At(1, "prompt")

\* The prompt always comes back, and all processes of the command end: every
\* reader sees the end of its pipe.
Ends == <>[]AtPrompt
=============================================================================
