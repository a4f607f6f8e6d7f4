------------------------------ MODULE MCProcs -------------------------------
(* Processes for TLC: the process tree (Proc, four slots), pipes (Pipe, one *)
(* writer and two readers) and the shell (Shell, five processes besides     *)
(* itself). One of the components moves, the others stay at their beginning. *)
EXTENDS Proc

CONSTANTS w1, r1, r2, a

VARIABLES part,
    data, nread, nwrite, readopen, writeopen, lock, qpc, left, qkilled,
    cmd, line, parsed, jobs, pipes, failed

pipe == <<data, nread, nwrite, readopen, writeopen, lock, qpc, left, qkilled>>
shell == <<cmd, line, parsed, jobs, pipes, failed>>

\* Which bytes are in the pipe plays no part in who waits for whom.
Q == INSTANCE Pipe WITH Writers <- {w1}, Readers <- {r1, r2}, Bytes <- {a}, PIPESIZE <- 2,
                        WRAP <- 4, MaxN <- 3, pc <- qpc, killed <- qkilled

\* The commands of at most three programs, and a longer pipeline for which
\* there are too few processes.
EXEC(argv) == [type |-> "EXEC", argv |-> argv]
REDIR(c, tok) == [type |-> "REDIR", cmd |-> c, tok |-> tok, file |-> 0]
PIPE(l, r) == [type |-> "PIPE", left |-> l, right |-> r]
LIST(l, r) == [type |-> "LIST", left |-> l, right |-> r]
BACK(c) == [type |-> "BACK", cmd |-> c]

One == EXEC(<<0>>)
Simple == {One, REDIR(One, ">"), REDIR(EXEC(<<0, 0>>), "<")}
Two(S, T) == {PIPE(x, y) : x \in S, y \in T} \cup {LIST(x, y) : x \in S, y \in T}
Backed(S) == S \cup {BACK(x) : x \in S}
Cmds ==
    Backed(Simple) \cup Two(Simple, Simple)
      \cup Two(Backed({One}), Two({One}, {One})) \cup Two(Backed(Two({One}, {One})), {One})
      \cup {EXEC(<<>>), PIPE(One, EXEC(<<0, 0, 0>>)), BACK(PIPE(One, One)),
            REDIR(PIPE(One, One), ">"), REDIR(REDIR(One, "<"), "+"),
            PIPE(One, PIPE(One, PIPE(One, One)))}
Sh == INSTANCE Shell WITH MAXARGS <- 3, NOFILE <- 5, NPROC <- 6, proc <- jobs

-----------------------------------------------------------------------------
ShellOff ==
    cmd = None /\ line = None /\ parsed = None /\ jobs = None /\ pipes = None /\ failed = None

ProcsInit ==
    /\ Init /\ Q!Init
    /\ \/ part \in {"proc", "pipe"} /\ ShellOff
       \/ part = "shell" /\ Sh!Init

ProcsNext ==
    \/ part = "proc" /\ Next /\ UNCHANGED <<part, pipe, shell>>
    \/ part = "pipe" /\ Q!Next /\ UNCHANGED <<part, vars, shell>>
    \/ part = "shell" /\ Sh!Next /\ UNCHANGED <<part, vars, pipe>>

\* The fairness of the modules' FairSpec, each for its own component.
ProcsSpec ==
    /\ ProcsInit /\ [][ProcsNext]_<<part, vars, pipe, shell>>
    /\ \A p \in Procs :
         /\ WF_vars(/\ part = "proc"
                    /\ \/ fork_parent(p) \/ fork_runnable(p)
                       \/ exit_reparent(p) \/ exit_zombie(p)
                       \/ wait_reap(p) \/ wait_none(p))
         /\ WF_vars(part = "proc" /\ pause_again(p) /\ pc'[p] = "user")
         /\ WF_vars(part = "proc" /\ exit(p) /\ killed[p])
    /\ WF_vars(part = "proc" /\ wait(initproc))
    /\ \A p \in {w1, r1, r2} : SF_pipe(part = "pipe" /\ Q!acquire(p))
    /\ WF_pipe(part = "pipe" /\ Q!pipewrite(w1))
    /\ \A p \in {r1, r2} : /\ WF_pipe(part = "pipe" /\ Q!piperead(p))
                           /\ WF_pipe(part = "pipe" /\ Q!call(p))
    /\ WF_pipe(part = "pipe" /\ Q!pipeclose(FALSE) /\ qkilled[r1] /\ qkilled[r2])
    /\ \A q \in Sh!Pids : WF_shell(part = "shell" /\ (Sh!Step(q) \/ Sh!runcmd_fails(q)))

-----------------------------------------------------------------------------
(* The properties of the modules; Tree is Proc's own.                       *)

\* Nobody sleeps in wait(), read() or write() for something that has happened
\* already (Proc and Pipe).
Justified == WaitJustified /\ Q!TypeOK /\ Q!SleepJustified

\* init catches up with its zombies, and whoever is killed dies (Proc).
Reaped == InitReaps /\ KillEnds

\* A pipewrite() ends when readers keep reading or close their end (Pipe).
WriteEnds == Q!WriteEnds

\* A command is understood and carried out as it was typed (Shell).
RunsAsTyped == part = "shell" => Sh!RunsAsTyped

\* The prompt comes back and all processes of the command end (Shell).
Ends == part = "shell" => <>[](part = "shell" /\ Sh!AtPrompt)
=============================================================================
