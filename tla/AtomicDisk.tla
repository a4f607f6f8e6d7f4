----------------------------- MODULE AtomicDisk -----------------------------
(***************************************************************************)
(* What the xv6 log promises its callers (the comment at the head of       *)
(* kernel/log.c): file system calls run concurrently, their block writes   *)
(* reach the disk in groups of whole calls, and a crash brings back the    *)
(* state of the last group that was committed, never a part of a call.     *)
(***************************************************************************)
CONSTANTS Procs, Blocks, Data

VARIABLES durable,   \* what the disk holds if the machine stops now
          volatile,  \* what file system calls read and write
          active     \* processes between begin_op() and end_op()

avars == <<durable, volatile, active>>

AInit ==
    /\ durable \in [Blocks -> Data]
    /\ volatile = durable
    /\ active = {}

ABegin(p) ==
    /\ p \notin active
    /\ active' = active \cup {p}
    /\ UNCHANGED <<durable, volatile>>

AWrite(p, b, d) ==
    /\ p \in active
    /\ volatile' = [volatile EXCEPT ![b] = d]
    /\ UNCHANGED <<durable, active>>

AEnd(p) ==
    /\ p \in active
    /\ active' = active \ {p}
    /\ UNCHANGED <<durable, volatile>>

\* All of what the finished calls wrote becomes durable at once, and only
\* when no call is in the middle of its updates.
ACommit ==
    /\ active = {}
    /\ durable' = volatile
    /\ UNCHANGED <<volatile, active>>

ACrash ==
    /\ volatile' = durable
    /\ active' = {}
    /\ UNCHANGED durable

ANext ==
    \/ \E p \in Procs : ABegin(p) \/ AEnd(p)
    \/ \E p \in Procs, b \in Blocks, d \in Data : AWrite(p, b, d)
    \/ ACommit
    \/ ACrash

ASpec == AInit /\ [][ANext]_avars
=============================================================================
