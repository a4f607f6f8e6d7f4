----------------------------- MODULE BlockStore -----------------------------
(***************************************************************************)
(* What the buffer cache promises its callers, in the words at the head of *)
(* bio.c: bread() hands out a block to one process at a time, with its     *)
(* current contents, and a change made by that process stays until the     *)
(* next one. Which blocks are in memory is not visible.                    *)
(***************************************************************************)
CONSTANTS Procs, Blocks, Data, None

VARIABLES mem, holder

svars == <<mem, holder>>

SInit == mem \in [Blocks -> Data] /\ holder = [b \in Blocks |-> None]

SRead(p, b) ==
    /\ holder[b] = None
    /\ holder' = [holder EXCEPT ![b] = p]
    /\ UNCHANGED mem

SChange(p, b, d) ==
    /\ holder[b] = p
    /\ mem' = [mem EXCEPT ![b] = d]
    /\ UNCHANGED holder

SRelease(p, b) ==
    /\ holder[b] = p
    /\ holder' = [holder EXCEPT ![b] = None]
    /\ UNCHANGED mem

SNext == \E p \in Procs, b \in Blocks :
            \/ SRead(p, b)
            \/ SRelease(p, b)
            \/ \E d \in Data : SChange(p, b, d)

SSpec == SInit /\ [][SNext]_svars
=============================================================================
