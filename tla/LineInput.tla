----------------------------- MODULE LineInput -----------------------------
(***************************************************************************)
(* What a console input with line editing promises: keys collect in a line *)
(* that can still be edited; the end of the line commits it, and committed *)
(* input can only be read, in order. At most Capacity keys are held.       *)
(***************************************************************************)
EXTENDS Naturals, Sequences

CONSTANTS Keys,      \* keys that are stored
          Enders,    \* the stored keys that commit the line
          Capacity

VARIABLES committed, editing

Held == Len(committed) + Len(editing)

LInit == committed = <<>> /\ editing = <<>>

Type == \E c \in Keys :
    /\ Held < Capacity
    /\ IF c \in Enders \/ Held + 1 = Capacity
         THEN committed' = committed \o Append(editing, c) /\ editing' = <<>>
         ELSE committed' = committed /\ editing' = Append(editing, c)

Erase == /\ editing # <<>>
         /\ editing' = SubSeq(editing, 1, Len(editing) - 1)
         /\ committed' = committed

Kill == editing # <<>> /\ editing' = <<>> /\ committed' = committed

Read == /\ committed # <<>>
        /\ committed' = Tail(committed)
        /\ editing' = editing

LNext == Type \/ Erase \/ Kill \/ Read

LSpec == LInit /\ [][LNext]_<<committed, editing>>
=============================================================================
