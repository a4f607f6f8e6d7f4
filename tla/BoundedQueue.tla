---------------------------- MODULE BoundedQueue ----------------------------
(***************************************************************************)
(* A first-in first-out queue of at most Capacity values: what a ring      *)
(* buffer with a read and a write counter promises.                        *)
(***************************************************************************)
EXTENDS Naturals, Sequences

CONSTANTS Values, Capacity

VARIABLE queue

QInit == queue = << >>

Put(x) == Len(queue) < Capacity /\ queue' = Append(queue, x)

Get == queue # << >> /\ queue' = Tail(queue)

QNext == Get \/ \E x \in Values : Put(x)

QSpec == QInit /\ [][QNext]_queue
=============================================================================
