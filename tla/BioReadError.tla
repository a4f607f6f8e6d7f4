---------------------------- MODULE BioReadError ----------------------------
(***************************************************************************)
(* Bio with a card that refuses CMD17 once in a while: spi_rb() returns    *)
(* without having touched the buffer, and bread() marks it valid.          *)
(***************************************************************************)
EXTENDS Bio

read_fails(p) ==
    /\ pc[p] = "read" /\ ~valid[buf[p]]
    /\ valid' = [valid EXCEPT ![buf[p]] = TRUE]
    /\ pc' = [pc EXCEPT ![p] = "has"]
    /\ UNCHANGED <<disk, list, blockno, refcnt, lock, data, buf, note, pinned>>

ReadErrorNext == Next \/ \E p \in Procs : read_fails(p)

ReadErrorSpec == Init /\ [][ReadErrorNext]_vars
=============================================================================
