---------------------------- MODULE MCMdiEgress ----------------------------
(***************************************************************************)
(* Small instances of MdiEgress: a ring of four cells (three usable), two  *)
(* records in the FIFO, and records of two and of three words, so that     *)
(* records straddle the wrap, find the ring full (a heartbeat is enough    *)
(* for the long one) and find the FIFO full.                               *)
(***************************************************************************)
EXTENDS MdiEgress

\* A short radio block at once, a long answer at once, a short delayed block.
MCKinds == {[len |-> 1, radio |-> TRUE,  delay |-> 0],
            [len |-> 3, radio |-> FALSE, delay |-> 0],
            [len |-> 1, radio |-> TRUE,  delay |-> 2]}
=============================================================================
