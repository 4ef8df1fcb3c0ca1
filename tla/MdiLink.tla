------------------------------ MODULE MdiLink ------------------------------
(***************************************************************************)
(* What the DSP-to-MCU link promises whoever hands it a record: a lossy    *)
(* link with a single fate.  A record that was asked for is either lost or *)
(* posted, never both; what is posted is heard once, in the order it was   *)
(* posted; and every record meets one of the two ends.  Records are        *)
(* numbered in the order they are asked for.                               *)
(***************************************************************************)
EXTENDS Integers, Sequences

CONSTANT MaxRec                 \* bound: records asked for in a behaviour

VARIABLES asked,                \* how many records have been asked for
          lost,                 \* the records that were dropped
          posted,               \* the records put on the link, in order
          heard                 \* how many of posted have been read

vars == <<asked, lost, posted, heard>>

Ids == 1 .. MaxRec

PostedIds == {posted[i] : i \in DOMAIN posted}

Init == asked = 0 /\ lost = {} /\ posted = <<>> /\ heard = 0

\* One reaction of the sender: some records are asked for, some of those not
\* yet on the link are lost, and at most two more go on the link.
Send ==
    /\ asked' \in asked .. MaxRec
    /\ lost \subseteq lost' /\ lost' \subseteq (1 .. asked') \ PostedIds
    /\ Len(posted') \in Len(posted) .. Len(posted) + 2
    /\ SubSeq(posted', 1, Len(posted)) = posted
    /\ \A i \in DOMAIN posted' : /\ posted'[i] \in (1 .. asked') \ lost'
                                /\ \A j \in 1 .. i - 1 : posted'[j] # posted'[i]
    /\ heard' = heard

\* The receiver finishes reading the next record.
Hear == heard < Len(posted) /\ heard' = heard + 1 /\ UNCHANGED <<asked, lost, posted>>

Next == Send \/ Hear

Settled(id) == id \in lost \/ \E i \in 1 .. heard : posted[i] = id

EveryRecordSettles == \A id \in Ids : (id <= asked) ~> Settled(id)

Spec == Init /\ [][Next]_vars /\ EveryRecordSettles
=============================================================================
