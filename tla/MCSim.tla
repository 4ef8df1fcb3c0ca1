------------------------------- MODULE MCSim -------------------------------
(***************************************************************************)
(* A small instance of Sim: a directory, a file of records behind CHV1 and *)
(* an open transparent file, one slot for writes, two codes, and four      *)
(* repertoires: files, CHV1, lengths, and the commands that touch neither. *)
(***************************************************************************)
EXTENDS Sim

MCFiles == {"mf", "rec", "bin"}
MCKind == [f \in MCFiles |-> IF f = "mf" THEN "dir" ELSE f]

Select_(f) == [ins |-> "SELECT", p3 |-> 1, file |-> f]
Plain(ins, p3) == [ins |-> ins, p3 |-> p3]
Write(kind, p3, in) ==
    [ins |-> "UPDATE " \o kind, p3 |-> p3, val |-> "new", inside |-> in]
Chv(ins, code, new) == [ins |-> ins, p3 |-> 1, p2 |-> 1, code |-> code, new |-> new]

FileCmds == {Select_("rec"), Select_("bin"), Select_("other"), Write("RECORD", 2, TRUE),
             Write("RECORD", 1, FALSE), Write("BINARY", 1, TRUE), Plain("READ RECORD", 1),
             Plain("READ RECORD", 0), Plain("READ BINARY", 1)}
ChvCmds == {Chv("VERIFY", "a", "a"), Chv("CHANGE", "a", "b"), Chv("ENABLE", "a", "a"),
            Chv("DISABLE", "b", "b"), Chv("UNBLOCK", "puk", "a"), Chv("UNBLOCK", "a", "a"),
            Plain("READ RECORD", 1)}
OtherCmds == {Plain("GET RESPONSE", 2), Plain("STATUS", 1), Plain("ACCEPT", 3),
              Plain("OTHER", 0), Plain("PPS", 2)}
\* What is asked for against what is there: less, as much, more, and all of it.
LenCmds == {Select_("bin"), Plain("STATUS", 3), Plain("STATUS", 0), Plain("GET RESPONSE", 1),
            Plain("GET RESPONSE", 2), Plain("GET RESPONSE", 0), Plain("RUN GSM", 1),
            Plain("RUN GSM", 2), Plain("READ RECORD", 0)}

Setting(paced, bridge, noauth, locked, moves, cmds) ==
    [paced |-> paced, bridge |-> bridge, noauth |-> noauth, locked |-> locked,
     moves |-> moves, cmds |-> cmds]
MCSettings == {Setting(FALSE, FALSE, FALSE, FALSE, FALSE, FileCmds),
               Setting(FALSE, FALSE, FALSE, TRUE, FALSE, ChvCmds),
               Setting(FALSE, FALSE, FALSE, FALSE, FALSE, LenCmds),
               Setting(FALSE, FALSE, TRUE, FALSE, FALSE, {Plain("RUN GSM", 2)})}
                 \cup {Setting(p, TRUE, FALSE, FALSE, TRUE, OtherCmds) : p \in BOOLEAN}

MCFcpLen == [dir |-> 2, bin |-> 1, rec |-> 1]
=============================================================================
