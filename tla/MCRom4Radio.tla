---------------------------- MODULE MCRom4Radio -----------------------------
(***************************************************************************)
(* Five phones for TLC.  Their searches have each of the three modes, with *)
(* and without the channel of the cell; one leaves records in the queue    *)
(* until they expire, one registers, three have a start-up conversation,   *)
(* and between them they ask for each of its records.                      *)
(***************************************************************************)
EXTENDS Rom4Radio

Base == [mode |-> "0x00", arfcn1 |-> FALSE, access |-> FALSE, asks |-> {}, lossy |-> FALSE]

MCSettings == {
    [Base EXCEPT !.lossy = TRUE],
    [Base EXCEPT !.asks = {"0x0A"}],
    [Base EXCEPT !.mode = "0x40", !.asks = {"0x16", "0x17"}],
    [Base EXCEPT !.mode = "0x50", !.access = TRUE],
    [Base EXCEPT !.arfcn1 = TRUE, !.asks = {"0x13", "0x0D"}]}
=============================================================================
