------------------------------- MODULE MCMbus -------------------------------
(***************************************************************************)
(* A small instance of Mbus: frames of one and of three bytes, so that the *)
(* re-unmask of FIQ3 falls inside a frame, right after byte 0, and never.  *)
(***************************************************************************)
EXTENDS Mbus

MCFrameLens == {1, 3}
=============================================================================
