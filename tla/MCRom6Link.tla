----------------------------- MODULE MCRom6Link -----------------------------
(***************************************************************************)
(* A small instance of Rom6Link: a ring for two services, a call and a     *)
(* message of two parts, two cycles of two paging blocks.                  *)
(***************************************************************************)
EXTENDS Rom6Link

MCServices == {"call", "part1", "part2"}
MCKind == [s \in MCServices |-> IF s = "call" THEN "call" ELSE "sms"]
MCSizes == {[setup |-> 2, cp |-> 9]}
MCOffers == {<<"call">>, <<"part1", "part2">>}
=============================================================================
