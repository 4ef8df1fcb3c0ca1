------------------------------ MODULE MCIdProv ------------------------------
(***************************************************************************)
(* A small instance of IdProv: a session opened by two of the prologue's   *)
(* commands, the two that matter to the properties: the version request,   *)
(* whose reply carries no command byte, and the IMEI read, which is the    *)
(* command of the read-back too.                                           *)
(***************************************************************************)
EXTENDS IdProv

MCPrologue == <<"version", "read imei">>
=============================================================================
