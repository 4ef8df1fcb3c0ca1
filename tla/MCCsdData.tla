----------------------------- MODULE MCCsdData ------------------------------
(***************************************************************************)
(* A small instance of CsdData: frames of one to four characters, three of *)
(* them to an I frame, queues that two results together overrun, and one   *)
(* setting for each way in which a request can be answered.                *)
(***************************************************************************)
EXTENDS CsdData

MCSize ==
    [k \in {"LCP_REQ", "LCP_ACK", "LCP_NAK", "ECHO_REQ", "ECHO_REP", "TERM_REQ", "TERM_ACK",
            "PAP_REQ", "PAP_ACK", "IPCP_REQ", "IPCP_ACK", "IPCP_NAK", "IPCP_REJ",
            "CCP", "PROT_REJ", "ACK", "ABORT"} |-> 1]
    @@ [k \in {"INVOKE", "REQUEST"} |-> 3] @@ [k \in {"RESULT"} |-> 4]

\* Pages as long as they come: "a" and "b" fit, "big" is lost and "huge" becomes a 500.
MCReplyLen ==
    [u \in {"CONNECT", "DISCONNECT", "a", "b", "big", "huge"} |->
        CASE u = "big" -> 2018 [] u = "huge" -> 2049 [] u = "b" -> 2017 [] OTHER -> 100]

Base == [bridge |-> "deck", page |-> FALSE, patient |-> TRUE, plan |-> <<"CONNECT", "a">>, segs |-> 1,
         port |-> 9201, options |-> "zero", odd |-> {}]

MCSettings == {
    [Base EXCEPT !.odd = {"SABM", "XID", "TEST", "POLL", "DISC"}, !.options = "dns"],
    [Base EXCEPT !.odd = {"LCP_NAK", "ECHO_REQ", "TERM_REQ", "CCP"}, !.port = 9200],
    [Base EXCEPT !.bridge = "fetch", !.plan = <<"a", "CONNECT", "b", "DISCONNECT">>],
    [Base EXCEPT !.bridge = "fetch", !.page = TRUE, !.plan = <<"CONNECT", "a", "b">>],
    [Base EXCEPT !.bridge = "fetch", !.plan = <<"big", "huge">>],
    [Base EXCEPT !.bridge = "relay", !.segs = 2],
    [Base EXCEPT !.bridge = "relay", !.plan = <<"big", "b">>]}

\* A user who goes back and asks for another page before the first has come.
MCHastySettings ==
    {[Base EXCEPT !.bridge = "fetch", !.page = TRUE, !.patient = FALSE, !.plan = <<"CONNECT", "a", "b">>]}
=============================================================================
