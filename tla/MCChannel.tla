------------------------------ MODULE MCChannel ------------------------------
(***************************************************************************)
(* A small instance of Channel for TLC: two verdicts with a message        *)
(* between, then an echo of the bridge's own puppet, a message and a       *)
(* verdict.                                                                *)
(***************************************************************************)
EXTENDS Channel

MCQueue == << <<"v1", "m1", "v2">>, <<"echo", "m2", "v3">> >>
MCEvents == {"v1", "m1", "v2", "echo", "m2", "v3"}
MCKind == [e \in MCEvents |-> CASE e \in {"v1", "v2", "v3"} -> "verdict"
                                [] e \in {"m1", "m2"} -> "message"
                                [] OTHER -> "other"]
=============================================================================
