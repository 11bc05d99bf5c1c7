-------------------------------- MODULE MCSeat --------------------------------
(***************************************************************************)
(* Every class, class A with its jail, one with a closet, and those with   *)
(* one thing wrong; a machine that has everything and one that has little; *)
(* an export with a live and a superseded memory.                         *)
(***************************************************************************)
EXTENDS Seat

Good == [cls |-> "B", jail |-> FALSE, closet |-> FALSE, scope |-> "own", complete |-> TRUE,
         provider |-> "anthropic-api", keyref |-> "env", mount |-> "workdir"]
MCSpecs ==
  {Good, [Good EXCEPT !.cls = "A"], [Good EXCEPT !.cls = "A", !.jail = TRUE, !.keyref = "file"],
   [Good EXCEPT !.cls = "C", !.closet = TRUE], [Good EXCEPT !.cls = "unknown"]}
    \cup {[Good EXCEPT !.scope = "reserved"], [Good EXCEPT !.complete = FALSE],
          [Good EXCEPT !.provider = "amazon-bedrock"], [Good EXCEPT !.keyref = "inline"],
          [Good EXCEPT !.mount = "system"]}
Full == [key |-> TRUE, signing |-> TRUE, keyfile |-> TRUE, docker |-> TRUE, jcode |-> TRUE, audit |-> TRUE,
         policy |-> TRUE]
MCBoxes == {Full, [Full EXCEPT !.key = FALSE, !.signing = FALSE, !.audit = FALSE, !.policy = FALSE]}
Memory == [active |-> TRUE, blank |-> FALSE, sure |-> TRUE]
MCItems == [fresh |-> Memory, old |-> [Memory EXCEPT !.active = FALSE]]
==============================================================================
