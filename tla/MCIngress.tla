------------------------------ MODULE MCIngress ------------------------------
(***************************************************************************)
(* What comes in, how work is passed on, and what a seat does: the front   *)
(* door, delegation chains, the org chart, and one jcode seat.  They share *)
(* no state; part says which of them a behaviour is about.                 *)
(***************************************************************************)
EXTENDS FrontDoor, Acp, Hierarchy, MCSeat

VARIABLE part
ingressVars == <<part, doorVars, acpVars, orgVars, seatVars>>

Init == /\ FrontDoorInit /\ AcpInit /\ HierarchyInit /\ SeatInit
        /\ part \in {"door", "chain", "org", "seat"}
        /\ part # "seat" => box = Full
Door == part = "door" /\ UNCHANGED <<part, acpVars, orgVars, seatVars>>
Chain == part = "chain" /\ UNCHANGED <<part, doorVars, orgVars, seatVars>>
Org == part = "org" /\ UNCHANGED <<part, doorVars, acpVars, seatVars>>
Next == \/ Door /\ FrontDoorNext
        \/ Chain /\ AcpNext
        \/ Org /\ HierarchyNext
        \/ part = "seat" /\ UNCHANGED <<part, doorVars, acpVars, orgVars>> /\ SeatNext

\* A message, a chain and a validation that were begun go on; nobody has to begin one.
\* Of the three parts only one moves, so one condition is as good as three.
Fairness == WF_ingressVars((Door /\ HandleStep) \/ (Chain /\ ChainStep) \/ (Org /\ HierarchyStep))
Spec == Init /\ [][Next]_ingressVars /\ Fairness

\* Every message is answered (the classifier is not asked for ever), every chain comes to an
\* end, and the validation of every chart, circular ones included, does.
Busy == Handling \/ ChainOpen \/ Validating
EverythingEnds == Busy ~> ~Busy

-----------------------------------------------------------------------------
\* The front door: ann writes to her own tenant, by mention, by Matrix id and by topic;
\* a payload without a signature and one with a bare user id.  A slash after a name leads to
\* the same folder.
Plain == [token |-> TRUE, hmac |-> TRUE, complete |-> TRUE, scoped |-> TRUE, tenant |-> "t1",
          who |-> "ann", mentions |-> <<>>, at |-> <<>>, intent |-> FALSE]
MCRaws == {Plain, [Plain EXCEPT !.at = <<"recon/">>], [Plain EXCEPT !.mentions = <<"neop_recon:hs">>],
           [Plain EXCEPT !.intent = TRUE], [Plain EXCEPT !.hmac = FALSE], [Plain EXCEPT !.scoped = FALSE]}
MCVerdicts == {[neop |-> "recon", conf |-> 70], [neop |-> "recon", conf |-> 69],
               [neop |-> "recon+echo", conf |-> 90]}
MCRoots == {"tenant", "builtin", "operator"}
MCPlace(root, tenant, neop) ==
  <<root, IF root = "tenant" THEN tenant ELSE "", IF neop = "recon/" THEN "recon" ELSE neop>>
MCFolders == {MCPlace(root, "t1", "recon") : root \in MCRoots}

\* The chain: a and b publish x, c has no key, the last of four hops is one too many.
MCAgents == <<"a", "b", "c", "d">>
MCPublishes == [x \in {"a", "b", "c", "d"} |->
  CASE x = "a" -> <<"ca", "x">> [] x = "b" -> <<"x", "cb">> [] x = "c" -> <<"cc">> [] OTHER -> <<"cd">>]
MCIdOf == [x \in {"a", "b", "c", "d"} |-> x]
MCAsked == {<<"ca">>, <<"ca", "cb", "cd", "cc">>, <<"cb", "x">>, <<"cc", "ca">>, <<"nobody">>}
==============================================================================
