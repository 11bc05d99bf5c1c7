---------------------------- MODULE MCTopoOrder ----------------------------
(***************************************************************************)
(* TopoOrder on every list of at most three tasks over three ids: ids      *)
(* listed twice, dependencies on oneself or outside the plan, cycles,      *)
(* diamonds.  A depends_on is a list without repetitions of at most two.   *)
(***************************************************************************)
EXTENDS TopoOrder

DepLists == {<<>>} \cup {<<t>> : t \in TaskIds}
            \cup {<<d[1], d[2]>> : d \in {e \in TaskIds \X TaskIds : e[1] # e[2]}}
MCTask == [task_id : TaskIds, depends_on : DepLists]
ShortPlans == UNION {[1..n -> MCTask] : n \in 0..3}
=============================================================================
