------------------------------ MODULE TopoOrder ------------------------------
(***************************************************************************)
(* PiAgent._topo_order (runtime/core.py): a planner's answer, put into the *)
(* order it is executed in.  The tasks are indexed by id, then visited     *)
(* depth first in listed order.  The recursion is a stack of frames; one   *)
(* step is one test or call of visit.  PiAgent.tla assumes of its plans    *)
(* what is shown here of every plan that comes back (PlansOrdered).        *)
(***************************************************************************)
EXTENDS Naturals, Sequences

CONSTANTS
  TaskIds,   \* task_id values
  Plans,     \* the task lists the planner may answer with
  Absent     \* not a key of by_id

Task == [task_id : TaskIds, depends_on : Seq(TaskIds)]

ASSUME InputsTyped == Plans \subseteq Seq(Task) /\ Absent \notin Seq(TaskIds)

VARIABLES
  tasks,    \* the list given
  by_id,    \* [TaskIds -> depends_on \cup {Absent}]: of two tasks with one id the last stays
  i,        \* listed tasks dealt with by the loop the call is in
  stack,    \* the open calls of visit: the task, and the dependency it is at
  temp,     \* tasks being visited
  done,     \* tasks visited
  order,    \* their ids, in the order appended
  result    \* "indexing", "visiting", "returned" or "cycle" (raised)

vars == <<tasks, by_id, i, stack, temp, done, order, result>>

Frame == [tid : TaskIds, k : Nat]

Init ==
  /\ tasks \in Plans
  /\ by_id = [t \in TaskIds |-> Absent]
  /\ i = 0
  /\ stack = <<>>
  /\ temp = {}
  /\ done = {}
  /\ order = <<>>
  /\ result = "indexing"

Known == {t \in TaskIds : by_id[t] # Absent}
Top == stack[Len(stack)]
Below == SubSeq(stack, 1, Len(stack) - 1)
Deps == by_id[Top.tid]
Dep == Deps[Top.k]   \* the dependency the innermost visit is at

\* The comprehension that builds by_id.
Index ==
  /\ result = "indexing"
  /\ i < Len(tasks)
  /\ by_id' = [by_id EXCEPT ![tasks[i + 1].task_id] = tasks[i + 1].depends_on]
  /\ i' = i + 1
  /\ UNCHANGED <<tasks, stack, temp, done, order, result>>

Indexed ==
  /\ result = "indexing"
  /\ i = Len(tasks)
  /\ result' = "visiting"
  /\ i' = 0
  /\ UNCHANGED <<tasks, by_id, stack, temp, done, order>>

Enter(t) ==
  /\ stack' = Append(stack, [tid |-> t, k |-> 1])
  /\ temp' = temp \cup {t}

\* The outer loop; a listed task already done is passed over.
VisitListed ==
  /\ result = "visiting"
  /\ stack = <<>>
  /\ i < Len(tasks)
  /\ LET t == tasks[i + 1].task_id
     IN  IF t \in done
         THEN i' = i + 1 /\ UNCHANGED <<stack, temp>>
         ELSE Enter(t) /\ UNCHANGED i
  /\ UNCHANGED <<tasks, by_id, done, order, result>>

AtDep == result = "visiting" /\ stack # <<>> /\ Top.k <= Len(Deps)

\* Mutant: every dependency is passed over, visited or not.
SkipDepUnvisited ==
  /\ AtDep
  /\ stack' = [stack EXCEPT ![Len(stack)].k = @ + 1]
  /\ UNCHANGED <<tasks, by_id, i, temp, done, order, result>>

\* A dependency outside the plan is ignored; one already done needs no visit.
SkipDep ==
  /\ AtDep
  /\ Dep \notin Known \/ Dep \in done
  /\ stack' = [stack EXCEPT ![Len(stack)].k = @ + 1]
  /\ UNCHANGED <<tasks, by_id, i, temp, done, order, result>>

\* Mutant: a dependency outside the plan is visited.
VisitDepUnknown ==
  /\ AtDep
  /\ Dep \notin done \cup temp
  /\ Enter(Dep)
  /\ UNCHANGED <<tasks, by_id, i, done, order, result>>

VisitDep ==
  /\ AtDep
  /\ Dep \in Known
  /\ Dep \notin done \cup temp
  /\ Enter(Dep)
  /\ UNCHANGED <<tasks, by_id, i, done, order, result>>

\* Mutants: any task met a second time counts as a cycle; a cycle is never raised.
RaiseSeen ==
  /\ AtDep
  /\ Dep \in Known
  /\ Dep \in temp \cup done
  /\ result' = "cycle"
  /\ UNCHANGED <<tasks, by_id, i, stack, temp, done, order>>
RaiseNever ==
  /\ AtDep
  /\ Dep \in temp
  /\ UNCHANGED vars

\* A dependency that is still being visited: RuntimeError.
Raise ==
  /\ AtDep
  /\ Dep \in Known
  /\ Dep \notin done
  /\ Dep \in temp
  /\ result' = "cycle"
  /\ UNCHANGED <<tasks, by_id, i, stack, temp, done, order>>

Leave ==
  /\ result = "visiting"
  /\ stack # <<>>
  /\ Top.k > Len(Deps)
  /\ temp' = temp \ {Top.tid}
  /\ done' = done \cup {Top.tid}
  /\ order' = Append(order, Top.tid)
  /\ stack' = Below
  /\ UNCHANGED <<tasks, by_id, i, result>>

Return ==
  /\ result = "visiting"
  /\ stack = <<>>
  /\ i = Len(tasks)
  /\ result' = "returned"
  /\ UNCHANGED <<tasks, by_id, i, stack, temp, done, order>>

Next == Index \/ Indexed \/ VisitListed \/ SkipDep \/ VisitDep \/ Raise \/ Leave \/ Return

\* One thread runs the function to its end.
Spec == Init /\ [][Next]_vars /\ WF_vars(Next)

-----------------------------------------------------------------------------
Domains ==
  /\ tasks \in Seq(Task)
  /\ by_id \in [TaskIds -> Seq(TaskIds) \cup {Absent}]
  /\ i \in 0..Len(tasks)
  /\ stack \in Seq(Frame)
  /\ temp \subseteq TaskIds
  /\ done \subseteq TaskIds
  /\ order \in Seq(TaskIds)
  /\ result \in {"indexing", "visiting", "returned", "cycle"}

\* Every variable stays in its domain, and no visit is opened for a task by_id lacks (the
\* "dep in by_id" test: a KeyError otherwise).
TypeOK == Domains /\ \A n \in 1..Len(stack) : stack[n].tid \in Known

Listed == {tasks[j].task_id : j \in 1..Len(tasks)}
DependsOn(t, u) == u \in Known /\ \E k \in 1..Len(by_id[t]) : by_id[t][k] = u

\* "Every task runs after its depends_on": what comes back names each listed id once, and
\* each of its dependencies that is in the plan comes before it.
Sorted ==
  result = "returned" =>
    /\ {order[a] : a \in 1..Len(order)} = Listed
    /\ \A a, b \in 1..Len(order) :
         /\ order[a] = order[b] => a = b
         /\ DependsOn(order[b], order[a]) => a < b

\* "Raises on cycle", and on nothing else: when it raises, some tasks of the plan each
\* depend on one of them.
CyclesAreReal ==
  result = "cycle" =>
    \E S \in (SUBSET Listed) \ {{}} : \A t \in S : \E u \in S : DependsOn(t, u)

\* Whatever the model answers, ordering it ends: with an order or an error, never in an
\* endless visit of a cycle.
Terminates == <>(result \in {"returned", "cycle"})
=============================================================================
