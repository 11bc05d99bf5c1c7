-------------------------- MODULE TopoOrderProofs --------------------------
(***************************************************************************)
(* _topo_order is correct for every list of tasks: Sorted and              *)
(* CyclesAreReal of TopoOrder.                                             *)
(*                                                                         *)
(* The invariant says what an open visit knows: the dependencies before    *)
(* the one it is at are done or outside the plan, and the frame above it   *)
(* visits the one it is at.  The first gives the order, the second makes   *)
(* the frames from a dependency met again up to the top a cycle.           *)
(***************************************************************************)
EXTENDS TopoOrder, SequenceTheorems, TLAPS

IndexInv ==
  /\ result = "indexing" =>
       /\ Known = {tasks[j].task_id : j \in 1..i}
       /\ stack = <<>> /\ temp = {} /\ done = {} /\ order = <<>>
  /\ result # "indexing" => Known = Listed

\* The open visits: distinct tasks of the plan, each past its finished dependencies only.
StackInv ==
  /\ temp = {stack[j].tid : j \in 1..Len(stack)}
  /\ temp \subseteq Known /\ done \subseteq Known /\ temp \cap done = {}
  /\ \A j, l \in 1..Len(stack) : stack[j].tid = stack[l].tid => j = l
  /\ \A j \in 1..Len(stack) : \A d \in 1..Len(by_id[stack[j].tid]) :
       d < stack[j].k => by_id[stack[j].tid][d] \notin Known \/ by_id[stack[j].tid][d] \in done

\* Each open visit but the innermost is at the task of the next.
PathInv ==
  \A j \in 1..(Len(stack) - 1) :
    /\ stack[j].k \in 1..Len(by_id[stack[j].tid])
    /\ by_id[stack[j].tid][stack[j].k] = stack[j + 1].tid

OrderInv ==
  /\ done = {order[a] : a \in 1..Len(order)}
  /\ \A a, b \in 1..Len(order) : order[a] = order[b] => a = b
  /\ \A b \in 1..Len(order) : \A u \in TaskIds :
       DependsOn(order[b], u) => \E a \in 1..Len(order) : a < b /\ order[a] = u

LoopInv ==
  /\ result # "indexing" => \A j \in 1..i : tasks[j].task_id \in done
  /\ result = "returned" => i = Len(tasks)
  /\ result = "cycle" => /\ stack # <<>>
                         /\ Top.k \in 1..Len(Deps)
                         /\ Dep \in temp

PositiveK == \A j \in 1..Len(stack) : stack[j].k >= 1

IInv == Domains /\ IndexInv /\ StackInv /\ PathInv /\ OrderInv /\ LoopInv /\ PositiveK

-----------------------------------------------------------------------------
\* A known task has a list of dependencies.
LEMMA KnownTyped ==
  ASSUME Domains, NEW t \in Known
  PROVE  t \in TaskIds /\ by_id[t] \in Seq(TaskIds) /\ Len(by_id[t]) \in Nat
BY DEF Domains, Known

\* The innermost visit.
LEMMA TopTyped ==
  ASSUME IInv, stack # <<>>
  PROVE  /\ Len(stack) \in Nat \ {0} /\ Top \in Frame /\ Top.tid \in temp
         /\ Top.k >= 1 /\ Deps \in Seq(TaskIds) /\ Len(Deps) \in Nat
<1>1. stack \in Seq(Frame)
  BY DEF IInv, Domains
<1>2. Len(stack) \in Nat \ {0}
  BY <1>1, EmptySeq
<1>3. Top \in Frame
  BY <1>1, <1>2 DEF Top
<1>4. Top.tid \in temp /\ Top.tid \in Known /\ Top.k >= 1
  BY <1>2 DEF IInv, StackInv, PositiveK, Top
<1> QED
  BY <1>2, <1>3, <1>4, KnownTyped DEF IInv, Deps

\* Nothing is indexed or visited at first.
LEMMA InitIInv == Init => IInv
<1> SUFFICES ASSUME Init PROVE IInv
  OBVIOUS
<1>1. tasks \in Seq(Task) /\ Len(tasks) \in Nat
  BY InputsTyped DEF Init
<1>2. Domains
  BY <1>1 DEF Init, Domains
<1>3. Known = {} /\ {tasks[j].task_id : j \in 1..i} = {}
  BY DEF Init, Known
<1> QED
  BY <1>2, <1>3 DEF Init, IInv, IndexInv, StackInv, PathInv, OrderInv, LoopInv, PositiveK

\* Indexing one more task: by_id knows exactly the tasks indexed.
LEMMA IndexStep == IInv /\ Index => IInv'
<1> SUFFICES ASSUME IInv, Index PROVE IInv'
  OBVIOUS
<1> DEFINE t == tasks[i + 1]
<1>1. tasks \in Seq(Task) /\ Len(tasks) \in Nat /\ i \in Nat /\ i + 1 \in 1..Len(tasks)
  BY DEF Index, IInv, Domains
<1>2. t \in Task /\ t.task_id \in TaskIds /\ t.depends_on \in Seq(TaskIds)
  <2>1. t \in Task
    BY <1>1, ElementOfSeq
  <2> QED
    BY <2>1 DEF Task
<1>3. t.depends_on # Absent
  BY <1>2, InputsTyped
<1>4. /\ by_id' = [by_id EXCEPT ![t.task_id] = t.depends_on] /\ i' = i + 1
      /\ UNCHANGED <<tasks, stack, temp, done, order, result>> /\ result = "indexing"
  BY DEF Index
<1>5. Domains'
  BY <1>1, <1>2, <1>4 DEF IInv, Domains
<1>6. Known' = Known \cup {t.task_id}
  BY <1>2, <1>3, <1>4 DEF IInv, Domains, Known
<1>7. {tasks[j].task_id : j \in 1..(i + 1)} = {tasks[j].task_id : j \in 1..i} \cup {t.task_id}
  <2>1. 1..(i + 1) = (1..i) \cup {i + 1}
    BY <1>1
  <2> QED
    BY <2>1
<1>8. /\ Known = {tasks[j].task_id : j \in 1..i}
      /\ stack = <<>> /\ temp = {} /\ done = {} /\ order = <<>>
  BY <1>4 DEF IInv, IndexInv
<1>9. IndexInv'
  BY <1>4, <1>6, <1>7, <1>8 DEF IndexInv
<1> QED
  BY <1>4, <1>5, <1>8, <1>9 DEF IInv, StackInv, PathInv, OrderInv, LoopInv, PositiveK

\* When by_id is complete it knows exactly the listed tasks.
LEMMA IndexedStep == IInv /\ Indexed => IInv'
<1> SUFFICES ASSUME IInv, Indexed PROVE IInv'
  OBVIOUS
<1>1. /\ UNCHANGED <<tasks, by_id, stack, temp, done, order>>
      /\ result = "indexing" /\ result' = "visiting" /\ i = Len(tasks) /\ i' = 0
  BY DEF Indexed
<1>2. Domains'
  BY <1>1 DEF IInv, Domains
<1>3. /\ Known = Listed
      /\ stack = <<>> /\ temp = {} /\ done = {} /\ order = <<>>
  BY <1>1 DEF IInv, IndexInv, Listed
<1>4. Known' = Listed'
  BY <1>1, <1>3 DEF Known, Listed
<1> QED
  BY <1>1, <1>2, <1>3, <1>4
     DEF IInv, IndexInv, StackInv, PathInv, OrderInv, LoopInv, PositiveK

\* Nothing of the plan changes once it is indexed.
LEMMA PlanFixed ==
  ASSUME UNCHANGED <<tasks, by_id>>
  PROVE  /\ Known' = Known /\ Listed' = Listed
         /\ \A t, u : DependsOn(t, u)' <=> DependsOn(t, u)
BY DEF Known, Listed, DependsOn

\* A visit begins: of a listed task, or of the dependency the innermost visit is at.
LEMMA EnterStep ==
  ASSUME IInv, result = "visiting", NEW t \in Known, t \notin done, t \notin temp, Enter(t),
         stack # <<>> => Top.k \in 1..Len(Deps) /\ Dep = t,
         UNCHANGED <<tasks, by_id, i, done, order, result>>
  PROVE  IInv'
<1> DEFINE f == [tid |-> t, k |-> 1]
           n == Len(stack)
<1>1. stack \in Seq(Frame) /\ n \in Nat /\ t \in TaskIds /\ f \in Frame
  BY KnownTyped DEF IInv, Domains, Frame
<1>2. /\ stack' = Append(stack, f) /\ stack' \in Seq(Frame) /\ Len(stack') = n + 1
      /\ stack'[n + 1] = f /\ \A j \in 1..n : stack'[j] = stack[j]
  BY <1>1, AppendProperties DEF Enter
<1>3. temp' = temp \cup {t}
  BY DEF Enter
<1>4. /\ Known' = Known /\ Listed' = Listed
      /\ \A a, u : DependsOn(a, u)' <=> DependsOn(a, u)
  BY PlanFixed
<1>5. Domains'
  BY <1>1, <1>2, <1>3 DEF IInv, Domains
<1>6. 1..(n + 1) = (1..n) \cup {n + 1}
  BY <1>1
<1>7. StackInv'
  <2>1. temp' = {stack'[j].tid : j \in 1..Len(stack')}
    <3>1. {stack'[j].tid : j \in 1..(n + 1)} = {stack[j].tid : j \in 1..n} \cup {t}
      BY <1>2, <1>6
    <3> QED
      BY <1>2, <1>3, <3>1 DEF IInv, StackInv
  <2>2. (temp \subseteq Known /\ done \subseteq Known /\ temp \cap done = {})'
    BY <1>3, <1>4 DEF IInv, StackInv
  <2>3. \A j, l \in 1..Len(stack') : stack'[j].tid = stack'[l].tid => j = l
    <3>1. \A j \in 1..n : stack[j].tid # t
      BY DEF IInv, StackInv
    <3> QED
      BY <1>2, <1>6, <3>1 DEF IInv, StackInv
  <2>4. \A j \in 1..Len(stack') : \A d \in 1..Len(by_id[stack'[j].tid]) :
          d < stack'[j].k =>
            by_id[stack'[j].tid][d] \notin Known \/ by_id[stack'[j].tid][d] \in done
    <3>1. ASSUME NEW d \in 1..Len(by_id[t]) PROVE ~(d < 1)
      BY KnownTyped DEF IInv
    <3> QED
      BY <1>2, <1>6, <3>1 DEF IInv, StackInv
  <2> QED
    BY <1>4, <2>1, <2>2, <2>3, <2>4 DEF StackInv
<1>8. PathInv'
  <2>0. Len(stack') - 1 = n /\ by_id' = by_id
    BY <1>1, <1>2
  <2> SUFFICES ASSUME NEW j \in 1..n
               PROVE  /\ stack'[j].k \in 1..Len(by_id[stack'[j].tid])
                      /\ by_id[stack'[j].tid][stack'[j].k] = stack'[j + 1].tid
    BY <2>0 DEF PathInv
  <2>1. CASE j = n
    BY <1>1, <1>2, <2>1 DEF Top, Deps, Dep
  <2>2. CASE j # n
    <3>1. j \in 1..(n - 1) /\ j + 1 \in 1..n
      BY <1>1, <2>2
    <3> QED
      BY <1>2, <3>1 DEF IInv, PathInv
  <2> QED
    BY <2>1, <2>2
<1>9. PositiveK'
  BY <1>2, <1>6 DEF IInv, PositiveK
<1>10. IndexInv' /\ OrderInv' /\ LoopInv'
  BY <1>4 DEF IInv, IndexInv, OrderInv, LoopInv
<1> QED
  BY <1>5, <1>7, <1>8, <1>9, <1>10 DEF IInv

\* The loop passes over a finished task or opens a visit of a listed one.
LEMMA VisitListedStep == IInv /\ VisitListed => IInv'
<1> SUFFICES ASSUME IInv, VisitListed PROVE IInv'
  OBVIOUS
<1> DEFINE t == tasks[i + 1].task_id
<1>1. tasks \in Seq(Task) /\ Len(tasks) \in Nat /\ i \in Nat /\ i + 1 \in 1..Len(tasks)
  BY DEF VisitListed, IInv, Domains
<1>2. result = "visiting" /\ stack = <<>>
      /\ UNCHANGED <<tasks, by_id, done, order, result>>
  BY DEF VisitListed
<1>3. t \in Known
  BY <1>1, <1>2 DEF IInv, IndexInv, Listed
<1>4. CASE t \in done
  <2>1. i' = i + 1 /\ UNCHANGED <<stack, temp>>
    BY <1>4 DEF VisitListed
  <2>2. Domains'
    BY <1>1, <1>2, <2>1 DEF IInv, Domains
  <2>3. /\ Known' = Known /\ Listed' = Listed
        /\ \A a, u : DependsOn(a, u)' <=> DependsOn(a, u)
    BY <1>2, PlanFixed
  <2>4. \A j \in 1..(i + 1) : tasks[j].task_id \in done
    <3>1. 1..(i + 1) = (1..i) \cup {i + 1}
      BY <1>1
    <3> QED
      BY <1>2, <1>4, <3>1 DEF IInv, LoopInv
  <2>5. LoopInv'
    BY <1>2, <2>1, <2>4 DEF LoopInv
  <2> QED
    BY <1>2, <2>1, <2>2, <2>3, <2>5
       DEF IInv, IndexInv, StackInv, PathInv, OrderInv, PositiveK
<1>5. CASE t \notin done
  <2>1. Enter(t) /\ UNCHANGED i
    BY <1>5 DEF VisitListed
  <2>2. t \notin temp
    BY <1>2 DEF IInv, Domains, StackInv
  <2> QED
    BY <1>2, <1>3, <1>5, <2>1, <2>2, EnterStep
<1> QED
  BY <1>4, <1>5

\* A dependency outside the plan, or done, is put behind.
LEMMA SkipDepStep == IInv /\ SkipDep => IInv'
<1> SUFFICES ASSUME IInv, SkipDep PROVE IInv'
  OBVIOUS
<1> DEFINE n == Len(stack)
           f == [Top EXCEPT !.k = @ + 1]
<1>1. /\ stack \in Seq(Frame) /\ n \in Nat \ {0} /\ Top \in Frame /\ Top.k \in Nat
      /\ Top.k >= 1 /\ Deps \in Seq(TaskIds) /\ Len(Deps) \in Nat /\ stack[n] = Top
  BY TopTyped DEF SkipDep, AtDep, IInv, Domains, Frame, Top
<1>2. /\ result = "visiting" /\ stack # <<>> /\ Top.k <= Len(Deps)
      /\ Dep \notin Known \/ Dep \in done
      /\ UNCHANGED <<tasks, by_id, i, temp, done, order, result>>
  BY DEF SkipDep, AtDep
<1>3. f \in Frame /\ f.tid = Top.tid /\ f.k = Top.k + 1
  <2>1. Top \in Frame /\ Top.k + 1 \in Nat
    BY <1>1
  <2> QED
    BY <2>1 DEF Frame
<1>4. stack' = [stack EXCEPT ![n] = f]
  BY <1>1 DEF SkipDep
<1>5. /\ stack' \in Seq(Frame) /\ Len(stack') = n
      /\ \A j \in 1..n : stack'[j] = IF j = n THEN f ELSE stack[j]
  BY <1>1, <1>3, <1>4, ExceptSeq
<1>6. \A j \in 1..n : stack'[j].tid = stack[j].tid /\ (j # n => stack'[j] = stack[j])
  BY <1>1, <1>3, <1>5
<1>7. Domains'
  BY <1>2, <1>5 DEF IInv, Domains
<1>8. /\ Known' = Known /\ Listed' = Listed
      /\ \A a, u : DependsOn(a, u)' <=> DependsOn(a, u)
  BY <1>2, PlanFixed
<1>9. StackInv'
  <2>1. ASSUME NEW j \in 1..n, NEW d \in 1..Len(by_id[stack[j].tid]), d < stack'[j].k
        PROVE  by_id[stack[j].tid][d] \notin Known \/ by_id[stack[j].tid][d] \in done
    <3>1. CASE j # n
      BY <1>6, <2>1, <3>1 DEF IInv, StackInv
    <3>2. CASE j = n /\ d = Top.k
      BY <1>1, <1>2, <3>2 DEF Dep, Deps
    <3>3. CASE j = n /\ d # Top.k
      <4>1. stack[j] = Top /\ stack'[j].k = Top.k + 1 /\ d \in 1..Len(Deps)
        BY <1>1, <1>3, <1>5, <3>3 DEF Deps
      <4>2. d < Top.k
        BY <1>1, <2>1, <3>3, <4>1
      <4> QED
        BY <4>1, <4>2 DEF IInv, StackInv
    <3> QED
      BY <3>1, <3>2, <3>3
  <2>2. temp' = {stack'[j].tid : j \in 1..Len(stack')}
    BY <1>2, <1>5, <1>6 DEF IInv, StackInv
  <2>3. \A j, l \in 1..Len(stack') : stack'[j].tid = stack'[l].tid => j = l
    BY <1>5, <1>6 DEF IInv, StackInv
  <2>4. (temp \subseteq Known /\ done \subseteq Known /\ temp \cap done = {})'
    BY <1>2, <1>8 DEF IInv, StackInv
  <2> QED
    BY <1>2, <1>5, <1>6, <1>8, <2>1, <2>2, <2>3, <2>4 DEF StackInv
<1>10. PathInv'
  <2> SUFFICES ASSUME NEW j \in 1..(n - 1)
               PROVE  /\ stack'[j].k \in 1..Len(by_id[stack'[j].tid])
                      /\ by_id[stack'[j].tid][stack'[j].k] = stack'[j + 1].tid
    BY <1>2, <1>5 DEF PathInv
  <2>1. j \in 1..n /\ j # n /\ j + 1 \in 1..n
    BY <1>1
  <2> QED
    BY <1>6, <2>1 DEF IInv, PathInv
<1>11. PositiveK'
  <2> SUFFICES ASSUME NEW j \in 1..n PROVE stack'[j].k >= 1
    BY <1>5 DEF PositiveK
  <2>1. CASE j = n
    <3>1. stack'[j].k = Top.k + 1
      BY <1>3, <1>5, <2>1
    <3> QED
      BY <1>1, <3>1
  <2>2. CASE j # n
    BY <1>6, <2>2 DEF IInv, PositiveK
  <2> QED
    BY <2>1, <2>2
<1>12. IndexInv' /\ OrderInv' /\ LoopInv'
  BY <1>2, <1>8 DEF IInv, IndexInv, OrderInv, LoopInv
<1> QED
  BY <1>7, <1>9, <1>10, <1>11, <1>12 DEF IInv

\* A visit of a dependency extends the path of open visits.
LEMMA VisitDepStep == IInv /\ VisitDep => IInv'
<1> SUFFICES ASSUME IInv, VisitDep PROVE IInv'
  OBVIOUS
<1>1. /\ result = "visiting" /\ Dep \in Known /\ Dep \notin done /\ Dep \notin temp
      /\ Enter(Dep) /\ UNCHANGED <<tasks, by_id, i, done, order, result>>
      /\ stack # <<>> /\ Top.k <= Len(Deps)
  BY DEF VisitDep, AtDep
<1>2. Top.k \in 1..Len(Deps)
  BY <1>1, TopTyped DEF Frame
<1> QED
  BY <1>1, <1>2, EnterStep

\* The dependency that makes visit raise is on that path.
LEMMA RaiseStep == IInv /\ Raise => IInv'
<1> SUFFICES ASSUME IInv, Raise PROVE IInv'
  OBVIOUS
<1>1. /\ result = "visiting" /\ Dep \in temp /\ result' = "cycle"
      /\ UNCHANGED <<tasks, by_id, i, stack, temp, done, order>>
      /\ stack # <<>> /\ Top.k <= Len(Deps)
  BY DEF Raise, AtDep
<1>2. Top.k \in 1..Len(Deps)
  BY <1>1, TopTyped DEF Frame
<1>3. /\ Known' = Known /\ Listed' = Listed
      /\ \A a, u : DependsOn(a, u)' <=> DependsOn(a, u)
  BY <1>1, PlanFixed
<1>4. LoopInv'
  BY <1>1, <1>2 DEF IInv, LoopInv, Top, Deps, Dep
<1>5. Domains'
  BY <1>1 DEF IInv, Domains
<1> QED
  BY <1>1, <1>3, <1>4, <1>5 DEF IInv, IndexInv, StackInv, PathInv, OrderInv, PositiveK

\* The innermost visit has found all its dependencies done, and ends.
LEMMA LeaveStep == IInv /\ Leave => IInv'
<1> SUFFICES ASSUME IInv, Leave PROVE IInv'
  OBVIOUS
<1> DEFINE n == Len(stack)
           t == Top.tid
           m == Len(order)
<1>1. /\ stack \in Seq(Frame) /\ n \in Nat \ {0} /\ Top \in Frame /\ t \in temp
      /\ t \in Known /\ t \notin done /\ t \in TaskIds /\ stack[n] = Top
      /\ Top.k \in Nat /\ Len(Deps) \in Nat
  BY TopTyped, KnownTyped DEF Leave, IInv, Domains, StackInv, Frame, Top
<1>2. /\ result = "visiting" /\ stack # <<>> /\ Top.k > Len(Deps)
      /\ temp' = temp \ {t} /\ done' = done \cup {t} /\ order' = Append(order, t)
      /\ stack' = SubSeq(stack, 1, n - 1)
      /\ UNCHANGED <<tasks, by_id, i, result>>
  BY DEF Leave, Below
<1>3. /\ stack' \in Seq(Frame) /\ Len(stack') = n - 1
      /\ \A j \in 1..(n - 1) : stack'[j] = stack[j]
  <2>1. \A j \in 1..(n - 1) : stack[j] \in Frame
    BY <1>1
  <2>2. 1 \in Int /\ n - 1 \in Int
    BY <1>1
  <2>3. /\ stack' \in Seq(Frame)
        /\ Len(stack') = IF 1 <= n - 1 THEN (n - 1) - 1 + 1 ELSE 0
        /\ \A j \in 1..((n - 1) - 1 + 1) : stack'[j] = stack[1 + j - 1]
    BY <1>2, <2>1, <2>2, SubSeqProperties
  <2>4. (n - 1) - 1 + 1 = n - 1 /\ (IF 1 <= n - 1 THEN (n - 1) - 1 + 1 ELSE 0) = n - 1
    <3> HIDE DEF n
    <3>1. n \in Nat /\ n # 0
      BY <1>1
    <3> QED
      BY <3>1
  <2>5. ASSUME NEW j \in 1..(n - 1) PROVE 1 + j - 1 = j
    BY <1>1
  <2> QED
    BY <2>3, <2>4, <2>5
<1>4. /\ order \in Seq(TaskIds) /\ m \in Nat /\ order' \in Seq(TaskIds)
      /\ Len(order') = m + 1 /\ order'[m + 1] = t /\ \A a \in 1..m : order'[a] = order[a]
  BY <1>1, <1>2, AppendProperties DEF IInv, Domains
<1>5. Domains'
  BY <1>1, <1>2, <1>3, <1>4 DEF IInv, Domains
<1>6. /\ Known' = Known /\ Listed' = Listed
      /\ \A a, u : DependsOn(a, u)' <=> DependsOn(a, u)
  BY <1>2, PlanFixed
<1>7. 1..n = (1..(n - 1)) \cup {n} /\ n \notin 1..(n - 1)
  BY <1>1
<1>8. StackInv'
  <2>1. temp' = {stack'[j].tid : j \in 1..Len(stack')}
    <3>1. temp = {stack[j].tid : j \in 1..(n - 1)} \cup {t}
      BY <1>1, <1>7 DEF IInv, StackInv
    <3>2. \A j \in 1..(n - 1) : stack[j].tid # t
      BY <1>1, <1>7 DEF IInv, StackInv
    <3>3. {stack'[j].tid : j \in 1..Len(stack')} = {stack[j].tid : j \in 1..(n - 1)}
      BY <1>3
    <3> QED
      BY <1>2, <3>1, <3>2, <3>3
  <2>2. (temp \subseteq Known /\ done \subseteq Known /\ temp \cap done = {})'
    BY <1>1, <1>2, <1>6 DEF IInv, StackInv
  <2>3. \A j, l \in 1..Len(stack') : stack'[j].tid = stack'[l].tid => j = l
    BY <1>3, <1>7 DEF IInv, StackInv
  <2>4. \A j \in 1..Len(stack') : \A d \in 1..Len(by_id[stack'[j].tid]) :
          d < stack'[j].k =>
            by_id[stack'[j].tid][d] \notin Known \/ by_id[stack'[j].tid][d] \in done'
    <3>1. \A j \in 1..Len(stack') : j \in 1..n /\ stack'[j] = stack[j]
      BY <1>3, <1>7
    <3>2. done \subseteq done'
      BY <1>2
    <3> QED
      BY <3>1, <3>2 DEF IInv, StackInv
  <2> QED
    BY <1>2, <1>6, <2>1, <2>2, <2>3, <2>4 DEF StackInv
<1>9. PathInv'
  <2> SUFFICES ASSUME NEW j \in 1..(n - 2)
               PROVE  /\ stack'[j].k \in 1..Len(by_id[stack'[j].tid])
                      /\ by_id[stack'[j].tid][stack'[j].k] = stack'[j + 1].tid
    BY <1>1, <1>2, <1>3 DEF PathInv
  <2>1. j \in 1..(n - 1) /\ j + 1 \in 1..(n - 1)
    BY <1>1
  <2> QED
    BY <1>3, <2>1 DEF IInv, PathInv
<1>10. OrderInv'
  <2>1. 1..(m + 1) = (1..m) \cup {m + 1}
    BY <1>4
  <2>2. done' = {order'[a] : a \in 1..Len(order')}
    <3>1. {order'[a] : a \in 1..(m + 1)} = {order[a] : a \in 1..m} \cup {t}
      BY <1>4, <2>1
    <3> QED
      BY <1>2, <1>4, <3>1 DEF IInv, OrderInv
  <2>3. \A a \in 1..m : order[a] # t
    BY <1>1 DEF IInv, OrderInv
  <2>4. \A a, b \in 1..Len(order') : order'[a] = order'[b] => a = b
    BY <1>4, <2>1, <2>3 DEF IInv, OrderInv
  <2>5. ASSUME NEW b \in 1..Len(order'), NEW u \in TaskIds, DependsOn(order'[b], u)
        PROVE  \E a \in 1..Len(order') : a < b /\ order'[a] = u
    <3>1. CASE b \in 1..m
      <4>1. PICK a \in 1..m : a < b /\ order[a] = u
        BY <1>4, <2>5, <3>1 DEF IInv, OrderInv
      <4>2. a \in 1..Len(order') /\ order'[a] = u
        BY <1>4, <2>1, <4>1
      <4> QED
        BY <4>1, <4>2
    <3>2. CASE b = m + 1
      <4>1. PICK d \in 1..Len(by_id[t]) : u \in Known /\ by_id[t][d] = u
        BY <1>4, <2>5, <3>2 DEF DependsOn
      <4>2. d < Top.k
        BY <1>1, <1>2 DEF Deps
      <4>3. u \in done
        <5>1. n \in 1..n /\ stack[n].tid = t /\ d < stack[n].k
          BY <1>1, <4>2
        <5> QED
          BY <4>1, <5>1 DEF IInv, StackInv
      <4>4. PICK a \in 1..m : order[a] = u
        BY <4>3 DEF IInv, OrderInv
      <4>5. a \in 1..Len(order') /\ order'[a] = u /\ a < b
        BY <1>4, <2>1, <3>2, <4>4
      <4> QED
        BY <4>5
    <3> QED
      BY <1>4, <2>1, <3>1, <3>2
  <2> QED
    BY <1>6, <2>2, <2>4, <2>5 DEF OrderInv
<1>11. LoopInv' /\ IndexInv' /\ PositiveK'
  BY <1>2, <1>3, <1>6, <1>7 DEF IInv, LoopInv, IndexInv, PositiveK
<1> QED
  BY <1>5, <1>8, <1>9, <1>10, <1>11 DEF IInv

\* The list is returned when the loop is through it.
LEMMA ReturnStep == IInv /\ Return => IInv'
<1> SUFFICES ASSUME IInv, Return PROVE IInv'
  OBVIOUS
<1>1. /\ result = "visiting" /\ i = Len(tasks) /\ result' = "returned"
      /\ UNCHANGED <<tasks, by_id, i, stack, temp, done, order>>
  BY DEF Return
<1>2. /\ Known' = Known /\ Listed' = Listed
      /\ \A a, u : DependsOn(a, u)' <=> DependsOn(a, u)
  BY <1>1, PlanFixed
<1>3. (Domains /\ PathInv /\ PositiveK /\ LoopInv)'
  BY <1>1 DEF IInv, Domains, PathInv, PositiveK, LoopInv
<1>4. (IndexInv /\ StackInv /\ OrderInv)'
  BY <1>1, <1>2 DEF IInv, IndexInv, StackInv, OrderInv
<1> QED
  BY <1>3, <1>4 DEF IInv

\* Every step of _topo_order keeps the invariant.
LEMMA NextIInv == IInv /\ [Next]_vars => IInv'
<1>1. IInv /\ UNCHANGED vars => IInv'
  <2> SUFFICES ASSUME IInv, UNCHANGED vars PROVE IInv'
    OBVIOUS
  <2>1. /\ Known' = Known /\ Listed' = Listed
        /\ \A a, u : DependsOn(a, u)' <=> DependsOn(a, u)
    BY PlanFixed DEF vars
  <2>2. UNCHANGED <<tasks, by_id, i, stack, temp, done, order, result>>
    BY DEF vars
  <2>3. (Domains /\ PathInv /\ PositiveK)'
    BY <2>2 DEF IInv, Domains, PathInv, PositiveK
  <2>4. (IndexInv /\ StackInv /\ OrderInv)'
    BY <2>1, <2>2 DEF IInv, IndexInv, StackInv, OrderInv
  <2>5. LoopInv'
    BY <2>2 DEF IInv, LoopInv, Top, Deps, Dep
  <2> QED
    BY <2>3, <2>4, <2>5 DEF IInv
<1> QED
  BY <1>1, IndexStep, IndexedStep, VisitListedStep, SkipDepStep, VisitDepStep, RaiseStep,
     LeaveStep, ReturnStep
     DEF Next

-----------------------------------------------------------------------------
\* The invariant at the return: everything listed is done, and in order.
LEMMA SortedByInv == IInv => Sorted
<1> SUFFICES ASSUME IInv, result = "returned" PROVE Sorted
  BY DEF Sorted
<1>1. Known = Listed /\ done \subseteq Known /\ done = {order[a] : a \in 1..Len(order)}
  BY DEF IInv, IndexInv, StackInv, OrderInv
<1>2. Listed \subseteq done
  BY DEF IInv, LoopInv, Listed
<1>3. ASSUME NEW a \in 1..Len(order), NEW b \in 1..Len(order), DependsOn(order[b], order[a])
      PROVE  a < b
  <2>1. order[a] \in TaskIds
    BY DEF IInv, Domains
  <2>2. PICK c \in 1..Len(order) : c < b /\ order[c] = order[a]
    BY <1>3, <2>1 DEF IInv, OrderInv
  <2> QED
    BY <2>2 DEF IInv, OrderInv
<1> QED
  BY <1>1, <1>2, <1>3 DEF Sorted, IInv, OrderInv

\* The open visits from the dependency met again up to the innermost are a cycle.
LEMMA CycleByInv == IInv => CyclesAreReal
<1> SUFFICES ASSUME IInv, result = "cycle"
             PROVE  \E S \in (SUBSET Listed) \ {{}} : \A t \in S : \E u \in S : DependsOn(t, u)
  BY DEF CyclesAreReal
<1> DEFINE n == Len(stack)
<1>1. stack # <<>> /\ Top.k \in 1..Len(Deps) /\ Dep \in temp
  BY DEF IInv, LoopInv
<1>2. n \in Nat \ {0} /\ Known = Listed
  BY <1>1, TopTyped DEF IInv, IndexInv
<1>3. PICK j \in 1..n : stack[j].tid = Dep
  BY <1>1 DEF IInv, StackInv
<1> DEFINE S == {stack[l].tid : l \in j..n}
<1>4. \A l \in 1..n : stack[l].tid \in Known
  BY DEF IInv, StackInv
<1>5. S \in (SUBSET Listed) \ {{}}
  <2>1. j \in j..n /\ j..n \subseteq 1..n
    BY <1>2
  <2> QED
    BY <1>2, <1>4, <2>1
<1>6. ASSUME NEW l \in j..n PROVE \E u \in S : DependsOn(stack[l].tid, u)
  <2>1. CASE l = n
    <3>1. DependsOn(stack[l].tid, Dep)
      BY <1>1, <1>3, <1>4, <2>1 DEF DependsOn, Top, Deps, Dep
    <3>2. Dep \in S
      BY <1>2, <1>3
    <3> QED
      BY <3>1, <3>2
  <2>2. CASE l # n
    <3>1. l \in 1..(n - 1) /\ l + 1 \in j..n /\ l + 1 \in 1..n
      BY <1>2, <2>2
    <3>2. DependsOn(stack[l].tid, stack[l + 1].tid)
      BY <1>4, <3>1 DEF IInv, PathInv, DependsOn
    <3> QED
      BY <3>1, <3>2
  <2> QED
    BY <2>1, <2>2
<1>7. \A t \in S : \E u \in S : DependsOn(t, u)
  <2> SUFFICES ASSUME NEW t \in S PROVE \E u \in S : DependsOn(t, u)
    OBVIOUS
  <2>1. PICK l \in j..n : t = stack[l].tid
    OBVIOUS
  <2> QED
    BY <1>6, <2>1
<1> QED
  BY <1>5, <1>7

\* IInv holds throughout, for every set of task lists.
THEOREM Invariance == Spec => []IInv
BY InitIInv, NextIInv, PTL DEF Spec

\* Type correctness of _topo_order.
THEOREM TypeCorrect == Spec => []TypeOK
<1>1. IInv => TypeOK
  BY DEF IInv, TypeOK, StackInv, Known
<1> QED
  BY <1>1, Invariance, PTL

\* "Order tasks so every task runs after its depends_on", for plans of any size.
THEOREM AlwaysSorted == Spec => []Sorted
BY SortedByInv, Invariance, PTL

\* "Raises on cycle": _topo_order never rejects a plan that has an order.
THEOREM NoFalseCycle == Spec => []CyclesAreReal
BY CycleByInv, Invariance, PTL
=============================================================================
