--------------------------- MODULE PiAgentProofs ---------------------------
(***************************************************************************)
(* Safety of the run engine, for every set of workers, messages, plans,    *)
(* policies and redeployments.                                             *)
(*                                                                         *)
(* For callers of any discipline: type correctness, HardDenyAbsolute,      *)
(* ConsentPrecedesMutation, UpstreamOutputsPresent and, when messages do   *)
(* not share a run_id, PauseIsDurable.  For serial callers (SerialResume), *)
(* shared run_ids included: ToolRunsOncePerRound, ReplanBudget,            *)
(* TwinWrittenOnce and PausedRunsLeaveNoTrace.  With both disciplines and  *)
(* no faults the engine implements RunLifecycle, its fairness apart.       *)
(*                                                                         *)
(* None of them is inductive: each is about what a pause hands over.  The  *)
(* invariants follow, through the task loop, the snapshot in the store and *)
(* the resumed call, the gated action of the paused task (IInv), the       *)
(* outputs of the tasks before it (OutputsInv), whose row a row is         *)
(* (HomeInv, WaitInv) and the planner calls, tool calls and twin writes    *)
(* made so far (SerialInv).  That a resumed call is at the task that       *)
(* paused rests on task ids being distinct in a plan (PlansOrdered).       *)
(***************************************************************************)
EXTENDS PiAgent, TLAPS

\* Consent for action x under broker b, given the names humans have allowed.
Authorised(b, x, ok) ==
  Enforced(b) => /\ ~IsHardDenied(b, x)
                 /\ PolicyDecide(b, x) = "allow" \/ x.name \in ok

\* An action pause names a task of its plan, and its action is that task's.
SnapInv(s) ==
  s.pause_scope = "action" =>
    \E i \in 1..Len(s.plan.tasks) :
      /\ s.plan.tasks[i].task_id = s.paused_task_id
      /\ s.plan.tasks[i].tool # NoTool
      /\ s.action = ActionForTask(s.plan.tasks[i])

AgentInv(a, ok) ==
  /\ a.pc \in {"task", "invoke", "verify"} => a.idx \in 1..Len(a.plan.tasks)
  /\ a.pc = "resolve" =>
       /\ a.pause \in Snapshot
       /\ a.pause.plan = a.plan
       /\ SnapInv(a.pause)
       /\ a.verdict = "allow" => a.pause.action.name \in ok
  /\ a.pc = "invoke" \/ (a.pc = "task" /\ a.resumed) =>
       /\ CurrentTask(a).tool # NoTool
       /\ Authorised(a.broker, ActionForTask(CurrentTask(a)), ok)

AgentsInv == \A w \in Workers : agent[w] # Idle => AgentInv(agent[w], approved)
StoreInv == \A r \in RunIds : store[r] # NoRow => SnapInv(store[r].snap)
GrantsInv == \A n \in Names : grants[n] = "allow" => n \in approved
RowsKept == \A w \in Workers :
  agent[w] # Idle /\ agent[w].call = "resume" => store[agent[w].run] # NoRow
PerformedInv == \A c \in performed : Authorised(c.broker, c.action, approved)

IInv == TypeOK /\ AgentsInv /\ StoreInv /\ GrantsInv /\ RowsKept /\ PerformedInv

-----------------------------------------------------------------------------
(***************************************************************************)
(* The constants and the records.                                          *)
(***************************************************************************)
\* A plan the planner may answer with has a gated name and a list of tasks.
LEMMA PlanTyped ==
  ASSUME NEW p \in KnownPlans
  PROVE  /\ p.plan_id \in Names
         /\ p.tasks \in Seq(Task)
         /\ Len(p.tasks) \in Nat
         /\ \A i \in 1..Len(p.tasks) : p.tasks[i] \in Task
<1>1. p \in Plan
  BY ConstantsTyped DEF KnownPlans
<1>2. p.tasks \in Seq(Task) /\ p.plan_id \in Names
  BY <1>1 DEF Plan
<1> QED
  BY <1>2

\* _action_for_task of a task with a tool is an action a policy can decide.
LEMMA TaskActionTyped ==
  ASSUME NEW p \in KnownPlans, NEW i \in 1..Len(p.tasks), p.tasks[i].tool # NoTool
  PROVE  ActionForTask(p.tasks[i]) \in Action
<1>1. p.tasks[i] \in Task
  BY PlanTyped
<1> QED
  BY <1>1 DEF Task, Action, ActionForTask

\* _plan_action of any plan is an action a policy can decide.
LEMMA PlanActionTyped ==
  ASSUME NEW p \in KnownPlans
  PROVE  PlanAction(p) \in Action
BY PlanTyped DEF PlanAction, Action, SCOPES

\* What the transitions of one object leave: a typed object of the same call on the same
\* row, of which the invariant holds.
Good(b, a, ok) == b \in Agent /\ AgentInv(b, ok) /\ b.call = a.call /\ b.run = a.run

\* Ending a call, with or without _finalize, leaves nothing to authorise.
LEMMA GoodEnds ==
  ASSUME NEW a \in Agent, NEW s \in States, NEW ok
  PROVE  Good(Stop(a, s), a, ok) /\ Good(Finalize(a, s), a, ok)
<1>1. /\ Stop(a, s) \in Agent /\ Stop(a, s).pc = "return"
      /\ Stop(a, s).call = a.call /\ Stop(a, s).run = a.run
  BY DEF Stop, Agent
<1>2. /\ Finalize(a, s) \in Agent /\ Finalize(a, s).pc = "memory"
      /\ Finalize(a, s).call = a.call /\ Finalize(a, s).run = a.run
  BY DEF Finalize, Agent
<1>3. \A b : b.pc \in {"return", "memory"} => AgentInv(b, ok)
  BY DEF AgentInv
<1> QED
  BY <1>1, <1>2, <1>3 DEF Good

\* Entering _execute_and_maybe_verify on a fresh plan stands at an ungated first task.
LEMMA GoodBegin ==
  ASSUME NEW a \in Agent, NEW ok
  PROVE  Good(BeginPlan(a), a, ok)
<1>1. CASE a.plan.tasks = <<>>
  <2> DEFINE b == [a EXCEPT !.outputs = {}]
  <2>1. b \in Agent /\ b.call = a.call /\ b.run = a.run
    BY DEF Agent
  <2>2. Good(Finalize(b, "DONE"), b, ok)
    BY <2>1, GoodEnds DEF States, TERMINAL
  <2> QED
    BY <1>1, <2>1, <2>2 DEF BeginPlan, Good
<1>2. CASE a.plan.tasks # <<>>
  <2>1. Len(a.plan.tasks) \in Nat \ {0}
    <3>1. a.plan \in KnownPlans
      BY DEF Agent
    <3> QED
      BY <1>2, <3>1, PlanTyped
  <2> DEFINE b == [a EXCEPT !.outputs = {}, !.idx = 1, !.resumed = FALSE,
                            !.state = "EXECUTING", !.pc = "task"]
  <2>2. b \in Agent /\ b.call = a.call /\ b.run = a.run
    BY DEF Agent, States
  <2>3. b.pc = "task" /\ b.idx = 1 /\ b.resumed = FALSE /\ b.plan = a.plan
    BY DEF Agent
  <2>4. AgentInv(b, ok)
    BY <2>1, <2>3 DEF AgentInv
  <2> QED
    BY <1>2, <2>2, <2>4 DEF Good, BeginPlan
<1> QED
  BY <1>1, <1>2

\* The next task of the loop is a task of the plan, and its gate is not skipped.
LEMMA GoodAdvance ==
  ASSUME NEW a \in Agent, NEW ok, a.idx \in 1..Len(a.plan.tasks)
  PROVE  Good(Advance(a), a, ok)
<1>1. CASE a.idx < Len(a.plan.tasks)
  <2> DEFINE b == [a EXCEPT !.idx = @ + 1, !.resumed = FALSE,
                            !.state = "EXECUTING", !.pc = "task"]
  <2>1. Len(a.plan.tasks) \in Nat
    BY PlanTyped DEF Agent
  <2>6. a.idx + 1 \in Nat
    BY DEF Agent
  <2>2. b \in Agent /\ b.call = a.call /\ b.run = a.run
    BY <2>6 DEF Agent, States
  <2>3. b.pc = "task" /\ b.idx = a.idx + 1 /\ b.resumed = FALSE /\ b.plan = a.plan
    BY DEF Agent
  <2>4. b.idx \in 1..Len(b.plan.tasks)
    BY <1>1, <2>1, <2>3
  <2>5. AgentInv(b, ok)
    BY <2>3, <2>4 DEF AgentInv
  <2> QED
    BY <1>1, <2>2, <2>5 DEF Good, Advance
<1>2. CASE ~(a.idx < Len(a.plan.tasks))
  BY <1>2, GoodEnds DEF Advance, States, TERMINAL
<1> QED
  BY <1>1, <1>2

\* After a task (verify, or straight on) the object satisfies the invariant.
LEMMA GoodAfterTool ==
  ASSUME NEW a \in Agent, NEW ok, a.idx \in 1..Len(a.plan.tasks)
  PROVE  Good(AfterTool(a), a, ok)
<1>1. CASE "verify" \in Phases(a.msg)
  <2> DEFINE b == [a EXCEPT !.state = "VERIFYING", !.pc = "verify"]
  <2>1. b \in Agent /\ b.call = a.call /\ b.run = a.run
    BY DEF Agent, States
  <2>2. b.pc = "verify" /\ b.idx = a.idx /\ b.plan = a.plan
    BY DEF Agent
  <2>3. AgentInv(b, ok)
    BY <2>2 DEF AgentInv
  <2> QED
    BY <1>1, <2>1, <2>3 DEF Good, AfterTool
<1>2. CASE "verify" \notin Phases(a.msg)
  BY <1>2, GoodAdvance DEF AfterTool
<1> QED
  BY <1>1, <1>2

\* Counting stays within the naturals.
LEMMA BumpTyped == \A n \in Nat : Bump(n) \in Nat
BY DEF Bump

\* to_state makes a snapshot.
LEMMA ToStateTyped ==
  ASSUME NEW a \in Agent, NEW scope \in {"plan", "action"}, NEW act \in Action,
         NEW tid \in TaskIds \cup {NoTool}
  PROVE  ToState(a, scope, act, tid) \in Snapshot
BY DEF ToState, Snapshot, Agent

-----------------------------------------------------------------------------
(***************************************************************************)
(* Frames: what replacing one object, or one row, does to the invariant.   *)
(***************************************************************************)
\* A further human grant withdraws no authorisation.
LEMMA Monotone ==
  ASSUME NEW a, NEW ok, NEW ok2, AgentInv(a, ok), ok \subseteq ok2
  PROVE  AgentInv(a, ok2)
BY DEF AgentInv, Authorised

\* One call moving to an object that satisfies the invariant keeps it for all calls.
LEMMA SetAgents ==
  ASSUME TypeOK, AgentsInv, NEW w \in Workers, NEW x, Set(w, x),
         x = Idle \/ (x \in Agent /\ AgentInv(x, approved)),
         UNCHANGED approved
  PROVE  agent' \in [Workers -> Agent \cup {Idle}] /\ AgentsInv'
BY DEF TypeOK, AgentsInv, Set

\* A resume call keeps its row while no row is deleted.
LEMMA SetRows ==
  ASSUME TypeOK, RowsKept, NEW w \in Workers, NEW x, Set(w, x),
         \/ x = Idle
         \/ agent[w] # Idle /\ x.call = agent[w].call /\ x.run = agent[w].run,
         \A r \in RunIds : store[r] # NoRow => store'[r] # NoRow
  PROVE  RowsKept'
<1> SUFFICES ASSUME NEW v \in Workers, agent'[v] # Idle, agent'[v].call = "resume"
             PROVE  store'[agent'[v].run] # NoRow
  BY DEF RowsKept
<1>1. agent[v] # Idle /\ agent'[v].call = agent[v].call /\ agent'[v].run = agent[v].run
  BY DEF TypeOK, Set
<1>2. agent[v].run \in RunIds
  BY <1>1 DEF TypeOK, Agent
<1> QED
  BY <1>1, <1>2 DEF RowsKept

\* A call moves on to a good object, or ends, and touches nothing else of the invariant.
LEMMA Moves ==
  ASSUME IInv, NEW w \in Workers, agent[w] # Idle, NEW x, Set(w, x),
         x = Idle \/ Good(x, agent[w], approved),
         UNCHANGED <<store, grants, broker, approved, performed>>
  PROVE  /\ agent' \in [Workers -> Agent \cup {Idle}]
         /\ AgentsInv' /\ StoreInv' /\ GrantsInv' /\ RowsKept' /\ PerformedInv'
<1>1. agent' \in [Workers -> Agent \cup {Idle}] /\ AgentsInv'
  BY SetAgents DEF IInv, Good
<1>2. RowsKept'
  BY SetRows DEF IInv, Good
<1>3. StoreInv' /\ GrantsInv' /\ PerformedInv'
  BY DEF IInv, StoreInv, GrantsInv, PerformedInv
<1> QED
  BY <1>1, <1>2, <1>3

-----------------------------------------------------------------------------
(***************************************************************************)
(* Initiation, and one lemma per action.                                   *)
(***************************************************************************)
\* No call is in progress, no run paused, nothing granted: the invariant holds at first.
LEMMA InitIInv == Init => IInv
<1> SUFFICES ASSUME Init PROVE IInv
  OBVIOUS
<1>1. TypeOK
  BY ConstantsTyped DEF Init, TypeOK, Verdict, Outcomes
<1> QED
  BY <1>1 DEF Init, IInv, AgentsInv, StoreInv, GrantsInv, RowsKept, PerformedInv

\* dispatch starts before any gate.
LEMMA DispatchStep ==
  ASSUME IInv, NEW w \in Workers, NEW m \in Msgs, Dispatch(w, m)
  PROVE  IInv'
<1> DEFINE x == [call |-> "dispatch", pc |-> "plan", msg |-> m, run |-> RunIdOf[m],
                 broker |-> broker, verdict |-> "none", plan |-> ImplicitPlan, idx |-> 1,
                 resumed |-> FALSE, outputs |-> {}, replans |-> 0,
                 state |-> "ASSEMBLING", pause |-> NoRow]
<1>1. x \in Agent
  BY ConstantsTyped DEF IInv, TypeOK, Agent, Verdict, KnownPlans, States
<1>2. AgentInv(x, approved)
  BY DEF AgentInv
<1>3. Set(w, x) /\ agent[w] = Idle
  BY DEF Dispatch
<1>4. UNCHANGED <<store, grants, broker, outcome, history>>
  BY DEF Dispatch
<1>5. agent' \in [Workers -> Agent \cup {Idle}] /\ AgentsInv'
  BY <1>1, <1>2, <1>3, <1>4, SetAgents DEF IInv, history
<1>6. RowsKept'
  BY <1>3, <1>4 DEF IInv, RowsKept, TypeOK, Set
<1> QED
  BY <1>4, <1>5, <1>6
     DEF IInv, TypeOK, StoreInv, GrantsInv, PerformedInv, history

\* dispatch_resume restores a snapshot of which SnapInv holds, and reads a recorded verdict.
LEMMA DispatchResumeStep ==
  ASSUME IInv, NEW w \in Workers, NEW r \in RunIds, DispatchResume(w, r)
  PROVE  IInv'
<1> DEFINE s == store[r].snap
           x == [call |-> "resume", pc |-> "resolve", msg |-> s.msg, run |-> r,
                 broker |-> broker, verdict |-> grants[s.action.name], plan |-> s.plan,
                 idx |-> 1, resumed |-> FALSE, outputs |-> s.outputs,
                 replans |-> s.replans, state |-> "AWAITING_APPROVAL", pause |-> s]
<1>1. Set(w, x) /\ store[r] # NoRow
  BY DEF DispatchResume
<1>2. UNCHANGED <<store, grants, broker, outcome, history>>
  BY DEF DispatchResume
<1>3. s \in Snapshot /\ SnapInv(s)
  BY <1>1 DEF IInv, TypeOK, PausedRun, StoreInv
<1>4. s.action.name \in Names
  BY <1>3 DEF Snapshot, Action
<1>5. x \in Agent
  BY <1>3, <1>4 DEF IInv, TypeOK, Agent, Snapshot, States
<1>6. AgentInv(x, approved)
  <2>1. x.pc = "resolve" /\ x.pause = s /\ x.plan = s.plan
    OBVIOUS
  <2>2. x.verdict = "allow" => s.action.name \in approved
    BY <1>4 DEF IInv, GrantsInv
  <2> QED
    BY <1>3, <2>1, <2>2 DEF AgentInv
<1>7. agent' \in [Workers -> Agent \cup {Idle}] /\ AgentsInv'
  BY <1>1, <1>2, <1>5, <1>6, SetAgents DEF IInv, history
<1>8. RowsKept'
  BY <1>1, <1>2 DEF IInv, RowsKept, TypeOK, Set
<1> QED
  BY <1>2, <1>7, <1>8
     DEF IInv, TypeOK, StoreInv, GrantsInv, PerformedInv, history

\* Distinct ids make the task the resumed call stands at the task the human was asked about.
LEMMA ResumeGood ==
  ASSUME NEW a \in Agent, AgentInv(a, approved), a.pc = "resolve",
         Resolve(a.broker, a.verdict, a.pause.action) = "allow",
         a.pause.pause_scope = "action", NEW i \in 1..Len(a.plan.tasks),
         a.plan.tasks[i].task_id = a.pause.paused_task_id
  PROVE  Good([a EXCEPT !.idx = i, !.resumed = TRUE, !.state = "EXECUTING", !.pc = "task"],
              a, approved)
<1> DEFINE b == [a EXCEPT !.idx = i, !.resumed = TRUE, !.state = "EXECUTING", !.pc = "task"]
<1>1. a.pause.plan = a.plan /\ SnapInv(a.pause)
  BY DEF AgentInv
<1>2. a.plan \in KnownPlans
  BY DEF Agent
<1>3. PICK j \in 1..Len(a.plan.tasks) :
        /\ a.plan.tasks[j].task_id = a.pause.paused_task_id
        /\ a.plan.tasks[j].tool # NoTool
        /\ a.pause.action = ActionForTask(a.plan.tasks[j])
  BY <1>1 DEF SnapInv
<1>4. i = j
  BY <1>2, <1>3, PlansOrdered
<1>5. i \in Nat
  BY <1>2, PlanTyped
<1>6. b \in Agent /\ b.call = a.call /\ b.run = a.run
  BY <1>5 DEF Agent, States
<1>7. b.pc = "task" /\ b.idx = i /\ b.plan = a.plan /\ b.broker = a.broker
  BY DEF Agent
<1>8. Authorised(a.broker, a.pause.action, approved)
  BY DEF Authorised, AgentInv, Resolve, ResolveGrant
<1>9. CurrentTask(b) = a.plan.tasks[j]
  BY <1>4, <1>7 DEF CurrentTask
<1>10. AgentInv(b, approved)
  BY <1>3, <1>7, <1>8, <1>9 DEF AgentInv
<1> QED
  BY <1>6, <1>10 DEF Good

\* resume: a denial ends the call, a grant leads to the task it was given for.
LEMMA ResumeStep ==
  ASSUME IInv, NEW w \in Workers, Resume(w)
  PROVE  IInv'
<1> DEFINE a == agent[w]
<1>1. a # Idle /\ a \in Agent /\ AgentInv(a, approved) /\ a.pc = "resolve"
  BY DEF Resume, At, IInv, TypeOK, AgentsInv
<1>2. UNCHANGED <<store, grants, broker, outcome, history>>
  BY DEF Resume
<1>3. PICK x : Set(w, x) /\ Good(x, a, approved)
  <2>1. CASE Set(w, Stop(a, "REJECTED"))
    BY <1>1, <2>1, GoodEnds DEF States, TERMINAL
  <2>2. CASE Set(w, BeginPlan(a))
    BY <1>1, <2>2, GoodBegin
  <2>3. CASE /\ Resolve(a.broker, a.verdict, a.pause.action) = "allow"
             /\ a.pause.pause_scope = "action"
             /\ \E i \in 1..Len(a.plan.tasks) :
                  /\ a.plan.tasks[i].task_id = a.pause.paused_task_id
                  /\ Set(w, [a EXCEPT !.idx = i, !.resumed = TRUE,
                                      !.state = "EXECUTING", !.pc = "task"])
    BY <1>1, <2>3, ResumeGood
  <2> QED
    BY <2>1, <2>2, <2>3 DEF Resume
<1>4. UNCHANGED <<store, grants, broker, approved, performed>>
  BY <1>2 DEF history
<1>5. /\ agent' \in [Workers -> Agent \cup {Idle}]
      /\ AgentsInv' /\ StoreInv' /\ GrantsInv' /\ RowsKept' /\ PerformedInv'
  BY <1>1, <1>3, <1>4, Moves
<1> QED
  BY <1>2, <1>5 DEF IInv, TypeOK, history

\* A plan is made; nothing runs.
LEMMA MakePlanStep ==
  ASSUME IInv, NEW w \in Workers, MakePlan(w)
  PROVE  IInv'
<1> DEFINE a == agent[w]
           planned(p) == [a EXCEPT !.plan = p, !.state = "PLANNING", !.pc = "plan_gate"]
           next(p) == IF a.broker = Off THEN BeginPlan(planned(p)) ELSE planned(p)
<1>1. a # Idle /\ a \in Agent /\ a.msg \in Msgs
  BY DEF MakePlan, At, IInv, TypeOK, Agent
<1>2. PICK p \in KnownPlans : Set(w, next(p))
  BY DEF MakePlan, KnownPlans
<1>3. planned(p) \in Agent /\ planned(p).call = a.call /\ planned(p).run = a.run
  BY <1>1 DEF Agent, States
<1>4. AgentInv(planned(p), approved)
  <2>1. planned(p).pc = "plan_gate"
    BY <1>1 DEF Agent
  <2> QED
    BY <2>1 DEF AgentInv
<1>5. Good(next(p), a, approved)
  <2>1. CASE a.broker = Off
    BY <1>3, <2>1, GoodBegin DEF Good
  <2>2. CASE a.broker # Off
    BY <1>3, <1>4, <2>2 DEF Good
  <2> QED
    BY <2>1, <2>2
<1>6. UNCHANGED <<store, grants, broker, outcome, approved, performed, ran, records,
                  twinPuts, faults>>
  BY DEF MakePlan
<1>7. planCalls' \in [Msgs -> Nat]
  <2>1. planCalls \in [Msgs -> Nat]
    BY DEF IInv, TypeOK
  <2>2. \/ planCalls' = [planCalls EXCEPT ![a.msg] = Bump(@)]
        \/ planCalls' = planCalls
    BY DEF MakePlan
  <2> QED
    BY <1>1, <2>1, <2>2, BumpTyped
<1> HIDE DEF next
<1>8. /\ agent' \in [Workers -> Agent \cup {Idle}]
      /\ AgentsInv' /\ StoreInv' /\ GrantsInv' /\ RowsKept' /\ PerformedInv'
  BY <1>1, <1>2, <1>5, <1>6, Moves
<1> QED
  BY <1>6, <1>7, <1>8 DEF IInv, TypeOK

\* A gate: the call goes on, is rejected, or leaves a sound snapshot and stops.
LEMMA GateStep ==
  ASSUME IInv, NEW w \in Workers, agent[w] # Idle, NEW act \in Action,
         NEW scope \in {"plan", "action"}, NEW tid \in TaskIds \cup {NoTool}, NEW onward,
         Gate(w, act, scope, tid, onward),
         Decide(agent[w].broker, act) = "allow" => Good(onward, agent[w], approved),
         SnapInv(ToState(agent[w], scope, act, tid)),
         UNCHANGED <<grants, broker, outcome, history>>
  PROVE  IInv'
<1> DEFINE a == agent[w]
           row == [snap |-> ToState(a, scope, act, tid), status |-> "pending"]
<1>1. a \in Agent /\ a.run \in RunIds
  BY DEF IInv, TypeOK, Agent
<1>2. Good(Stop(a, "REJECTED"), a, approved) /\ Good(Stop(a, "AWAITING_APPROVAL"), a, approved)
  BY <1>1, GoodEnds DEF States, TERMINAL
<1>3. PICK x : Set(w, x) /\ Good(x, a, approved)
  BY <1>2 DEF Gate
<1>4. row \in PausedRun /\ row # NoRow
  BY <1>1, ToStateTyped, SentinelsDistinct DEF PausedRun
<1>5. store' = store \/ store' = [store EXCEPT ![a.run] = row]
  BY DEF Gate
<1>6. store' \in [RunIds -> PausedRun \cup {NoRow}]
  BY <1>1, <1>4, <1>5 DEF IInv, TypeOK
<1>7. \A r \in RunIds : store'[r] = store[r] \/ store'[r] = row
  BY <1>1, <1>5 DEF IInv, TypeOK
<1>8. StoreInv'
  BY <1>7 DEF IInv, StoreInv
<1>9. RowsKept'
  BY <1>3, <1>4, <1>7, SetRows DEF IInv, Good
<1>10. agent' \in [Workers -> Agent \cup {Idle}] /\ AgentsInv'
  BY <1>3, SetAgents DEF IInv, Good, history
<1> QED
  BY <1>6, <1>8, <1>9, <1>10 DEF IInv, TypeOK, GrantsInv, PerformedInv, history

\* The plan gate: its pause names no task.
LEMMA PlanGateStep ==
  ASSUME IInv, NEW w \in Workers, PlanGate(w)
  PROVE  IInv'
<1> DEFINE a == agent[w]
<1>1. a # Idle /\ a \in Agent /\ a.plan \in KnownPlans
  BY DEF PlanGate, At, IInv, TypeOK, Agent
<1>2. PlanAction(a.plan) \in Action
  BY <1>1, PlanActionTyped
<1>3. Good(BeginPlan(a), a, approved)
  BY <1>1, GoodBegin
<1>4. SnapInv(ToState(a, "plan", PlanAction(a.plan), NoTool))
  BY DEF SnapInv, ToState
<1>5. /\ Gate(w, PlanAction(a.plan), "plan", NoTool, BeginPlan(a))
      /\ UNCHANGED <<grants, broker, outcome, history>>
  BY DEF PlanGate
<1> QED
  BY <1>1, <1>2, <1>3, <1>4, <1>5, GateStep

\* A policy that enforces and allows has not denied.
LEMMA AllowedIsAuthorised ==
  ASSUME NEW b, NEW x, NEW ok, Decide(b, x) = "allow"
  PROVE  Authorised(b, x, ok)
BY DEF Authorised, Enforced, Decide, PolicyDecide

\* A task with a tool may be invoked once its action is authorised.
LEMMA GoodInvoking ==
  ASSUME NEW a \in Agent, NEW ok, a.idx \in 1..Len(a.plan.tasks),
         CurrentTask(a).tool # NoTool,
         Authorised(a.broker, ActionForTask(CurrentTask(a)), ok)
  PROVE  Good([a EXCEPT !.pc = "invoke"], a, ok)
<1> DEFINE b == [a EXCEPT !.pc = "invoke"]
<1>1. b \in Agent /\ b.call = a.call /\ b.run = a.run
  BY DEF Agent
<1>2. b.pc = "invoke" /\ b.idx = a.idx /\ b.plan = a.plan /\ b.broker = a.broker
  BY DEF Agent
<1>3. CurrentTask(b) = CurrentTask(a)
  BY <1>2 DEF CurrentTask
<1>4. AgentInv(b, ok)
  BY <1>2, <1>3 DEF AgentInv
<1> QED
  BY <1>1, <1>4 DEF Good

\* The action gate: on allow the policy allows the call, on await the snapshot names the
\* task that paused, and a resumed task is covered by its grant.
LEMMA TaskGateStep ==
  ASSUME IInv, NEW w \in Workers, TaskGate(w)
  PROVE  IInv'
<1> DEFINE a == agent[w]
           t == CurrentTask(a)
           invoking == [a EXCEPT !.pc = "invoke"]
<1>1. a # Idle /\ a \in Agent /\ AgentInv(a, approved) /\ a.pc = "task"
  BY DEF TaskGate, At, IInv, TypeOK, AgentsInv
<1>2. a.plan \in KnownPlans /\ a.idx \in 1..Len(a.plan.tasks)
  BY <1>1 DEF Agent, AgentInv
<1>3. UNCHANGED <<grants, broker, outcome, history>>
  BY DEF TaskGate
<1>4. ASSUME NEW x, Set(w, x), Good(x, a, approved), UNCHANGED store
      PROVE  IInv'
  <2>1. UNCHANGED <<store, grants, broker, approved, performed>>
    BY <1>3, <1>4 DEF history
  <2>2. /\ agent' \in [Workers -> Agent \cup {Idle}]
        /\ AgentsInv' /\ StoreInv' /\ GrantsInv' /\ RowsKept' /\ PerformedInv'
    BY <1>1, <1>4, <2>1, Moves
  <2> QED
    BY <1>3, <1>4, <2>2 DEF IInv, TypeOK, history
<1>5. CASE t.tool = NoTool
  <2>1. Good(AfterTool(a), a, approved)
    BY <1>1, <1>2, GoodAfterTool
  <2>2. Set(w, AfterTool(a)) /\ UNCHANGED store
    BY <1>5 DEF TaskGate
  <2> QED
    BY <1>4, <2>1, <2>2
<1>6. CASE t.tool # NoTool /\ (a.broker = Off \/ a.resumed)
  <2>1. Authorised(a.broker, ActionForTask(t), approved)
    BY <1>1, <1>6 DEF AgentInv, Authorised, Enforced
  <2>2. Good(invoking, a, approved)
    BY <1>1, <1>2, <1>6, <2>1, GoodInvoking
  <2>3. Set(w, invoking) /\ UNCHANGED store
    BY <1>6 DEF TaskGate
  <2> QED
    BY <1>4, <2>2, <2>3
<1>7. CASE t.tool # NoTool /\ ~(a.broker = Off \/ a.resumed)
  <2>1. t = a.plan.tasks[a.idx] /\ t \in Task
    BY <1>2, PlanTyped DEF CurrentTask
  <2>2. ActionForTask(t) \in Action /\ t.task_id \in TaskIds
    BY <1>2, <1>7, <2>1, TaskActionTyped DEF Task
  <2>3. Decide(a.broker, ActionForTask(t)) = "allow" => Good(invoking, a, approved)
    BY <1>1, <1>2, <1>7, AllowedIsAuthorised, GoodInvoking
  <2>4. SnapInv(ToState(a, "action", ActionForTask(t), t.task_id))
    BY <1>2, <1>7, <2>1 DEF SnapInv, ToState
  <2>5. Gate(w, ActionForTask(t), "action", t.task_id, invoking)
    BY <1>7 DEF TaskGate
  <2> QED
    BY <1>1, <1>3, <2>2, <2>3, <2>4, <2>5, GateStep
<1> QED
  BY <1>5, <1>6, <1>7

\* ToolBroker.invoke: what is performed is the authorised action.
LEMMA InvokeStep ==
  ASSUME IInv, NEW w \in Workers, Invoke(w)
  PROVE  IInv'
<1> DEFINE a == agent[w]
           t == CurrentTask(a)
           call == [action |-> ActionForTask(t), broker |-> a.broker]
<1>1. a # Idle /\ a \in Agent /\ AgentInv(a, approved) /\ a.pc = "invoke"
  BY DEF Invoke, At, IInv, TypeOK, AgentsInv
<1>2. /\ a.plan \in KnownPlans /\ a.idx \in 1..Len(a.plan.tasks)
      /\ t.tool # NoTool /\ Authorised(a.broker, ActionForTask(t), approved)
  BY <1>1 DEF Agent, AgentInv
<1>3. t \in Task /\ ActionForTask(t) \in Action
  BY <1>2, PlanTyped, TaskActionTyped DEF CurrentTask
<1>4. UNCHANGED <<store, grants, broker, outcome, approved, planCalls, records, twinPuts,
                  faults>>
  BY DEF Invoke
<1>5. PICK x : Set(w, x) /\ Good(x, a, approved)
  <2> DEFINE b == [a EXCEPT !.outputs = @ \cup {t.task_id}]
  <2>1. b \in Agent /\ b.call = a.call /\ b.run = a.run /\ b.plan = a.plan /\ b.idx = a.idx
    BY <1>1, <1>3 DEF Agent, Task
  <2>2. Good(AfterTool(b), b, approved)
    BY <1>2, <2>1, GoodAfterTool
  <2>3. Good(AfterTool(b), a, approved)
    BY <2>1, <2>2 DEF Good
  <2>4. Good(Finalize(a, "FAILED"), a, approved)
    BY <1>1, GoodEnds DEF States, TERMINAL
  <2>5. Set(w, AfterTool(b)) \/ Set(w, Finalize(a, "FAILED"))
    BY DEF Invoke
  <2> QED
    BY <2>3, <2>4, <2>5
<1>6. agent' \in [Workers -> Agent \cup {Idle}] /\ AgentsInv' /\ RowsKept'
  BY <1>1, <1>4, <1>5, SetAgents, SetRows DEF IInv, Good
<1>7. performed' = performed \cup {call} \/ performed' = performed
  BY DEF Invoke
<1>8. /\ performed' \subseteq [action : Action, broker : Brokers \cup {Off}]
      /\ PerformedInv'
  BY <1>1, <1>2, <1>3, <1>4, <1>7 DEF IInv, TypeOK, Agent, PerformedInv
<1>9. ran' \in [Msgs -> [RanKey -> Nat]]
  <2>1. ran \in [Msgs -> [RanKey -> Nat]] /\ a.msg \in Msgs
    BY <1>1 DEF IInv, TypeOK, Agent
  <2>2. \/ ran' = [ran EXCEPT ![a.msg][<<a.replans, t.task_id>>] = Bump(@)]
        \/ ran' = ran
    BY DEF Invoke
  <2> DEFINE key == <<a.replans, t.task_id>>
             row == [ran[a.msg] EXCEPT ![key] = Bump(@)]
  <2>3. row \in [RanKey -> Nat]
    BY <2>1, BumpTyped
  <2> QED
    BY <2>1, <2>2, <2>3
<1> QED
  BY <1>4, <1>6, <1>8, <1>9 DEF IInv, TypeOK, StoreInv, GrantsInv

\* Verification goes on, replans or ends the run.
LEMMA VerifyStep ==
  ASSUME IInv, NEW w \in Workers, Verify(w)
  PROVE  IInv'
<1> DEFINE a == agent[w]
           again == [a EXCEPT !.replans = @ + 1]
           replan == [again EXCEPT !.state = "REPLANNING", !.pc = "plan"]
<1>1. a # Idle /\ a \in Agent /\ AgentInv(a, approved) /\ a.pc = "verify"
  BY DEF Verify, At, IInv, TypeOK, AgentsInv
<1>2. a.idx \in 1..Len(a.plan.tasks)
  BY <1>1 DEF AgentInv
<1>3. UNCHANGED <<store, grants, broker, outcome, history>>
  BY DEF Verify
<1>4. Good(Advance(a), a, approved) /\ Good(Finalize(a, "FAILED"), a, approved)
  BY <1>1, <1>2, GoodAdvance, GoodEnds DEF States, TERMINAL
<1>5. again \in Agent /\ again.call = a.call /\ again.run = a.run
  BY <1>1 DEF Agent
<1>6. Good(Finalize(again, "ESCALATED"), a, approved)
  BY <1>5, GoodEnds DEF Good, States, TERMINAL
<1>7. Good(replan, a, approved)
  <2>1. replan \in Agent /\ replan.call = a.call /\ replan.run = a.run
    BY <1>5 DEF Agent, States
  <2>2. replan.pc = "plan"
    BY <1>5 DEF Agent
  <2>3. AgentInv(replan, approved)
    BY <2>2 DEF AgentInv
  <2> QED
    BY <2>1, <2>3 DEF Good
<1>8. PICK x : Set(w, x) /\ Good(x, a, approved)
  BY <1>4, <1>6, <1>7 DEF Verify
<1>9. UNCHANGED <<store, grants, broker, approved, performed>>
  BY <1>3 DEF history
<1>10. /\ agent' \in [Workers -> Agent \cup {Idle}]
       /\ AgentsInv' /\ StoreInv' /\ GrantsInv' /\ RowsKept' /\ PerformedInv'
  BY <1>1, <1>8, <1>9, Moves
<1> QED
  BY <1>3, <1>10 DEF IInv, TypeOK, history

\* The run record disturbs nothing.
LEMMA FinalizeMemoryStep ==
  ASSUME IInv, NEW w \in Workers, FinalizeMemory(w)
  PROVE  IInv'
<1> DEFINE a == agent[w]
           x == [a EXCEPT !.pc = "twin"]
<1>1. a # Idle /\ a \in Agent /\ a.msg \in Msgs /\ a.state \in States
  BY DEF FinalizeMemory, At, IInv, TypeOK, Agent
<1>2. Set(w, x)
  BY DEF FinalizeMemory
<1>3. UNCHANGED <<store, grants, broker, outcome, approved, performed, ran, planCalls,
                  twinPuts, faults>>
  BY DEF FinalizeMemory
<1>4. Good(x, a, approved)
  BY <1>1 DEF Good, Agent, AgentInv
<1>5. records' \in [Msgs -> SUBSET States]
  BY <1>1 DEF FinalizeMemory, IInv, TypeOK
<1>6. /\ agent' \in [Workers -> Agent \cup {Idle}]
      /\ AgentsInv' /\ StoreInv' /\ GrantsInv' /\ RowsKept' /\ PerformedInv'
  BY <1>1, <1>2, <1>3, <1>4, Moves
<1> QED
  BY <1>3, <1>5, <1>6 DEF IInv, TypeOK

\* The twin write disturbs nothing but the reported state.
LEMMA FinalizeTwinStep ==
  ASSUME IInv, NEW w \in Workers, FinalizeTwin(w)
  PROVE  IInv'
<1> DEFINE a == agent[w]
<1>1. a # Idle /\ a \in Agent /\ a.msg \in Msgs /\ a.state \in States
  BY DEF FinalizeTwin, At, IInv, TypeOK, Agent
<1>2. UNCHANGED <<store, grants, broker, outcome, approved, performed, ran, planCalls,
                  records, faults>>
  BY DEF FinalizeTwin
<1>3. PICK x : Set(w, x) /\ Good(x, a, approved)
  BY <1>1, GoodEnds DEF FinalizeTwin, States, TERMINAL
<1>4. twinPuts' \in [Msgs -> Nat]
  <2>1. twinPuts \in [Msgs -> Nat]
    BY DEF IInv, TypeOK
  <2>2. \/ twinPuts' = [twinPuts EXCEPT ![a.msg] = Bump(@)]
        \/ twinPuts' = twinPuts
    BY DEF FinalizeTwin
  <2> QED
    BY <1>1, <2>1, <2>2, BumpTyped
<1>5. /\ agent' \in [Workers -> Agent \cup {Idle}]
      /\ AgentsInv' /\ StoreInv' /\ GrantsInv' /\ RowsKept' /\ PerformedInv'
  BY <1>1, <1>2, <1>3, Moves
<1> QED
  BY <1>2, <1>4, <1>5 DEF IInv, TypeOK

\* Marking a row keeps its snapshot.
LEMMA ReturnStep ==
  ASSUME IInv, NEW w \in Workers, Return(w)
  PROVE  IInv'
<1> DEFINE a == agent[w]
           r == a.run
           mark == IF a.state = "REJECTED" THEN "denied" ELSE "resolved"
           row == [store[r] EXCEPT !.status = mark]
<1>1. a # Idle /\ a \in Agent /\ a.msg \in Msgs /\ a.state \in States /\ r \in RunIds
  BY DEF Return, At, IInv, TypeOK, Agent
<1>2. UNCHANGED <<grants, broker, history>> /\ Set(w, Idle)
  BY DEF Return
<1>3. outcome' \in [Msgs -> Outcomes]
  BY <1>1 DEF Return, IInv, TypeOK, Outcomes
<1>4. \/ store' = store
      \/ store[r] # NoRow /\ store' = [store EXCEPT ![r] = row]
  BY <1>1 DEF Return, MarkResolved, IInv, RowsKept
<1>5. /\ store' \in [RunIds -> PausedRun \cup {NoRow}]
      /\ StoreInv'
      /\ \A q \in RunIds : store[q] # NoRow => store'[q] # NoRow
  <2>1. CASE store' = store
    BY <2>1 DEF IInv, TypeOK, StoreInv
  <2>2. CASE store[r] # NoRow /\ store' = [store EXCEPT ![r] = row]
    <3>1. store[r] \in PausedRun /\ SnapInv(store[r].snap)
      BY <1>1, <2>2 DEF IInv, TypeOK, StoreInv
    <3>2. row \in PausedRun /\ row.snap = store[r].snap
      BY <3>1 DEF PausedRun
    <3>3. row # NoRow
      BY <3>2, SentinelsDistinct
    <3>4. \A q \in RunIds : store'[q] = IF q = r THEN row ELSE store[q]
      BY <2>2 DEF IInv, TypeOK
    <3>5. StoreInv'
      BY <3>1, <3>2, <3>4 DEF IInv, StoreInv
    <3> QED
      BY <2>2, <3>2, <3>3, <3>4, <3>5 DEF IInv, TypeOK
  <2> QED
    BY <1>4, <2>1, <2>2
<1>6. agent' \in [Workers -> Agent \cup {Idle}] /\ AgentsInv'
  BY <1>2, SetAgents DEF IInv, history
<1>7. RowsKept'
  BY <1>2, <1>5, SetRows DEF IInv
<1> QED
  BY <1>2, <1>3, <1>5, <1>6, <1>7 DEF IInv, TypeOK, GrantsInv, PerformedInv, history

\* A call that ends without its mark leaves the row alone.
LEMMA FaultStep ==
  ASSUME IInv, NEW w \in Workers, ReturnUnmarked(w) \/ Crash(w)
  PROVE  IInv'
<1> DEFINE a == agent[w]
<1>1. a # Idle /\ a \in Agent /\ a.msg \in Msgs /\ a.state \in States
  BY DEF ReturnUnmarked, Crash, At, IInv, TypeOK, Agent
<1>2. /\ Set(w, Idle)
      /\ UNCHANGED <<store, grants, broker, approved, performed, ran, planCalls, records,
                      twinPuts>>
      /\ faults' = [faults EXCEPT ![a.msg] = @ + 1]
  BY DEF ReturnUnmarked, Crash
<1>3. faults' \in [Msgs -> Nat]
  BY <1>1, <1>2 DEF IInv, TypeOK
<1>4. outcome' \in [Msgs -> Outcomes]
  BY <1>1 DEF ReturnUnmarked, Crash, IInv, TypeOK, Outcomes
<1>5. /\ agent' \in [Workers -> Agent \cup {Idle}]
      /\ AgentsInv' /\ StoreInv' /\ GrantsInv' /\ RowsKept' /\ PerformedInv'
  BY <1>1, <1>2, Moves
<1> QED
  BY <1>2, <1>3, <1>4, <1>5 DEF IInv, TypeOK

\* A NEop that does not load changes only what is reported.
LEMMA UnloadableStep ==
  ASSUME IInv,
         \/ \E m \in Msgs : DispatchUnloadable(m)
         \/ \E r \in RunIds : ResumeUnloadable(r)
  PROVE  IInv'
<1>1. UNCHANGED <<agent, store, grants, broker, history>>
  BY DEF DispatchUnloadable, ResumeUnloadable
<1>2. outcome' \in [Msgs -> Outcomes]
  BY DEF DispatchUnloadable, ResumeUnloadable, IInv, TypeOK, Outcomes, States, TERMINAL
<1> QED
  BY <1>1, <1>2
     DEF IInv, TypeOK, AgentsInv, StoreInv, GrantsInv, RowsKept, PerformedInv, history

\* A human answer is recorded under its name, and so are the names ever allowed.
LEMMA AnswerStep ==
  ASSUME IInv, NEW n \in Names, NEW v \in {"allow", "deny"}, Answer(n, v)
  PROVE  IInv'
<1>1. UNCHANGED <<agent, store, broker, outcome, performed, ran, planCalls, records,
                  twinPuts, faults>>
  BY DEF Answer
<1>2. approved \subseteq approved' /\ approved' \subseteq Names
  BY DEF Answer, IInv, TypeOK
<1>3. grants' \in [Names -> Verdict] /\ GrantsInv'
  <2>1. /\ grants' = [grants EXCEPT ![n] = v]
        /\ v = "allow" => n \in approved'
    BY DEF Answer
  <2>2. grants \in [Names -> Verdict] /\ GrantsInv
    BY DEF IInv, TypeOK
  <2>3. grants' \in [Names -> Verdict]
    BY <2>1, <2>2 DEF Verdict
  <2>4. ASSUME NEW k \in Names, grants'[k] = "allow" PROVE k \in approved'
    BY <1>2, <2>1, <2>2, <2>4 DEF GrantsInv
  <2> QED
    BY <2>3, <2>4 DEF GrantsInv
<1>4. AgentsInv'
  <2> SUFFICES ASSUME NEW w \in Workers, agent[w] # Idle
               PROVE  AgentInv(agent[w], approved')
    BY <1>1 DEF AgentsInv
  <2>1. AgentInv(agent[w], approved)
    BY DEF IInv, AgentsInv
  <2> QED
    BY <1>2, <2>1, Monotone
<1>5. PerformedInv'
  BY <1>1, <1>2 DEF IInv, PerformedInv, Authorised
<1> QED
  BY <1>1, <1>2, <1>3, <1>4, <1>5 DEF IInv, TypeOK, StoreInv, RowsKept

\* A redeployment changes the policy of later calls only.
LEMMA RedeployStep ==
  ASSUME IInv, NEW b \in Brokers \cup {Off}, Redeploy(b)
  PROVE  IInv'
BY DEF Redeploy, IInv, TypeOK, AgentsInv, StoreInv, GrantsInv, RowsKept, PerformedInv, history

\* Every step of the engine and its environment keeps the invariant.
LEMMA NextIInv ==
  ASSUME IInv, [Next]_vars
  PROVE  IInv'
<1>1. CASE UNCHANGED vars
  BY <1>1 DEF vars, history, IInv, TypeOK, AgentsInv, StoreInv, GrantsInv, RowsKept,
              PerformedInv
<1>2. ASSUME NEW w \in Workers, WorkerStep(w) PROVE IInv'
  BY <1>2, ResumeStep, MakePlanStep, PlanGateStep, TaskGateStep, InvokeStep, VerifyStep,
     FinalizeMemoryStep, FinalizeTwinStep, ReturnStep
     DEF WorkerStep
<1> QED
  BY <1>1, <1>2, DispatchStep, DispatchResumeStep, UnloadableStep, FaultStep, AnswerStep,
     RedeployStep
     DEF Next

-----------------------------------------------------------------------------
(***************************************************************************)
(* The theorems.                                                           *)
(***************************************************************************)
\* The gate invariant holds in every state of every run of the engine.
THEOREM Invariance == Spec => []IInv
BY InitIInv, NextIInv, PTL DEF Spec

\* Type correctness of PiAgent, its paused-run store and its verdicts.
THEOREM TypeCorrect == Spec => []TypeOK
<1>1. IInv => TypeOK
  BY DEF IInv
<1> QED
  BY <1>1, Invariance, PTL

\* GW-5: while governance is enforced no denylisted tool is ever invoked, whatever was
\* granted, paused or redeployed before, for callers of any discipline.
THEOREM HardDenyNeverRuns == Spec => []HardDenyAbsolute
<1>1. IInv => HardDenyAbsolute
  BY DEF IInv, PerformedInv, Authorised, HardDenyAbsolute
<1> QED
  BY <1>1, Invariance, PTL

\* "Consent precedes the mutation" (_execute_and_maybe_verify): every enforced tool call was
\* allowed by policy or by a human, across any number of pauses, crashes and redeployments.
THEOREM ConsentFirst == Spec => []ConsentPrecedesMutation
<1>1. IInv => ConsentPrecedesMutation
  BY DEF IInv, PerformedInv, Authorised, ConsentPrecedesMutation
<1> QED
  BY <1>1, Invariance, PTL

-----------------------------------------------------------------------------
(***************************************************************************)
(* What the transitions of one object keep, and where they leave it.       *)
(***************************************************************************)
SameRun(x, a) == /\ x \in Agent /\ x.call = a.call /\ x.run = a.run /\ x.msg = a.msg
                 /\ x.plan = a.plan /\ x.replans = a.replans

LEMMA EndsWhere ==
  ASSUME NEW a \in Agent, NEW s \in States
  PROVE  /\ SameRun(Stop(a, s), a) /\ Stop(a, s).pc = "return" /\ Stop(a, s).state = s
         /\ SameRun(Finalize(a, s), a) /\ Finalize(a, s).pc = "memory" /\ Finalize(a, s).state = s
BY DEF SameRun, Stop, Finalize, Agent

LEMMA BeginWhere ==
  ASSUME NEW a \in Agent
  PROVE  LET x == BeginPlan(a)
         IN  /\ SameRun(x, a) /\ x.state # "AWAITING_APPROVAL"
             /\ (x.pc = "memory" /\ x.state = "DONE") \/ (x.pc = "task" /\ x.idx = 1)
<1> DEFINE b == [a EXCEPT !.outputs = {}]
           c == [a EXCEPT !.outputs = {}, !.idx = 1, !.resumed = FALSE, !.state = "EXECUTING", !.pc = "task"]
<1>1. SameRun(b, a) BY DEF SameRun, Agent
<1>2. SameRun(c, a) /\ c.pc = "task" /\ c.idx = 1 /\ c.state = "EXECUTING" BY DEF SameRun, Agent, States
<1>3. "DONE" \in States BY DEF States, TERMINAL
<1>4. SameRun(Finalize(b, "DONE"), a) /\ Finalize(b, "DONE").pc = "memory" /\ Finalize(b, "DONE").state = "DONE"
  BY <1>1, <1>3, EndsWhere DEF SameRun
<1>5. BeginPlan(a) = Finalize(b, "DONE") \/ BeginPlan(a) = c BY DEF BeginPlan
<1> HIDE DEF b, c
<1>6. CASE BeginPlan(a) = c BY <1>2, <1>6
<1>7. CASE BeginPlan(a) = Finalize(b, "DONE") BY <1>4, <1>7
<1> QED BY <1>5, <1>6, <1>7

LEMMA AdvanceWhere ==
  ASSUME NEW a \in Agent
  PROVE  LET x == Advance(a)
         IN  /\ SameRun(x, a) /\ x.outputs = a.outputs /\ x.state # "AWAITING_APPROVAL"
             /\ (x.pc = "memory" /\ x.state = "DONE") \/ (x.pc = "task" /\ x.idx = a.idx + 1)
<1> DEFINE c == [a EXCEPT !.idx = @ + 1, !.resumed = FALSE, !.state = "EXECUTING", !.pc = "task"]
<1>1. a.idx + 1 \in Nat BY DEF Agent
<1>2. SameRun(c, a) /\ c.pc = "task" /\ c.idx = a.idx + 1 /\ c.outputs = a.outputs /\ c.state = "EXECUTING"
  BY <1>1 DEF SameRun, Agent, States
<1>3. "DONE" \in States BY DEF States, TERMINAL
<1>4. /\ SameRun(Finalize(a, "DONE"), a) /\ Finalize(a, "DONE").pc = "memory"
      /\ Finalize(a, "DONE").state = "DONE" /\ Finalize(a, "DONE").outputs = a.outputs
  BY <1>3, EndsWhere DEF Finalize, Agent
<1>5. Advance(a) = c \/ Advance(a) = Finalize(a, "DONE") BY DEF Advance
<1> HIDE DEF c
<1>6. CASE Advance(a) = c BY <1>2, <1>6
<1>7. CASE Advance(a) = Finalize(a, "DONE") BY <1>4, <1>7
<1> QED BY <1>5, <1>6, <1>7

LEMMA AfterToolWhere ==
  ASSUME NEW a \in Agent
  PROVE  LET x == AfterTool(a)
         IN  /\ SameRun(x, a) /\ x.outputs = a.outputs /\ x.state # "AWAITING_APPROVAL"
             /\ \/ x.pc = "memory" /\ x.state = "DONE"
                \/ x.pc = "task" /\ x.idx = a.idx + 1
                \/ x.pc = "verify" /\ x.idx = a.idx
<1> DEFINE c == [a EXCEPT !.state = "VERIFYING", !.pc = "verify"]
<1>1. SameRun(c, a) /\ c.pc = "verify" /\ c.idx = a.idx /\ c.outputs = a.outputs /\ c.state = "VERIFYING"
  BY DEF SameRun, Agent, States
<1>2. AfterTool(a) = IF "verify" \in Phases(a.msg) THEN c ELSE Advance(a) BY DEF AfterTool
<1> HIDE DEF c
<1> QED BY <1>1, <1>2, AdvanceWhere

\* mark_resolved changes the status of the call's own row and nothing else of the store.
LEMMA MarkKeeps ==
  ASSUME IInv, NEW w \in Workers, Return(w)
  PROVE  /\ \A r \in RunIds : store'[r] # NoRow <=> store[r] # NoRow
         /\ \A r \in RunIds : store[r] # NoRow => store'[r].snap = store[r].snap
         /\ \A r \in RunIds : r # agent[w].run => store'[r] = store[r]
         /\ agent[w].call # "resume" => store' = store
         /\ agent[w].call = "resume" => store'[agent[w].run].status # "pending"
<1> DEFINE a == agent[w]
           q == a.run
           mark == IF a.state = "REJECTED" THEN "denied" ELSE "resolved"
           row == [store[q] EXCEPT !.status = mark]
<1>1. a # Idle /\ a \in Agent /\ q \in RunIds BY DEF Return, At, IInv, TypeOK, Agent
<1>2. CASE a.call # "resume" BY <1>2 DEF Return
<1>3. CASE a.call = "resume"
  <2>1. store[q] # NoRow /\ store[q] \in PausedRun BY <1>1, <1>3 DEF IInv, RowsKept, TypeOK
  <2>2. store' = [store EXCEPT ![q] = row] BY <1>3 DEF Return, MarkResolved
  <2>3. row \in PausedRun /\ row.snap = store[q].snap /\ row.status = mark BY <2>1 DEF PausedRun
  <2>4. row # NoRow /\ mark # "pending" BY <2>3, SentinelsDistinct
  <2> HIDE DEF row, mark
  <2>5. \A r \in RunIds : store'[r] = IF r = q THEN row ELSE store[r] BY <2>2 DEF IInv, TypeOK
  <2> QED BY <1>1, <1>3, <2>1, <2>3, <2>4, <2>5
<1> QED BY <1>2, <1>3

\* Distinct ids: an id says where in the plan a task stands.
LEMMA IdTellsPlace ==
  ASSUME NEW p \in KnownPlans, NEW i \in 1..Len(p.tasks), NEW n \in 0..Len(p.tasks),
         n + 1 \in 1..Len(p.tasks), p.tasks[n + 1].task_id = p.tasks[i].task_id
  PROVE  n = i - 1
<1>1. n + 1 = i BY PlansOrdered
<1>2. i \in Nat /\ n \in Nat BY PlanTyped
<1> QED BY <1>1, <1>2

-----------------------------------------------------------------------------
(***************************************************************************)
(* Upstream outputs.  What has been done of a plan is a prefix of it: the  *)
(* invariant carries the outputs of that prefix through the task loop and, *)
(* with a pause, through the snapshot to the task the run resumes at.      *)
(***************************************************************************)
\* The first n tasks of plan p that have a tool have left their outputs.
Has(p, n, outs) == \A j \in 1..n : p.tasks[j].tool # NoTool => p.tasks[j].task_id \in outs

\* Snapshot s was taken with n tasks done.
PausedBefore(s, n) ==
  \/ s.pause_scope = "plan" /\ n = 0
  \/ /\ s.pause_scope = "action" /\ n + 1 \in 1..Len(s.plan.tasks)
     /\ s.plan.tasks[n + 1].task_id = s.paused_task_id

SnapHas(s) == \A n \in 0..Len(s.plan.tasks) : PausedBefore(s, n) => Has(s.plan, n, s.outputs)

AgentHas(a) ==
  /\ a.pc \in {"task", "invoke"} => Has(a.plan, a.idx - 1, a.outputs)
  /\ a.pc = "verify" => Has(a.plan, a.idx, a.outputs)
  /\ a.pc = "resolve" => SnapHas(a.pause) /\ a.outputs = a.pause.outputs

OutputsInv ==
  /\ \A w \in Workers : agent[w] # Idle => AgentHas(agent[w])
  /\ \A r \in RunIds : store[r] # NoRow => SnapHas(store[r].snap)

\* A snapshot taken before task i keeps what the i - 1 before it left.
LEMMA SnapshotHas ==
  ASSUME NEW a \in Agent, NEW act, NEW scope \in {"plan", "action"}, NEW tid,
         scope = "action" => a.idx \in 1..Len(a.plan.tasks) /\ tid = a.plan.tasks[a.idx].task_id
                             /\ Has(a.plan, a.idx - 1, a.outputs)
  PROVE  SnapHas(ToState(a, scope, act, tid))
<1> DEFINE s == ToState(a, scope, act, tid)
<1>1. s.plan = a.plan /\ s.pause_scope = scope /\ s.paused_task_id = tid /\ s.outputs = a.outputs BY DEF ToState
<1>2. a.plan \in KnownPlans BY DEF Agent
<1> HIDE DEF s
<1> SUFFICES ASSUME NEW n \in 0..Len(a.plan.tasks), PausedBefore(s, n) PROVE Has(a.plan, n, a.outputs)
  BY <1>1 DEF SnapHas, s
<1>3. CASE scope = "plan"
  <2>1. n = 0 BY <1>1, <1>3 DEF PausedBefore
  <2> QED BY <2>1 DEF Has
<1>4. CASE scope = "action"
  <2>1. n + 1 \in 1..Len(a.plan.tasks) /\ a.plan.tasks[n + 1].task_id = a.plan.tasks[a.idx].task_id
    BY <1>1, <1>4 DEF PausedBefore
  <2>2. n = a.idx - 1 BY <1>2, <1>4, <2>1, IdTellsPlace
  <2> QED BY <1>4, <2>2
<1> QED BY <1>3, <1>4

\* One call moves and the rows are as they were, or its own row is a snapshot it has just taken.
LEMMA OutputsMove ==
  ASSUME IInv, OutputsInv, NEW w \in Workers, NEW x, Set(w, x), x = Idle \/ AgentHas(x),
         \A r \in RunIds : store'[r] # NoRow =>
           (store[r] # NoRow /\ store'[r].snap = store[r].snap) \/ SnapHas(store'[r].snap)
  PROVE  OutputsInv'
<1>1. \A v \in Workers : agent'[v] = IF v = w THEN x ELSE agent[v] BY DEF IInv, TypeOK, Set
<1>2. \A v \in Workers : agent'[v] # Idle => AgentHas(agent'[v]) BY <1>1 DEF OutputsInv
<1>3. \A r \in RunIds : store'[r] # NoRow => SnapHas(store'[r].snap) BY DEF OutputsInv
<1> QED BY <1>2, <1>3 DEF OutputsInv

\* What an ending, a fresh plan or the next task has.
LEMMA NowhereHas == \A x : x.pc \in {"plan", "plan_gate", "memory", "twin", "return"} => AgentHas(x)
BY DEF AgentHas

LEMMA BeginHas == ASSUME NEW a \in Agent PROVE AgentHas(BeginPlan(a))
<1>1. CASE BeginPlan(a).pc = "memory" BY <1>1, NowhereHas
<1>2. CASE BeginPlan(a).pc = "task" /\ BeginPlan(a).idx = 1 BY <1>2 DEF AgentHas, Has
<1> QED BY <1>1, <1>2, BeginWhere

LEMMA AdvanceHas ==
  ASSUME NEW a \in Agent, Has(a.plan, a.idx, a.outputs) PROVE AgentHas(Advance(a))
<1> DEFINE x == Advance(a)
<1>1. CASE x.pc = "memory" BY <1>1, NowhereHas
<1>2. CASE x.pc = "task" /\ x.idx = a.idx + 1
  <2>1. x.idx - 1 = a.idx /\ x.plan = a.plan /\ x.outputs = a.outputs BY <1>2, AdvanceWhere DEF SameRun, Agent
  <2> QED BY <1>2, <2>1 DEF AgentHas
<1> QED BY <1>1, <1>2, AdvanceWhere

LEMMA AfterToolHas ==
  ASSUME NEW a \in Agent, Has(a.plan, a.idx, a.outputs) PROVE AgentHas(AfterTool(a))
<1> DEFINE x == AfterTool(a)
<1>1. CASE "verify" \in Phases(a.msg)
  <2>1. x.pc = "verify" /\ x.idx = a.idx /\ x.plan = a.plan /\ x.outputs = a.outputs BY <1>1 DEF AfterTool, Agent
  <2> QED BY <2>1 DEF AgentHas
<1>2. CASE "verify" \notin Phases(a.msg) BY <1>2, AdvanceHas DEF AfterTool
<1> QED BY <1>1, <1>2

LEMMA HasOneMore ==
  ASSUME NEW a \in Agent, a.idx \in 1..Len(a.plan.tasks), NEW outs, Has(a.plan, a.idx - 1, outs)
  PROVE  /\ CurrentTask(a).tool = NoTool => Has(a.plan, a.idx, outs)
         /\ Has(a.plan, a.idx, outs \cup {CurrentTask(a).task_id})
<1>1. a.idx \in Nat BY DEF Agent
<1>2. \A j \in 1..a.idx : j = a.idx \/ j \in 1..(a.idx - 1) BY <1>1
<1> QED BY <1>2 DEF Has, CurrentTask

\* Resuming at the paused task finds the outputs the snapshot was taken with.
LEMMA ResumeOutputs == ASSUME IInv, OutputsInv, NEW w \in Workers, Resume(w) PROVE OutputsInv'
<1> DEFINE a == agent[w]
<1>1. a # Idle /\ a \in Agent /\ AgentInv(a, approved) /\ AgentHas(a) /\ a.pc = "resolve"
  BY DEF Resume, At, IInv, TypeOK, AgentsInv, OutputsInv
<1>2. UNCHANGED store BY DEF Resume
<1>3. PICK x : Set(w, x) /\ AgentHas(x)
  <2>1. CASE Set(w, Stop(a, "REJECTED"))
    <3>1. Stop(a, "REJECTED").pc = "return" BY <1>1, EndsWhere DEF States, TERMINAL
    <3> QED BY <2>1, <3>1, NowhereHas
  <2>2. CASE Set(w, BeginPlan(a)) BY <1>1, <2>2, BeginHas
  <2>3. ASSUME NEW i \in 1..Len(a.plan.tasks), a.plan.tasks[i].task_id = a.pause.paused_task_id,
               a.pause.pause_scope = "action",
               Set(w, [a EXCEPT !.idx = i, !.resumed = TRUE, !.state = "EXECUTING", !.pc = "task"])
        PROVE  \E x : Set(w, x) /\ AgentHas(x)
    <3> DEFINE b == [a EXCEPT !.idx = i, !.resumed = TRUE, !.state = "EXECUTING", !.pc = "task"]
    <3>1. b.pc = "task" /\ b.idx = i /\ b.plan = a.plan /\ b.outputs = a.outputs BY <1>1 DEF Agent
    <3>2. a.pause.plan = a.plan /\ a.plan \in KnownPlans /\ SnapHas(a.pause) /\ a.outputs = a.pause.outputs
      BY <1>1 DEF AgentInv, AgentHas, Agent
    <3>3. i - 1 \in 0..Len(a.plan.tasks) /\ (i - 1) + 1 = i BY <3>2, PlanTyped
    <3>4. PausedBefore(a.pause, i - 1) BY <2>3, <3>2, <3>3 DEF PausedBefore
    <3>5. Has(a.plan, i - 1, a.outputs) BY <3>2, <3>3, <3>4 DEF SnapHas
    <3> HIDE DEF b
    <3>6. AgentHas(b) BY <3>1, <3>5 DEF AgentHas
    <3> QED BY <2>3, <3>6 DEF b
  <2> QED BY <2>1, <2>2, <2>3 DEF Resume
<1> QED BY <1>2, <1>3, OutputsMove

\* A gate saves a snapshot that has what the call has.
LEMMA GateOutputs ==
  ASSUME IInv, OutputsInv, NEW w \in Workers, agent[w] # Idle, NEW act, NEW scope \in {"plan", "action"},
         NEW tid, NEW onward, Gate(w, act, scope, tid, onward), AgentHas(onward),
         SnapHas(ToState(agent[w], scope, act, tid))
  PROVE  OutputsInv'
<1> DEFINE a == agent[w]
           row == [snap |-> ToState(a, scope, act, tid), status |-> "pending"]
<1>1. a \in Agent BY DEF IInv, TypeOK
<1>2. Stop(a, "REJECTED").pc = "return" /\ Stop(a, "AWAITING_APPROVAL").pc = "return"
  BY <1>1, EndsWhere DEF States, TERMINAL
<1>3. PICK x : Set(w, x) /\ AgentHas(x) BY <1>2, NowhereHas DEF Gate
<1>4. store' = store \/ store' = [store EXCEPT ![a.run] = row] BY DEF Gate
<1>5. \A r \in RunIds : store'[r] = store[r] \/ store'[r] = row BY <1>4 DEF IInv, TypeOK
<1> QED BY <1>3, <1>5, OutputsMove

LEMMA TaskGateOutputs == ASSUME IInv, OutputsInv, NEW w \in Workers, TaskGate(w) PROVE OutputsInv'
<1> DEFINE a == agent[w]
           t == CurrentTask(a)
           invoking == [a EXCEPT !.pc = "invoke"]
<1>1. a # Idle /\ a \in Agent /\ AgentInv(a, approved) /\ AgentHas(a) /\ a.pc = "task"
  BY DEF TaskGate, At, IInv, TypeOK, AgentsInv, OutputsInv
<1>2. a.idx \in 1..Len(a.plan.tasks) /\ Has(a.plan, a.idx - 1, a.outputs) BY <1>1 DEF AgentInv, AgentHas
<1>3. AgentHas(invoking)
  <2>1. invoking.pc = "invoke" /\ invoking.idx = a.idx /\ invoking.plan = a.plan /\ invoking.outputs = a.outputs
    BY <1>1 DEF Agent
  <2> QED BY <1>2, <2>1 DEF AgentHas
<1>4. CASE t.tool = NoTool
  <2>1. AgentHas(AfterTool(a)) BY <1>1, <1>2, <1>4, HasOneMore, AfterToolHas
  <2>2. Set(w, AfterTool(a)) /\ UNCHANGED store BY <1>4 DEF TaskGate
  <2> QED BY <2>1, <2>2, OutputsMove
<1>5. CASE t.tool # NoTool /\ (a.broker = Off \/ a.resumed)
  <2>1. Set(w, invoking) /\ UNCHANGED store BY <1>5 DEF TaskGate
  <2> QED BY <1>3, <2>1, OutputsMove
<1>6. CASE t.tool # NoTool /\ ~(a.broker = Off \/ a.resumed)
  <2>1. Gate(w, ActionForTask(t), "action", t.task_id, invoking) BY <1>6 DEF TaskGate
  <2>2. SnapHas(ToState(a, "action", ActionForTask(t), t.task_id)) BY <1>1, <1>2, SnapshotHas DEF CurrentTask
  <2> QED BY <1>1, <1>3, <2>1, <2>2, GateOutputs
<1> QED BY <1>4, <1>5, <1>6

LEMMA InvokeOutputs == ASSUME IInv, OutputsInv, NEW w \in Workers, Invoke(w) PROVE OutputsInv'
<1> DEFINE a == agent[w]
           t == CurrentTask(a)
           b == [a EXCEPT !.outputs = @ \cup {t.task_id}]
<1>1. a # Idle /\ a \in Agent /\ AgentInv(a, approved) /\ AgentHas(a) /\ a.pc = "invoke"
  BY DEF Invoke, At, IInv, TypeOK, AgentsInv, OutputsInv
<1>2. a.idx \in 1..Len(a.plan.tasks) /\ Has(a.plan, a.idx - 1, a.outputs) BY <1>1 DEF AgentInv, AgentHas
<1>3. t \in Task BY <1>1, <1>2, PlanTyped DEF CurrentTask, Agent
<1>4. b \in Agent /\ b.plan = a.plan /\ b.idx = a.idx /\ b.outputs = a.outputs \cup {t.task_id}
  BY <1>1, <1>3 DEF Agent, Task
<1>5. Has(b.plan, b.idx, b.outputs) BY <1>1, <1>2, <1>4, HasOneMore
<1> HIDE DEF b
<1>6. AgentHas(AfterTool(b)) BY <1>4, <1>5, AfterToolHas
<1>7. AgentHas(Finalize(a, "FAILED"))
  <2>1. Finalize(a, "FAILED").pc = "memory" BY <1>1, EndsWhere DEF States, TERMINAL
  <2> QED BY <2>1, NowhereHas
<1>8. Set(w, AfterTool(b)) \/ Set(w, Finalize(a, "FAILED")) BY DEF Invoke, b
<1>9. UNCHANGED store BY DEF Invoke
<1> QED BY <1>6, <1>7, <1>8, <1>9, OutputsMove

LEMMA VerifyOutputs == ASSUME IInv, OutputsInv, NEW w \in Workers, Verify(w) PROVE OutputsInv'
<1> DEFINE a == agent[w]
           again == [a EXCEPT !.replans = @ + 1]
           replan == [again EXCEPT !.state = "REPLANNING", !.pc = "plan"]
<1>1. a # Idle /\ a \in Agent /\ AgentHas(a) /\ a.pc = "verify" BY DEF Verify, At, IInv, TypeOK, OutputsInv
<1>2. AgentHas(Advance(a)) BY <1>1, AdvanceHas DEF AgentHas
<1>3. again \in Agent /\ replan.pc = "plan" BY <1>1 DEF Agent
<1>4. Finalize(a, "FAILED").pc = "memory" /\ Finalize(again, "ESCALATED").pc = "memory"
  BY <1>1, <1>3, EndsWhere DEF States, TERMINAL
<1> HIDE DEF replan, again
<1>5. AgentHas(Finalize(a, "FAILED")) /\ AgentHas(Finalize(again, "ESCALATED")) /\ AgentHas(replan)
  BY <1>3, <1>4, NowhereHas
<1>6. \/ Set(w, Advance(a)) \/ Set(w, Finalize(a, "FAILED")) \/ Set(w, Finalize(again, "ESCALATED"))
      \/ Set(w, replan)
  BY DEF Verify, again, replan
<1>7. UNCHANGED store BY DEF Verify
<1> QED BY <1>2, <1>5, <1>6, <1>7, OutputsMove

LEMMA OtherOutputs ==
  ASSUME IInv, OutputsInv, NEW w \in Workers,
         MakePlan(w) \/ PlanGate(w) \/ FinalizeMemory(w) \/ FinalizeTwin(w) \/ Return(w) \/ ReturnUnmarked(w) \/ Crash(w)
  PROVE  OutputsInv'
<1> DEFINE a == agent[w]
<1>1. a # Idle /\ a \in Agent BY DEF IInv, TypeOK, MakePlan, PlanGate, FinalizeMemory, FinalizeTwin, Return, ReturnUnmarked, Crash, At
<1>2. CASE MakePlan(w)
  <2> DEFINE planned(p) == [a EXCEPT !.plan = p, !.state = "PLANNING", !.pc = "plan_gate"]
  <2>1. PICK p \in KnownPlans : Set(w, BeginPlan(planned(p))) \/ Set(w, planned(p)) BY <1>2 DEF MakePlan, KnownPlans
  <2>2. planned(p) \in Agent /\ planned(p).pc = "plan_gate" BY <1>1 DEF Agent, States
  <2> HIDE DEF planned
  <2>3. AgentHas(planned(p)) BY <2>2, NowhereHas
  <2>4. AgentHas(BeginPlan(planned(p))) BY <2>2, BeginHas
  <2>5. UNCHANGED store BY <1>2 DEF MakePlan
  <2> QED BY <2>1, <2>3, <2>4, <2>5, OutputsMove
<1>3. CASE PlanGate(w)
  <2>1. Gate(w, PlanAction(a.plan), "plan", NoTool, BeginPlan(a)) BY <1>3 DEF PlanGate
  <2>2. SnapHas(ToState(a, "plan", PlanAction(a.plan), NoTool)) BY <1>1, SnapshotHas
  <2>3. AgentHas(BeginPlan(a)) BY <1>1, BeginHas
  <2> QED BY <1>1, <2>1, <2>2, <2>3, GateOutputs
<1>4. CASE FinalizeMemory(w)
  <2> DEFINE x == [a EXCEPT !.pc = "twin"]
  <2>1. x.pc = "twin" BY <1>1 DEF Agent
  <2>2. Set(w, x) /\ UNCHANGED store BY <1>4 DEF FinalizeMemory
  <2> HIDE DEF x
  <2> QED BY <2>1, <2>2, NowhereHas, OutputsMove
<1>5. CASE FinalizeTwin(w)
  <2>1. Stop(a, a.state).pc = "return" /\ Stop(a, "FAILED").pc = "return" BY <1>1, EndsWhere DEF States, TERMINAL, Agent
  <2>2. (Set(w, Stop(a, a.state)) \/ Set(w, Stop(a, "FAILED"))) /\ UNCHANGED store BY <1>5 DEF FinalizeTwin
  <2> QED BY <2>1, <2>2, NowhereHas, OutputsMove
<1>6. CASE Return(w)
  <2>1. Set(w, Idle) BY <1>6 DEF Return
  <2> QED BY <1>6, <2>1, MarkKeeps, OutputsMove
<1>7. CASE ReturnUnmarked(w) \/ Crash(w)
  <2>1. Set(w, Idle) /\ UNCHANGED store BY <1>7 DEF ReturnUnmarked, Crash
  <2> QED BY <2>1, OutputsMove
<1> QED BY <1>2, <1>3, <1>4, <1>5, <1>6, <1>7

LEMMA StartOutputs ==
  ASSUME IInv, OutputsInv, NEW w \in Workers,
         (\E m \in Msgs : Dispatch(w, m)) \/ (\E r \in RunIds : DispatchResume(w, r))
  PROVE  OutputsInv'
<1>1. ASSUME NEW m \in Msgs, Dispatch(w, m) PROVE OutputsInv'
  <2>1. PICK x : Set(w, x) /\ x.pc = "plan" BY <1>1 DEF Dispatch
  <2>2. UNCHANGED store BY <1>1 DEF Dispatch
  <2> QED BY <2>1, <2>2, NowhereHas, OutputsMove
<1>2. ASSUME NEW r \in RunIds, DispatchResume(w, r) PROVE OutputsInv'
  <2>1. PICK x : Set(w, x) /\ x.pc = "resolve" /\ x.pause = store[r].snap /\ x.outputs = store[r].snap.outputs
    BY <1>2 DEF DispatchResume
  <2>2. UNCHANGED store /\ store[r] # NoRow BY <1>2 DEF DispatchResume
  <2>3. AgentHas(x) BY <2>1, <2>2 DEF OutputsInv, AgentHas
  <2> QED BY <2>1, <2>2, <2>3, OutputsMove
<1> QED BY <1>1, <1>2

LEMMA OutputsAlways == Spec => []OutputsInv
<1>1. Init => OutputsInv BY DEF Init, OutputsInv
<1>2. ASSUME IInv, OutputsInv, [Next]_vars PROVE OutputsInv'
  <2>1. ASSUME UNCHANGED <<agent, store>> PROVE OutputsInv' BY <1>2, <2>1 DEF OutputsInv
  <2>2. CASE UNCHANGED vars BY <2>1, <2>2 DEF vars
  <2>3. ASSUME NEW m \in Msgs, DispatchUnloadable(m) PROVE OutputsInv' BY <2>1, <2>3 DEF DispatchUnloadable
  <2>4. ASSUME NEW r \in RunIds, ResumeUnloadable(r) PROVE OutputsInv' BY <2>1, <2>4 DEF ResumeUnloadable
  <2>5. ASSUME NEW n \in Names, NEW v \in {"allow", "deny"}, Answer(n, v) PROVE OutputsInv' BY <2>1, <2>5 DEF Answer
  <2>6. ASSUME NEW b \in Brokers \cup {Off}, Redeploy(b) PROVE OutputsInv' BY <2>1, <2>6 DEF Redeploy
  <2>7. ASSUME NEW w \in Workers, WorkerStep(w) PROVE OutputsInv'
    BY <1>2, <2>7, ResumeOutputs, TaskGateOutputs, InvokeOutputs, VerifyOutputs, OtherOutputs DEF WorkerStep
  <2>8. ASSUME NEW w \in Workers, ReturnUnmarked(w) \/ Crash(w) PROVE OutputsInv' BY <1>2, <2>8, OtherOutputs
  <2> QED BY <1>2, <2>2, <2>3, <2>4, <2>5, <2>6, <2>7, <2>8, StartOutputs DEF Next
<1> QED BY <1>1, <1>2, Invariance, PTL DEF Spec

\* A task reads what its upstream tasks left: whatever was paused, resumed, crashed or resumed
\* twice, the tool of a task is called only when the outputs it depends on are at hand.
THEOREM OutputsAtHand == Spec => []UpstreamOutputsPresent
<1>1. IInv /\ OutputsInv => UpstreamOutputsPresent
  <2> SUFFICES ASSUME IInv, OutputsInv, NEW w \in Workers, At(w, "invoke"),
                      NEW j \in 1..Len(agent[w].plan.tasks),
                      agent[w].plan.tasks[j].task_id \in CurrentTask(agent[w]).depends_on,
                      agent[w].plan.tasks[j].tool # NoTool
               PROVE  agent[w].plan.tasks[j].task_id \in agent[w].outputs
    BY DEF UpstreamOutputsPresent
  <2> DEFINE a == agent[w]
  <2>1. a # Idle /\ a \in Agent /\ AgentInv(a, approved) /\ AgentHas(a) /\ a.pc = "invoke"
    BY DEF At, IInv, TypeOK, AgentsInv, OutputsInv
  <2>2. a.idx \in 1..Len(a.plan.tasks) /\ Has(a.plan, a.idx - 1, a.outputs) BY <2>1 DEF AgentInv, AgentHas
  <2>3. a.plan \in KnownPlans BY <2>1 DEF Agent
  <2>4. j < a.idx BY <2>2, <2>3, PlansOrdered DEF CurrentTask
  <2>5. j \in Nat /\ a.idx \in Nat /\ j >= 1 BY <2>1, <2>3, PlanTyped DEF Agent
  <2>6. j \in 1..(a.idx - 1) BY <2>4, <2>5
  <2> QED BY <2>2, <2>6 DEF Has
<1> QED BY <1>1, Invariance, OutputsAlways, PTL
-----------------------------------------------------------------------------
(***************************************************************************)
(* Pauses.  Every call and every row belongs to the run_id of its message, *)
(* rows are never deleted, and a row is of a message that was sent; so a   *)
(* run that waits finds its own row, or that of another message which was  *)
(* sent under its run_id.                                                  *)
(***************************************************************************)
HomeInv ==
  /\ \A w \in Workers : agent[w] # Idle => agent[w].run = RunIdOf[agent[w].msg]
  /\ \A r \in RunIds : store[r] # NoRow => RunIdOf[store[r].snap.msg] = r

Sent(m) == outcome[m] # "UNSENT" \/ \E w \in Workers : agent[w] # Idle /\ agent[w].msg = m

WaitInv ==
  /\ \A r \in RunIds : store[r] # NoRow => Sent(store[r].snap.msg)
  /\ \A w \in Workers :
       agent[w] # Idle /\ agent[w].state = "AWAITING_APPROVAL" => store[agent[w].run] # NoRow
  /\ \A m \in Msgs : outcome[m] = "AWAITING_APPROVAL" => store[RunIdOf[m]] # NoRow

SameCall(x, a) == x \in Agent /\ x.call = a.call /\ x.run = a.run /\ x.msg = a.msg

\* One call moves or ends: rows stay, new ones are its own, and it waits only with a row.
LEMMA WaitMove ==
  ASSUME IInv, HomeInv, WaitInv, NEW w \in Workers, agent[w] # Idle, NEW x, Set(w, x),
         x = Idle \/ SameCall(x, agent[w]),
         x # Idle /\ x.state = "AWAITING_APPROVAL" => store'[agent[w].run] # NoRow,
         \A r \in RunIds : store[r] # NoRow => store'[r] # NoRow,
         \A r \in RunIds : store'[r] # NoRow =>
           (store[r] # NoRow /\ store'[r].snap = store[r].snap)
             \/ (r = agent[w].run /\ store'[r].snap.msg = agent[w].msg),
         \A m \in Msgs : outcome'[m] = "AWAITING_APPROVAL" =>
           outcome[m] = "AWAITING_APPROVAL" \/ (m = agent[w].msg /\ agent[w].state = "AWAITING_APPROVAL"),
         \A m \in Msgs : outcome[m] # "UNSENT" => outcome'[m] # "UNSENT",
         x = Idle => outcome'[agent[w].msg] # "UNSENT"
  PROVE  HomeInv' /\ WaitInv'
<1> DEFINE a == agent[w]
<1>1. \A v \in Workers : agent'[v] = IF v = w THEN x ELSE agent[v] BY DEF IInv, TypeOK, Set
<1>2. a \in Agent /\ a.run \in RunIds /\ a.msg \in Msgs /\ a.run = RunIdOf[a.msg]
  BY DEF IInv, TypeOK, Agent, HomeInv
<1>3. \A v \in Workers : agent'[v] # Idle => agent'[v].run = RunIdOf[agent'[v].msg]
  BY <1>1, <1>2 DEF HomeInv, SameCall
<1>4. \A r \in RunIds : store'[r] # NoRow => RunIdOf[store'[r].snap.msg] = r BY <1>2 DEF HomeInv
<1>5. ASSUME NEW v \in Workers, agent'[v] # Idle, agent'[v].state = "AWAITING_APPROVAL"
      PROVE  store'[agent'[v].run] # NoRow
  <2>1. CASE v = w BY <1>1, <1>5, <2>1 DEF SameCall
  <2>2. CASE v # w
    <3>1. agent'[v] = agent[v] /\ agent[v].run \in RunIds BY <1>1, <1>5, <2>2 DEF IInv, TypeOK, Agent
    <3> QED BY <1>5, <3>1 DEF WaitInv
  <2> QED BY <2>1, <2>2
<1>6. ASSUME NEW m \in Msgs, outcome'[m] = "AWAITING_APPROVAL" PROVE store'[RunIdOf[m]] # NoRow
  <2>1. RunIdOf[m] \in RunIds BY ConstantsTyped
  <2>2. store[RunIdOf[m]] # NoRow BY <1>2, <1>6 DEF WaitInv
  <2> QED BY <2>1, <2>2
<1>7. ASSUME NEW m \in Msgs, Sent(m) \/ m = a.msg PROVE Sent(m)'
  <2>1. CASE m = a.msg
    <3>1. CASE x = Idle BY <2>1, <3>1 DEF Sent
    <3>2. CASE x # Idle
      <4>1. agent'[w] # Idle /\ agent'[w].msg = m BY <1>1, <2>1, <3>2 DEF SameCall
      <4> QED BY <4>1 DEF Sent
    <3> QED BY <3>1, <3>2
  <2>2. CASE outcome[m] # "UNSENT" BY <2>2 DEF Sent
  <2>3. CASE m # a.msg /\ outcome[m] = "UNSENT"
    <3>1. PICK v \in Workers : agent[v] # Idle /\ agent[v].msg = m BY <1>7, <2>3 DEF Sent
    <3>2. agent'[v] = agent[v] BY <1>1, <2>3, <3>1
    <3> QED BY <3>1, <3>2 DEF Sent
  <2> QED BY <2>1, <2>2, <2>3
<1>8. ASSUME NEW r \in RunIds, store'[r] # NoRow PROVE Sent(store[r].snap.msg)'
  <2>1. \E m \in Msgs : m = store'[r].snap.msg /\ (Sent(m) \/ m = a.msg)
    <3>1. CASE store[r] # NoRow /\ store'[r].snap = store[r].snap
      <4>1. store[r].snap.msg \in Msgs BY <3>1 DEF IInv, TypeOK, PausedRun, Snapshot
      <4> QED BY <3>1, <4>1 DEF WaitInv
    <3>2. CASE store'[r].snap.msg = a.msg BY <1>2, <3>2
    <3> QED BY <1>8, <3>1, <3>2
  <2>2. PICK m \in Msgs : m = store'[r].snap.msg /\ (Sent(m) \/ m = a.msg) BY <2>1
  <2>3. Sent(m)' BY <1>7, <2>2
  <2> QED BY <2>2, <2>3 DEF Sent
<1> QED BY <1>3, <1>4, <1>5, <1>6, <1>8 DEF HomeInv, WaitInv

LEMMA SameRunCall == ASSUME NEW x, NEW a, SameRun(x, a) PROVE SameCall(x, a) BY DEF SameRun, SameCall

\* The moves that write no row and report nothing.
LEMMA WaitQuiet ==
  ASSUME IInv, HomeInv, WaitInv, NEW w \in Workers, agent[w] # Idle, NEW x, Set(w, x),
         SameCall(x, agent[w]), x.state # "AWAITING_APPROVAL" \/ x.state = agent[w].state,
         UNCHANGED <<store, outcome>>
  PROVE  HomeInv' /\ WaitInv'
<1>1. x.state = "AWAITING_APPROVAL" => store'[agent[w].run] # NoRow BY DEF WaitInv
<1>2. \A r \in RunIds : store[r] # NoRow => store'[r] # NoRow OBVIOUS
<1>3. \A r \in RunIds : store'[r] # NoRow => store[r] # NoRow /\ store'[r].snap = store[r].snap OBVIOUS
<1>4. \A m \in Msgs : outcome'[m] = "AWAITING_APPROVAL" => outcome[m] = "AWAITING_APPROVAL" OBVIOUS
<1>5. x # Idle BY SentinelsDistinct DEF SameCall
<1> QED BY <1>1, <1>2, <1>3, <1>4, <1>5, WaitMove

\* A gate that pauses leaves the row before the call says that it waits.
LEMMA GateWaits ==
  ASSUME IInv, HomeInv, WaitInv, NEW w \in Workers, agent[w] # Idle, NEW act, NEW scope, NEW tid, NEW onward,
         Gate(w, act, scope, tid, onward), UNCHANGED outcome,
         SameCall(onward, agent[w]), onward.state # "AWAITING_APPROVAL" \/ onward.state = agent[w].state,
         ToState(agent[w], scope, act, tid) \in Snapshot
  PROVE  HomeInv' /\ WaitInv'
<1> DEFINE a == agent[w]
           row == [snap |-> ToState(a, scope, act, tid), status |-> "pending"]
<1>1. a \in Agent /\ a.run \in RunIds BY DEF IInv, TypeOK, Agent
<1>2. CASE Set(w, onward) /\ UNCHANGED store BY <1>2, WaitQuiet
<1>3. CASE Set(w, Stop(a, "REJECTED")) /\ UNCHANGED store
  <2>1. SameCall(Stop(a, "REJECTED"), a) /\ Stop(a, "REJECTED").state = "REJECTED"
    BY <1>1, EndsWhere, SameRunCall DEF States, TERMINAL
  <2> QED BY <1>3, <2>1, WaitQuiet
<1>4. CASE Set(w, Stop(a, "AWAITING_APPROVAL")) /\ store' = [store EXCEPT ![a.run] = row]
  <2>1. SameCall(Stop(a, "AWAITING_APPROVAL"), a) BY <1>1, EndsWhere, SameRunCall DEF States
  <2>2. row \in PausedRun /\ row # NoRow /\ row.snap.msg = a.msg BY SentinelsDistinct DEF PausedRun, ToState
  <2> HIDE DEF row
  <2>3. \A r \in RunIds : store'[r] = IF r = a.run THEN row ELSE store[r] BY <1>4 DEF IInv, TypeOK
  <2>4. store'[a.run] # NoRow BY <1>1, <2>2, <2>3
  <2>5. \A r \in RunIds : store[r] # NoRow => store'[r] # NoRow BY <2>2, <2>3
  <2>6. \A r \in RunIds : store'[r] # NoRow =>
           (store[r] # NoRow /\ store'[r].snap = store[r].snap) \/ (r = a.run /\ store'[r].snap.msg = a.msg)
    <3> SUFFICES ASSUME NEW r \in RunIds, store'[r] # NoRow
                 PROVE  (store[r] # NoRow /\ store'[r].snap = store[r].snap) \/ (r = a.run /\ store'[r].snap.msg = a.msg)
      OBVIOUS
    <3>1. CASE r = a.run
      <4>1. store'[r] = row BY <2>3, <3>1
      <4> QED BY <2>2, <3>1, <4>1
    <3>2. CASE r # a.run
      <4>1. store'[r] = store[r] BY <2>3, <3>2
      <4> QED BY <4>1
    <3> QED BY <3>1, <3>2
  <2>7. Stop(a, "AWAITING_APPROVAL") # Idle BY <2>1, SentinelsDistinct DEF SameCall
  <2> QED BY <1>4, <2>1, <2>4, <2>5, <2>6, <2>7, WaitMove
<1> QED BY <1>2, <1>3, <1>4 DEF Gate

\* Everything else a call does between its start and its return writes no row.
LEMMA QuietMoves ==
  ASSUME IInv, NEW w \in Workers,
         Resume(w) \/ MakePlan(w) \/ Invoke(w) \/ Verify(w) \/ FinalizeMemory(w) \/ FinalizeTwin(w)
  PROVE  /\ agent[w] # Idle /\ UNCHANGED <<store, outcome>>
         /\ \E x : /\ Set(w, x) /\ SameCall(x, agent[w])
                   /\ x.state # "AWAITING_APPROVAL" \/ x.state = agent[w].state
<1> DEFINE a == agent[w]
           Quiet(x) == SameCall(x, a) /\ (x.state # "AWAITING_APPROVAL" \/ x.state = a.state)
<1>1. a # Idle /\ a \in Agent
  BY DEF IInv, TypeOK, Resume, MakePlan, Invoke, Verify, FinalizeMemory, FinalizeTwin, At
<1>2. UNCHANGED <<store, outcome>> BY DEF Resume, MakePlan, Invoke, Verify, FinalizeMemory, FinalizeTwin
<1>3. \A s \in States : s # "AWAITING_APPROVAL" \/ s = a.state => Quiet(Stop(a, s)) /\ Quiet(Finalize(a, s))
  BY <1>1, EndsWhere, SameRunCall
<1>4. /\ Quiet(Stop(a, "REJECTED")) /\ Quiet(Stop(a, "FAILED")) /\ Quiet(Stop(a, a.state))
      /\ Quiet(Finalize(a, "FAILED"))
  BY <1>1, <1>3 DEF States, TERMINAL, Agent
<1>5. \A b \in Agent : SameCall(b, a) => Quiet(BeginPlan(b)) /\ Quiet(AfterTool(b)) /\ Quiet(Advance(b))
  BY BeginWhere, AfterToolWhere, AdvanceWhere DEF SameRun, SameCall
<1>6. SameCall(a, a) BY <1>1 DEF SameCall
<1>7. CASE Resume(w)
  <2>1. ASSUME NEW i \in 1..Len(a.plan.tasks)
        PROVE  Quiet([a EXCEPT !.idx = i, !.resumed = TRUE, !.state = "EXECUTING", !.pc = "task"])
    <3>1. i \in Nat BY <1>1, PlanTyped DEF Agent
    <3> QED BY <1>1, <3>1 DEF SameCall, Agent, States
  <2> HIDE DEF Quiet
  <2>2. \E x : Set(w, x) /\ Quiet(x) BY <1>1, <1>4, <1>5, <1>6, <1>7, <2>1 DEF Resume
  <2> QED BY <1>1, <1>2, <2>2 DEF Quiet
<1>8. CASE MakePlan(w)
  <2> DEFINE planned(p) == [a EXCEPT !.plan = p, !.state = "PLANNING", !.pc = "plan_gate"]
  <2>1. PICK p \in KnownPlans : Set(w, BeginPlan(planned(p))) \/ Set(w, planned(p)) BY <1>8 DEF MakePlan, KnownPlans
  <2>2. planned(p) \in Agent /\ SameCall(planned(p), a) /\ Quiet(planned(p)) BY <1>1 DEF SameCall, Agent, States
  <2> HIDE DEF planned, Quiet
  <2>3. \E x : Set(w, x) /\ Quiet(x) BY <1>5, <2>1, <2>2
  <2> QED BY <1>1, <1>2, <2>3 DEF Quiet
<1>9. CASE Invoke(w)
  <2> DEFINE b == [a EXCEPT !.outputs = @ \cup {CurrentTask(a).task_id}]
  <2>1. AgentInv(a, approved) /\ a.pc = "invoke" BY <1>1, <1>9 DEF IInv, AgentsInv, Invoke, At
  <2>2. CurrentTask(a) \in Task BY <1>1, <2>1, PlanTyped DEF AgentInv, CurrentTask, Agent
  <2>3. b \in Agent /\ SameCall(b, a) BY <1>1, <2>2 DEF SameCall, Agent, Task
  <2>4. Set(w, AfterTool(b)) \/ Set(w, Finalize(a, "FAILED")) BY <1>9 DEF Invoke
  <2> HIDE DEF b, Quiet
  <2>5. \E x : Set(w, x) /\ Quiet(x) BY <1>4, <1>5, <2>3, <2>4
  <2> QED BY <1>1, <1>2, <2>5 DEF Quiet
<1>10. CASE Verify(w)
  <2> DEFINE again == [a EXCEPT !.replans = @ + 1]
             replan == [again EXCEPT !.state = "REPLANNING", !.pc = "plan"]
  <2>1. again \in Agent /\ SameCall(again, a) BY <1>1 DEF SameCall, Agent
  <2>2. Quiet(replan)
    <3> HIDE DEF again
    <3>1. replan.state = "REPLANNING" BY <2>1 DEF Agent
    <3>2. SameCall(replan, a) BY <2>1 DEF SameCall, Agent, States
    <3> QED BY <3>1, <3>2
  <2>3. \/ Set(w, Advance(a)) \/ Set(w, Finalize(a, "FAILED")) \/ Set(w, Finalize(again, "ESCALATED"))
        \/ Set(w, replan)
    BY <1>10 DEF Verify
  <2> HIDE DEF again, replan
  <2>4. Quiet(Finalize(again, "ESCALATED"))
    <3>1. /\ SameRun(Finalize(again, "ESCALATED"), again) /\ Finalize(again, "ESCALATED").state = "ESCALATED"
      BY <2>1, EndsWhere DEF States, TERMINAL
    <3> QED BY <2>1, <3>1 DEF SameRun, SameCall
  <2> HIDE DEF Quiet
  <2>5. \E x : Set(w, x) /\ Quiet(x) BY <1>1, <1>4, <1>5, <1>6, <2>2, <2>3, <2>4
  <2> QED BY <1>1, <1>2, <2>5 DEF Quiet
<1>11. CASE FinalizeMemory(w)
  <2> DEFINE x == [a EXCEPT !.pc = "twin"]
  <2>1. Set(w, x) BY <1>11 DEF FinalizeMemory
  <2>2. Quiet(x) BY <1>1 DEF SameCall, Agent
  <2> QED BY <1>1, <1>2, <2>1, <2>2
<1>12. CASE FinalizeTwin(w)
  <2>1. Set(w, Stop(a, a.state)) \/ Set(w, Stop(a, "FAILED")) BY <1>12 DEF FinalizeTwin
  <2> HIDE DEF Quiet
  <2>2. \E x : Set(w, x) /\ Quiet(x) BY <1>4, <2>1
  <2> QED BY <1>1, <1>2, <2>2 DEF Quiet
<1> QED BY <1>7, <1>8, <1>9, <1>10, <1>11, <1>12

LEMMA GatesWait ==
  ASSUME IInv, HomeInv, WaitInv, NEW w \in Workers, PlanGate(w) \/ TaskGate(w)
  PROVE  HomeInv' /\ WaitInv'
<1> DEFINE a == agent[w]
           t == CurrentTask(a)
           invoking == [a EXCEPT !.pc = "invoke"]
<1>1. a # Idle /\ a \in Agent /\ AgentInv(a, approved) /\ UNCHANGED outcome
  BY DEF PlanGate, TaskGate, At, IInv, TypeOK, AgentsInv
<1>2. CASE PlanGate(w)
  <2>1. Gate(w, PlanAction(a.plan), "plan", NoTool, BeginPlan(a)) BY <1>2 DEF PlanGate
  <2>2. ToState(a, "plan", PlanAction(a.plan), NoTool) \in Snapshot
    BY <1>1, PlanActionTyped, ToStateTyped DEF Agent
  <2>3. SameCall(BeginPlan(a), a) /\ BeginPlan(a).state # "AWAITING_APPROVAL" BY <1>1, BeginWhere, SameRunCall
  <2> QED BY <1>1, <2>1, <2>2, <2>3, GateWaits
<1>3. CASE TaskGate(w)
  <2>1. SameCall(invoking, a) /\ invoking.state = a.state BY <1>1 DEF SameCall, Agent
  <2>2. SameCall(AfterTool(a), a) /\ AfterTool(a).state # "AWAITING_APPROVAL" BY <1>1, AfterToolWhere, SameRunCall
  <2>3. CASE Set(w, AfterTool(a)) /\ UNCHANGED store BY <1>1, <2>2, <2>3, WaitQuiet
  <2>4. CASE Set(w, invoking) /\ UNCHANGED store BY <1>1, <2>1, <2>4, WaitQuiet
  <2>5. CASE t.tool # NoTool /\ Gate(w, ActionForTask(t), "action", t.task_id, invoking)
    <3>1. a.idx \in 1..Len(a.plan.tasks) /\ a.plan \in KnownPlans BY <1>1, <1>3 DEF TaskGate, At, AgentInv, Agent
    <3>2. t \in Task /\ ActionForTask(t) \in Action BY <2>5, <3>1, PlanTyped, TaskActionTyped DEF CurrentTask
    <3>3. ToState(a, "action", ActionForTask(t), t.task_id) \in Snapshot BY <1>1, <3>2, ToStateTyped DEF Task
    <3> QED BY <1>1, <2>1, <2>5, <3>3, GateWaits
  <2> QED BY <1>3, <2>3, <2>4, <2>5 DEF TaskGate
<1> QED BY <1>2, <1>3

LEMMA EndsWait ==
  ASSUME IInv, HomeInv, WaitInv, NEW w \in Workers, Return(w) \/ ReturnUnmarked(w) \/ Crash(w)
  PROVE  HomeInv' /\ WaitInv'
<1> DEFINE a == agent[w]
<1>1. a # Idle /\ a \in Agent /\ Set(w, Idle)
  BY DEF Return, ReturnUnmarked, Crash, At, IInv, TypeOK
<1>2. \A m \in Msgs : outcome'[m] = "AWAITING_APPROVAL" =>
        outcome[m] = "AWAITING_APPROVAL" \/ (m = a.msg /\ a.state = "AWAITING_APPROVAL")
  BY <1>1 DEF Return, ReturnUnmarked, Crash, IInv, TypeOK, Agent
<1>3. \A r \in RunIds : store'[r] # NoRow <=> store[r] # NoRow
  BY MarkKeeps DEF ReturnUnmarked, Crash
<1>4. \A r \in RunIds : store[r] # NoRow => store'[r].snap = store[r].snap
  BY MarkKeeps DEF ReturnUnmarked, Crash
<1>5. a.msg \in Msgs /\ a.state # "UNSENT" BY <1>1 DEF Agent, States, TERMINAL
<1>6. /\ \A m \in Msgs : outcome[m] # "UNSENT" => outcome'[m] # "UNSENT"
      /\ outcome'[a.msg] # "UNSENT"
  BY <1>5 DEF Return, ReturnUnmarked, Crash, IInv, TypeOK
<1> QED BY <1>1, <1>2, <1>3, <1>4, <1>6, WaitMove

LEMMA StartsWait ==
  ASSUME IInv, HomeInv, WaitInv, NEW w \in Workers,
         (\E m \in Msgs : Dispatch(w, m)) \/ (\E r \in RunIds : DispatchResume(w, r))
  PROVE  HomeInv' /\ WaitInv'
<1>1. PICK x : /\ Set(w, x) /\ x.run = RunIdOf[x.msg]
               /\ x.state = "AWAITING_APPROVAL" => store[x.run] # NoRow
               /\ UNCHANGED <<store, outcome>>
  <2>1. ASSUME NEW m \in Msgs, Dispatch(w, m) PROVE \E x : Set(w, x) /\ x.run = RunIdOf[x.msg] /\ x.state = "ASSEMBLING"
    BY <2>1 DEF Dispatch
  <2>2. ASSUME NEW r \in RunIds, DispatchResume(w, r) PROVE \E x : Set(w, x) /\ x.run = RunIdOf[x.msg] /\ store[x.run] # NoRow
    <3>1. store[r] # NoRow /\ RunIdOf[store[r].snap.msg] = r BY <2>2 DEF DispatchResume, HomeInv
    <3>2. \E x : Set(w, x) /\ x.run = r /\ x.msg = store[r].snap.msg BY <2>2 DEF DispatchResume
    <3> QED BY <3>1, <3>2
  <2>3. UNCHANGED <<store, outcome>> BY DEF Dispatch, DispatchResume
  <2> QED BY <2>1, <2>2, <2>3
<1>2. \A v \in Workers : agent'[v] = IF v = w THEN x ELSE agent[v] BY <1>1 DEF IInv, TypeOK, Set
<1>3. agent[w] = Idle BY DEF Dispatch, DispatchResume
<1>4. \A m : Sent(m) => Sent(m)'
  <2> SUFFICES ASSUME NEW m, Sent(m) PROVE Sent(m)' OBVIOUS
  <2>1. CASE outcome[m] # "UNSENT" BY <1>1, <2>1 DEF Sent
  <2>2. ASSUME NEW v \in Workers, agent[v] # Idle, agent[v].msg = m PROVE Sent(m)'
    <3>1. agent'[v] = agent[v] BY <1>2, <1>3, <2>2
    <3> QED BY <2>2, <3>1 DEF Sent
  <2> QED BY <2>1, <2>2 DEF Sent
<1>5. WaitInv'
  <2>1. ASSUME NEW r \in RunIds, store'[r] # NoRow PROVE Sent(store[r].snap.msg)'
    <3>1. PICK m : m = store[r].snap.msg OBVIOUS
    <3>2. Sent(m)' BY <1>1, <1>4, <2>1, <3>1 DEF WaitInv
    <3> QED BY <1>1, <3>1, <3>2 DEF Sent
  <2> QED BY <1>1, <1>2, <2>1 DEF WaitInv
<1> QED BY <1>1, <1>2, <1>5 DEF HomeInv

LEMMA WaitAlways == Spec => [](HomeInv /\ WaitInv)
<1>1. Init => HomeInv /\ WaitInv BY DEF Init, HomeInv, WaitInv
<1>2. ASSUME IInv, HomeInv, WaitInv, [Next]_vars PROVE HomeInv' /\ WaitInv'
  <2>1. ASSUME UNCHANGED <<agent, store>>,
               \A m \in Msgs : outcome'[m] = "AWAITING_APPROVAL" => outcome[m] = "AWAITING_APPROVAL",
               \A m \in Msgs : outcome[m] # "UNSENT" => outcome'[m] # "UNSENT"
        PROVE  HomeInv' /\ WaitInv'
    <3>1. ASSUME NEW r \in RunIds, store[r] # NoRow PROVE Sent(store[r].snap.msg)'
      <4>1. store[r].snap.msg \in Msgs /\ Sent(store[r].snap.msg)
        BY <1>2, <3>1 DEF IInv, TypeOK, PausedRun, Snapshot, WaitInv
      <4> QED BY <2>1, <4>1 DEF Sent
    <3> QED BY <1>2, <2>1, <3>1 DEF HomeInv, WaitInv
  <2>2. CASE UNCHANGED vars BY <2>1, <2>2 DEF vars
  <2>3. ASSUME NEW m \in Msgs, DispatchUnloadable(m) PROVE HomeInv' /\ WaitInv'
    BY <1>2, <2>1, <2>3 DEF DispatchUnloadable, IInv, TypeOK
  <2>4. ASSUME NEW r \in RunIds, ResumeUnloadable(r) PROVE HomeInv' /\ WaitInv'
    BY <1>2, <2>1, <2>4 DEF ResumeUnloadable, IInv, TypeOK
  <2>5. ASSUME NEW n \in Names, NEW v \in {"allow", "deny"}, Answer(n, v) PROVE HomeInv' /\ WaitInv'
    BY <2>1, <2>5 DEF Answer
  <2>6. ASSUME NEW b \in Brokers \cup {Off}, Redeploy(b) PROVE HomeInv' /\ WaitInv' BY <2>1, <2>6 DEF Redeploy
  <2>7. ASSUME NEW w \in Workers, WorkerStep(w) PROVE HomeInv' /\ WaitInv'
    <3>1. CASE PlanGate(w) \/ TaskGate(w) BY <1>2, <3>1, GatesWait
    <3>2. CASE Return(w) BY <1>2, <3>2, EndsWait
    <3>3. CASE Resume(w) \/ MakePlan(w) \/ Invoke(w) \/ Verify(w) \/ FinalizeMemory(w) \/ FinalizeTwin(w)
      BY <1>2, <3>3, QuietMoves, WaitQuiet
    <3> QED BY <2>7, <3>1, <3>2, <3>3 DEF WorkerStep
  <2>8. ASSUME NEW w \in Workers, ReturnUnmarked(w) \/ Crash(w) PROVE HomeInv' /\ WaitInv' BY <1>2, <2>8, EndsWait
  <2> QED BY <1>2, <2>2, <2>3, <2>4, <2>5, <2>6, <2>7, <2>8, StartsWait DEF Next
<1> QED BY <1>1, <1>2, Invariance, PTL DEF Spec

\* A run reported as waiting can be resumed, for callers of any discipline, any number of
\* concurrent calls and any faults: its snapshot is in the store (dispatch_resume deletes no
\* row), or that of a run sent under the same run_id, as core.py's default lets happen.
THEOREM PausesDurable == Spec => []PauseIsDurable
<1>1. IInv /\ HomeInv /\ WaitInv => PauseIsDurable
  <2> SUFFICES ASSUME IInv, HomeInv, WaitInv, NEW m \in Msgs, outcome[m] = "AWAITING_APPROVAL",
                      ~Busy(RunIdOf[m])
               PROVE  /\ store[RunIdOf[m]] # NoRow
                      /\ LET o == store[RunIdOf[m]].snap.msg
                         IN  RunIdOf[o] = RunIdOf[m] /\ outcome[o] # "UNSENT"
    BY DEF PauseIsDurable
  <2> DEFINE r == RunIdOf[m]
             o == store[r].snap.msg
  <2>1. r \in RunIds /\ store[r] # NoRow BY ConstantsTyped DEF WaitInv
  <2>2. RunIdOf[o] = r /\ Sent(o) BY <2>1 DEF HomeInv, WaitInv
  <2>3. \A w \in Workers : agent[w] # Idle => agent[w].msg # o
    <3>1. \A w \in Workers : agent[w] # Idle => agent[w].run # r BY DEF Busy
    <3> HIDE DEF o
    <3> QED BY <2>2, <3>1 DEF HomeInv
  <2> QED BY <2>1, <2>2, <2>3 DEF Sent
<1> QED BY <1>1, Invariance, WaitAlways, PTL
-----------------------------------------------------------------------------
(***************************************************************************)
(* Side effects, when callers of dispatch_resume are serial.  The books of *)
(* a run are what its calls have done so far.  While a run can go on, they *)
(* are open at replan round k with n tasks of plan p done: no later task   *)
(* of this round and no task of a later round has run, but for faults, and *)
(* the twin is unwritten.  A pause hands this position over in its         *)
(* snapshot.  A run can go on from a live call, from a pending row and     *)
(* from the row of a run that was reported as waiting; serial callers let  *)
(* only one of these go on at a time.                                      *)
(***************************************************************************)
Book(m) == [calls |-> planCalls[m], ran |-> ran[m], twins |-> twinPuts[m],
            recs |-> records[m], faults |-> faults[m]]

\* Planner calls that f budgets of a run allow.
Cap(f) == (1 + MaxReplans) * f

\* A run that has not ended: no twin written and nothing recorded, but for faults.
Clean(b) == b.twins <= b.faults /\ (b.faults = 0 => b.recs = {})

\* What holds of the books at any time; the properties follow from it.
Closed(b) ==
  /\ b.calls <= Cap(1 + b.faults)
  /\ b.twins <= 1 + b.faults
  /\ \A key \in RanKey : b.ran[key] <= 1 + b.faults

\* Keys of tasks that are ahead of a run in round k with n tasks of plan p done.
Ahead(key, k, p, n) ==
  key[1] > k \/ (key[1] = k /\ \A j \in 1..n : p.tasks[j].task_id # key[2])

\* c is 1 when round k has been planned.
Open(b, k, c, p, n) ==
  /\ Clean(b) /\ Closed(b)
  /\ k <= MaxReplans
  /\ b.calls <= Cap(b.faults) + k + c
  /\ \A key \in RanKey : Ahead(key, k, p, n) => b.ran[key] <= b.faults

SnapOpen(s, b) == \A n \in 0..Len(s.plan.tasks) : PausedBefore(s, n) => Open(b, s.replans, 1, s.plan, n)

\* Where the call of object a stands, its books are open accordingly.
Stands(a, b) ==
  /\ a.pc = "plan" => Open(b, a.replans, 0, a.plan, 0)
  /\ a.pc = "plan_gate" => Open(b, a.replans, 1, a.plan, 0)
  /\ a.pc \in {"task", "invoke"} => Open(b, a.replans, 1, a.plan, a.idx - 1)
  /\ a.pc = "verify" => Open(b, a.replans, 1, a.plan, a.idx)
  /\ a.pc = "resolve" => SnapOpen(a.pause, b) /\ Clean(b) /\ a.replans = a.pause.replans
  /\ a.pc \in {"memory", "twin"} => a.state \notin {"AWAITING_APPROVAL", "REJECTED"} /\ b.twins <= b.faults
  /\ a.pc = "memory" => Clean(b)
  /\ a.pc = "return" /\ a.state \in {"AWAITING_APPROVAL", "REJECTED"} => Clean(b)

Paused(a) == a.pc = "return" /\ a.state = "AWAITING_APPROVAL"
Fresh(b) == /\ b.faults = 0 /\ b.calls = 0 /\ b.twins = 0 /\ b.recs = {}
            /\ \A key \in RanKey : b.ran[key] = 0

\* The row of run m, if it is m's own.
OwnRow(m) == LET row == store[RunIdOf[m]]
             IN  IF row # NoRow /\ row.snap.msg = m THEN row ELSE NoRow
BudgetKept(q) == q # NoRow => q.snap.replans <= MaxReplans

\* A run with a live call a: books b, own row q.
CallOK(a, b, q) ==
  /\ Stands(a, b)
  /\ a.call = "dispatch" /\ ~Paused(a) => q = NoRow
  /\ Paused(a) /\ q # NoRow => SnapOpen(q.snap, b)

\* A run at rest, last reported as o.
RestOK(o, b, q) ==
  /\ o = "UNSENT" => Fresh(b) /\ q = NoRow
  /\ o \in {"AWAITING_APPROVAL", "REJECTED"} => Clean(b)
  /\ q # NoRow /\ (q.status = "pending" \/ o = "AWAITING_APPROVAL") => SnapOpen(q.snap, b) /\ Clean(b)

Live(m) == \E w \in Workers : agent[w] # Idle /\ agent[w].msg = m
OneCall == \A v, w \in Workers :
  agent[v] # Idle /\ agent[w] # Idle /\ agent[v].msg = agent[w].msg => v = w
BooksInv == \A m \in Msgs : Closed(Book(m)) /\ BudgetKept(OwnRow(m))
CallsInv == \A w \in Workers, m \in Msgs :
  agent[w] # Idle /\ agent[w].msg = m => CallOK(agent[w], Book(m), OwnRow(m))
RestInv == \A m \in Msgs : Live(m) \/ RestOK(outcome[m], Book(m), OwnRow(m))

\* A later row of the same run: the same pause, not listed again.
Later(q, r) == \/ r = NoRow
               \/ /\ q # NoRow /\ r # NoRow /\ r.snap = q.snap
                  /\ r.status = "pending" => q.status = "pending"

SerialInv == OneCall /\ BooksInv /\ CallsInv /\ RestInv

Books == [calls : Nat, ran : [RanKey -> Nat], twins : Nat, recs : SUBSET States, faults : Nat]

LEMMA BookTyped == ASSUME IInv, NEW m \in Msgs PROVE Book(m) \in Books
BY DEF IInv, TypeOK, Book, Books

LEMMA BooksSame == ASSUME UNCHANGED history PROVE \A m : Book(m)' = Book(m)
BY DEF history, Book

LEMMA RowsSame == ASSUME UNCHANGED store PROVE \A m : OwnRow(m)' = OwnRow(m)
BY DEF OwnRow

\* A fault more adds one budget.
LEMMA CapGrows == \A f \in Nat : Cap(f) \in Nat /\ Cap(1 + f) = Cap(f) + 1 + MaxReplans
<1> SUFFICES ASSUME NEW f \in Nat PROVE Cap(f) \in Nat /\ Cap(1 + f) = Cap(f) + 1 + MaxReplans
  OBVIOUS
<1>1. MaxReplans \in Nat BY ConstantsTyped
<1> QED BY <1>1 DEF Cap

\* With one task more done fewer tasks are ahead.
LEMMA OpenOn ==
  ASSUME NEW b, NEW k, NEW c, NEW p, NEW n \in Nat, Open(b, k, c, p, n)
  PROVE  Open(b, k, c, p, n + 1)
<1>1. \A key : Ahead(key, k, p, n + 1) => Ahead(key, k, p, n) BY DEF Ahead
<1> QED BY <1>1 DEF Open

\* What a later row leaves of a run.
LEMMA LaterKeeps ==
  ASSUME NEW q, NEW r, Later(q, r)
  PROVE  /\ \A a, b : CallOK(a, b, q) => CallOK(a, b, r)
         /\ \A o, b : RestOK(o, b, q) => RestOK(o, b, r)
         /\ BudgetKept(q) => BudgetKept(r)
BY DEF Later, CallOK, RestOK, BudgetKept

\* The run a live call is about.
LEMMA CallStands ==
  ASSUME IInv, SerialInv, NEW w \in Workers, agent[w] # Idle
  PROVE  \E m \in Msgs : /\ agent[w] \in Agent /\ agent[w].msg = m
                         /\ CallOK(agent[w], Book(m), OwnRow(m))
                         /\ Book(m) \in Books /\ Closed(Book(m)) /\ BudgetKept(OwnRow(m))
<1>1. agent[w] \in Agent /\ agent[w].msg \in Msgs BY DEF IInv, TypeOK, Agent
<1> QED BY <1>1, BookTyped DEF SerialInv, BooksInv, CallsInv

\* A step about run M by one worker, which moves, ends or starts its call; other runs keep their
\* books and their calls, and lose at most their row.
LEMMA OneRunMoves ==
  ASSUME IInv, SerialInv, NEW w \in Workers, NEW M \in Msgs, NEW x, Set(w, x),
         agent[w] = Idle => ~Live(M), agent[w] # Idle => agent[w].msg = M, x # Idle => x.msg = M,
         \A m \in Msgs : m # M =>
           Book(m)' = Book(m) /\ outcome'[m] = outcome[m] /\ Later(OwnRow(m), OwnRow(m)'),
         Closed(Book(M)'), BudgetKept(OwnRow(M)'),
         x # Idle => CallOK(x, Book(M)', OwnRow(M)'),
         x = Idle => RestOK(outcome'[M], Book(M)', OwnRow(M)')
  PROVE  SerialInv'
<1>1. \A v \in Workers : agent'[v] = IF v = w THEN x ELSE agent[v] BY DEF IInv, TypeOK, Set
<1>2. \A v \in Workers : v # w => agent[v] = Idle \/ agent[v].msg # M
  BY DEF SerialInv, OneCall, Live
<1>3. OneCall' BY <1>1, <1>2 DEF SerialInv, OneCall
<1>4. BooksInv' BY LaterKeeps DEF SerialInv, BooksInv
<1>5. ASSUME NEW v \in Workers, NEW m \in Msgs, agent'[v] # Idle, agent'[v].msg = m
      PROVE  CallOK(agent'[v], Book(m)', OwnRow(m)')
  <2>1. CASE m = M
    <3>1. agent'[v] = x BY <1>1, <1>2, <1>5, <2>1
    <3> QED BY <1>5, <2>1, <3>1
  <2>2. CASE m # M
    <3>1. agent'[v] = agent[v] BY <1>1, <1>5, <2>2
    <3>2. CallOK(agent[v], Book(m), OwnRow(m)) BY <1>5, <3>1 DEF SerialInv, CallsInv
    <3> QED BY <2>2, <3>1, <3>2, LaterKeeps
  <2> QED BY <2>1, <2>2
<1>6. ASSUME NEW m \in Msgs, ~Live(m)' PROVE RestOK(outcome'[m], Book(m)', OwnRow(m)')
  <2>1. CASE m = M
    <3>1. x = Idle BY <1>1, <1>6, <2>1 DEF Live
    <3> QED BY <2>1, <3>1
  <2>2. CASE m # M
    <3>1. ~Live(m) BY <1>1, <1>6, <2>2 DEF Live
    <3>2. RestOK(outcome[m], Book(m), OwnRow(m)) BY <3>1 DEF SerialInv, RestInv
    <3> QED BY <2>2, <3>2, LaterKeeps
  <2> QED BY <2>1, <2>2
<1>7. CallsInv' BY <1>5 DEF CallsInv
<1>8. RestInv' BY <1>6 DEF RestInv
<1> QED BY <1>3, <1>4, <1>7, <1>8 DEF SerialInv

\* A call moves on and writes no row.
LEMMA CallMoves ==
  ASSUME IInv, SerialInv, NEW w \in Workers, agent[w] # Idle, agent[w].pc # "return",
         NEW M \in Msgs, agent[w].msg = M, NEW x, Set(w, x), SameCall(x, agent[w]), ~Paused(x),
         UNCHANGED <<store, outcome>>, \A m \in Msgs : m # M => Book(m)' = Book(m),
         Closed(Book(M)'), Stands(x, Book(M)')
  PROVE  SerialInv'
<1>1. x # Idle /\ x.msg = M BY SentinelsDistinct DEF SameCall
<1>2. \A m : OwnRow(m)' = OwnRow(m) BY RowsSame
<1>3. \A q : Later(q, q) BY DEF Later
<1>4. CallOK(agent[w], Book(M), OwnRow(M)) /\ BudgetKept(OwnRow(M)) BY DEF SerialInv, CallsInv, BooksInv
<1>5. CallOK(x, Book(M)', OwnRow(M)) BY <1>4 DEF CallOK, SameCall, Paused
<1> QED BY <1>1, <1>2, <1>3, <1>4, <1>5, OneRunMoves

\* The positions a transition of one object leads to.
LEMMA StandsEnd ==
  ASSUME NEW a \in Agent, NEW b, NEW s \in States, Clean(b)
  PROVE  /\ Stands(Stop(a, s), b)
         /\ s \notin {"AWAITING_APPROVAL", "REJECTED"} => Stands(Finalize(a, s), b)
BY EndsWhere DEF Stands, Clean

LEMMA StandsBegin ==
  ASSUME NEW a \in Agent, NEW b, Open(b, a.replans, 1, a.plan, 0)
  PROVE  Stands(BeginPlan(a), b)
<1> DEFINE x == BeginPlan(a)
<1>1. x.plan = a.plan /\ x.replans = a.replans BY BeginWhere DEF SameRun
<1>2. CASE x.pc = "memory" /\ x.state = "DONE" BY <1>2 DEF Stands, Open, Clean
<1>3. CASE x.pc = "task" /\ x.idx = 1
  <2>1. x.idx - 1 = 0 BY <1>3
  <2> QED BY <1>1, <1>3, <2>1 DEF Stands
<1> QED BY <1>2, <1>3, BeginWhere

LEMMA StandsNext ==
  ASSUME NEW a \in Agent, NEW b, Open(b, a.replans, 1, a.plan, a.idx)
  PROVE  Stands(Advance(a), b) /\ Stands(AfterTool(a), b)
<1>1. ASSUME NEW x, SameRun(x, a),
             \/ x.pc = "memory" /\ x.state = "DONE"
             \/ x.pc = "task" /\ x.idx = a.idx + 1
             \/ x.pc = "verify" /\ x.idx = a.idx
      PROVE  Stands(x, b)
  <2>1. x.plan = a.plan /\ x.replans = a.replans BY <1>1 DEF SameRun
  <2>2. CASE x.pc = "memory" /\ x.state = "DONE" BY <2>2 DEF Stands, Open, Clean
  <2>3. CASE x.pc = "task" /\ x.idx = a.idx + 1
    <3>1. x.idx - 1 = a.idx BY <2>3 DEF Agent
    <3> QED BY <2>1, <2>3, <3>1 DEF Stands
  <2>4. CASE x.pc = "verify" /\ x.idx = a.idx BY <2>1, <2>4 DEF Stands
  <2> QED BY <1>1, <2>2, <2>3, <2>4
<1> QED BY <1>1, AdvanceWhere, AfterToolWhere

\* No step of a call but its gate pauses it.
LEMMA Unpaused ==
  ASSUME NEW a \in Agent, NEW s \in States, s # "AWAITING_APPROVAL"
  PROVE  /\ ~Paused(Stop(a, s)) /\ ~Paused(Finalize(a, s)) /\ ~Paused(BeginPlan(a))
         /\ ~Paused(Advance(a)) /\ ~Paused(AfterTool(a))
BY EndsWhere, BeginWhere, AdvanceWhere, AfterToolWhere DEF Paused

LEMMA KeepsCall ==
  ASSUME NEW a \in Agent, NEW s \in States
  PROVE  /\ SameCall(Stop(a, s), a) /\ SameCall(Finalize(a, s), a) /\ SameCall(BeginPlan(a), a)
         /\ SameCall(Advance(a), a) /\ SameCall(AfterTool(a), a)
BY EndsWhere, BeginWhere, AdvanceWhere, AfterToolWhere, SameRunCall

\* A resumed call goes on where its snapshot was taken.
LEMMA ResumeBooks == ASSUME IInv, SerialInv, NEW w \in Workers, Resume(w) PROVE SerialInv'
<1> DEFINE a == agent[w]
<1>1. a # Idle /\ a.pc = "resolve" /\ UNCHANGED <<store, outcome, history>> BY DEF Resume, At
<1>2. PICK M \in Msgs : /\ a \in Agent /\ a.msg = M /\ CallOK(a, Book(M), OwnRow(M)) /\ Closed(Book(M))
  BY <1>1, CallStands
<1>3. a.pause \in Snapshot /\ a.pause.plan = a.plan /\ a.plan \in KnownPlans
  BY <1>1, <1>2 DEF IInv, AgentsInv, AgentInv, Agent
<1>4. SnapOpen(a.pause, Book(M)) /\ Clean(Book(M)) /\ a.replans = a.pause.replans
  BY <1>1, <1>2 DEF CallOK, Stands
<1>5. \A m : Book(m)' = Book(m) BY <1>1, BooksSame
<1>6. ASSUME NEW x, Set(w, x), SameCall(x, a), ~Paused(x), Stands(x, Book(M)) PROVE SerialInv'
  BY <1>1, <1>2, <1>5, <1>6, CallMoves
<1>7. CASE Set(w, Stop(a, "REJECTED"))
  <2>1. Stands(Stop(a, "REJECTED"), Book(M)) BY <1>2, <1>4, StandsEnd DEF States, TERMINAL
  <2> QED BY <1>2, <1>6, <1>7, <2>1, KeepsCall, Unpaused DEF States, TERMINAL
<1>8. CASE a.pause.pause_scope = "plan" /\ Set(w, BeginPlan(a))
  <2>1. 0 \in 0..Len(a.plan.tasks) /\ PausedBefore(a.pause, 0) BY <1>3, <1>8, PlanTyped DEF PausedBefore
  <2>2. Open(Book(M), a.replans, 1, a.plan, 0) BY <1>3, <1>4, <2>1 DEF SnapOpen
  <2> QED BY <1>2, <1>6, <1>8, <2>2, StandsBegin, KeepsCall, Unpaused DEF States, TERMINAL
<1>9. ASSUME a.pause.pause_scope = "action",
             NEW i \in 1..Len(a.plan.tasks), a.plan.tasks[i].task_id = a.pause.paused_task_id,
             Set(w, [a EXCEPT !.idx = i, !.resumed = TRUE, !.state = "EXECUTING", !.pc = "task"])
      PROVE  SerialInv'
  <2> DEFINE x == [a EXCEPT !.idx = i, !.resumed = TRUE, !.state = "EXECUTING", !.pc = "task"]
  <2>1. i \in Nat /\ i - 1 \in 0..Len(a.plan.tasks) /\ (i - 1) + 1 = i BY <1>3, PlanTyped
  <2>2. PausedBefore(a.pause, i - 1) BY <1>3, <1>9, <2>1 DEF PausedBefore
  <2>3. Open(Book(M), a.replans, 1, a.plan, i - 1) BY <1>3, <1>4, <2>1, <2>2 DEF SnapOpen
  <2>4. x.pc = "task" /\ x.idx = i /\ x.plan = a.plan /\ x.replans = a.replans /\ SameCall(x, a)
    BY <1>2, <2>1 DEF Agent, SameCall, States
  <2>5. Set(w, x) BY <1>9
  <2> HIDE DEF x
  <2>6. Stands(x, Book(M)) /\ ~Paused(x) BY <2>3, <2>4 DEF Stands, Paused
  <2> QED BY <1>6, <2>4, <2>5, <2>6
<1> QED BY <1>7, <1>8, <1>9 DEF Resume

\* A planner call opens the books of its round; it is the first of that round.
LEMMA MakePlanBooks == ASSUME IInv, SerialInv, NEW w \in Workers, MakePlan(w) PROVE SerialInv'
<1> DEFINE a == agent[w]
           planned(p) == [a EXCEPT !.plan = p, !.state = "PLANNING", !.pc = "plan_gate"]
<1>1. a # Idle /\ a.pc = "plan" /\ UNCHANGED <<store, outcome, ran, records, twinPuts, faults>>
  BY DEF MakePlan, At
<1>2. PICK M \in Msgs : /\ a \in Agent /\ a.msg = M /\ CallOK(a, Book(M), OwnRow(M)) /\ Closed(Book(M))
                        /\ Book(M) \in Books
  BY <1>1, CallStands
<1>3. Open(Book(M), a.replans, 0, a.plan, 0) BY <1>1, <1>2 DEF CallOK, Stands
<1>4. planCalls' = planCalls \/ planCalls' = [planCalls EXCEPT ![M] = Bump(planCalls[M])]
  BY <1>2 DEF MakePlan
<1>5. \A m \in Msgs : m # M => Book(m)' = Book(m) BY <1>1, <1>4 DEF Book, IInv, TypeOK
<1>6. Open(Book(M)', a.replans, 1, a.plan, 0)
  <2>1. /\ Book(M)'.calls \in Nat /\ Book(M)'.calls <= Book(M).calls + 1
        /\ Book(M)'.ran = Book(M).ran /\ Book(M)'.twins = Book(M).twins
        /\ Book(M)'.recs = Book(M).recs /\ Book(M)'.faults = Book(M).faults
    BY <1>1, <1>4 DEF Book, IInv, TypeOK, Bump
  <2>2. /\ Cap(Book(M).faults) \in Nat /\ MaxReplans \in Nat /\ a.replans \in Nat
        /\ Cap(1 + Book(M).faults) = Cap(Book(M).faults) + 1 + MaxReplans
    BY <1>2, CapGrows, ConstantsTyped DEF Books, Agent
  <2>3. Book(M).calls \in Nat BY <1>2 DEF Books
  <2> QED BY <1>3, <2>1, <2>2, <2>3 DEF Open, Clean, Closed
<1>7. PICK p \in KnownPlans : Set(w, BeginPlan(planned(p))) \/ Set(w, planned(p))
  BY DEF MakePlan, KnownPlans
<1>8. planned(p) \in Agent /\ SameCall(planned(p), a) /\ ~Paused(planned(p))
      /\ planned(p).replans = a.replans /\ planned(p).pc = "plan_gate"
  BY <1>2 DEF SameCall, Agent, States, Paused
<1> HIDE DEF planned
<1>9. Open(Book(M)', a.replans, 1, planned(p).plan, 0)
  <2>1. \A key, q, r : Ahead(key, a.replans, q, 0) => Ahead(key, a.replans, r, 0) BY DEF Ahead
  <2> QED BY <1>6, <2>1 DEF Open
<1>10. Closed(Book(M)') BY <1>6 DEF Open
<1>11. CASE Set(w, planned(p))
  <2>1. Stands(planned(p), Book(M)') BY <1>8, <1>9 DEF Stands
  <2> QED BY <1>1, <1>2, <1>5, <1>8, <1>10, <1>11, <2>1, CallMoves
<1>12. CASE Set(w, BeginPlan(planned(p)))
  <2> DEFINE x == BeginPlan(planned(p))
  <2>1. Stands(x, Book(M)') BY <1>8, <1>9, StandsBegin
  <2>2. SameCall(x, a) /\ ~Paused(x) BY <1>8, KeepsCall, Unpaused DEF SameCall, States, TERMINAL
  <2> HIDE DEF x
  <2> QED BY <1>1, <1>2, <1>5, <1>10, <1>12, <2>1, <2>2, CallMoves DEF x
<1> QED BY <1>7, <1>11, <1>12

\* A row written by run M is its own; another run of the same run_id loses its row.
LEMMA RowWritten ==
  ASSUME IInv, NEW M \in Msgs, NEW row \in PausedRun, row.snap.msg = M,
         store' = [store EXCEPT ![RunIdOf[M]] = row]
  PROVE  OwnRow(M)' = row /\ \A m \in Msgs : m # M => Later(OwnRow(m), OwnRow(m)')
<1>1. RunIdOf \in [Msgs -> RunIds] BY ConstantsTyped
<1>2. \A r \in RunIds : store'[r] = IF r = RunIdOf[M] THEN row ELSE store[r] BY DEF IInv, TypeOK
<1>3. row # NoRow BY SentinelsDistinct
<1>4. OwnRow(M)' = row BY <1>1, <1>2, <1>3 DEF OwnRow
<1>5. ASSUME NEW m \in Msgs, m # M PROVE OwnRow(m)' = NoRow \/ OwnRow(m)' = OwnRow(m)
  <2>1. CASE RunIdOf[m] = RunIdOf[M]
    <3>1. store'[RunIdOf[m]] = row BY <1>1, <1>2, <2>1
    <3> QED BY <1>5, <3>1 DEF OwnRow
  <2>2. CASE RunIdOf[m] # RunIdOf[M]
    <3>1. store'[RunIdOf[m]] = store[RunIdOf[m]] BY <1>1, <1>2, <2>2
    <3> QED BY <3>1 DEF OwnRow
  <2> QED BY <2>1, <2>2
<1> QED BY <1>4, <1>5 DEF Later

\* A gate hands the position of the call over to the snapshot, or lets the call go on, or rejects it.
LEMMA GateBooks ==
  ASSUME IInv, HomeInv, SerialInv, NEW w \in Workers, agent[w] # Idle, agent[w].pc # "return",
         NEW act, NEW scope, NEW tid, NEW onward, Gate(w, act, scope, tid, onward),
         UNCHANGED <<outcome, history>>,
         NEW M \in Msgs, agent[w].msg = M, SameCall(onward, agent[w]), ~Paused(onward),
         Stands(onward, Book(M)), Open(Book(M), agent[w].replans, 1, agent[w].plan, 0)
           \/ Open(Book(M), agent[w].replans, 1, agent[w].plan, agent[w].idx - 1),
         ToState(agent[w], scope, act, tid) \in Snapshot,
         SnapOpen(ToState(agent[w], scope, act, tid), Book(M))
  PROVE  SerialInv'
<1> DEFINE a == agent[w]
           row == [snap |-> ToState(a, scope, act, tid), status |-> "pending"]
<1>1. a \in Agent /\ a.run = RunIdOf[M] /\ Closed(Book(M))
  BY DEF IInv, TypeOK, HomeInv, SerialInv, BooksInv
<1>2. \A m : Book(m)' = Book(m) BY BooksSame
<1>3. Clean(Book(M)) /\ a.replans <= MaxReplans BY DEF Open
<1>4. ASSUME NEW x, Set(w, x), UNCHANGED store, SameCall(x, a), ~Paused(x), Stands(x, Book(M)) PROVE SerialInv'
  BY <1>1, <1>2, <1>4, CallMoves
<1>5. CASE Set(w, onward) /\ UNCHANGED store BY <1>4, <1>5
<1>6. CASE Set(w, Stop(a, "REJECTED")) /\ UNCHANGED store
  BY <1>1, <1>3, <1>4, <1>6, StandsEnd, KeepsCall, Unpaused DEF States, TERMINAL
<1>7. CASE Set(w, Stop(a, "AWAITING_APPROVAL")) /\ store' = [store EXCEPT ![a.run] = row]
  <2> DEFINE x == Stop(a, "AWAITING_APPROVAL")
  <2>1. row \in PausedRun /\ row # NoRow /\ row.snap.msg = M /\ row.snap.replans = a.replans
        /\ row.snap = ToState(a, scope, act, tid)
    BY SentinelsDistinct DEF PausedRun, ToState
  <2>2. x \in Agent /\ x # Idle /\ x.msg = M /\ Paused(x) /\ Stands(x, Book(M))
    BY <1>1, <1>3, EndsWhere, StandsEnd, SentinelsDistinct DEF SameRun, Paused, States
  <2> HIDE DEF row, x
  <2>3. OwnRow(M)' = row /\ \A m \in Msgs : m # M => Later(OwnRow(m), OwnRow(m)')
    BY <1>1, <1>7, <2>1, RowWritten DEF row
  <2>4. BudgetKept(row) BY <1>3, <2>1 DEF BudgetKept
  <2>5. CallOK(x, Book(M), row) BY <2>1, <2>2 DEF CallOK
  <2>6. Set(w, x) BY <1>7 DEF x
  <2> QED BY <1>1, <1>2, <2>2, <2>3, <2>4, <2>5, <2>6, OneRunMoves
<1> QED BY <1>5, <1>6, <1>7 DEF Gate

LEMMA PlanGateBooks == ASSUME IInv, HomeInv, SerialInv, NEW w \in Workers, PlanGate(w) PROVE SerialInv'
<1> DEFINE a == agent[w]
           s == ToState(a, "plan", PlanAction(a.plan), NoTool)
<1>1. /\ a # Idle /\ a.pc = "plan_gate" /\ UNCHANGED <<outcome, history>>
      /\ Gate(w, PlanAction(a.plan), "plan", NoTool, BeginPlan(a))
  BY DEF PlanGate, At
<1>2. PICK M \in Msgs : a \in Agent /\ a.msg = M /\ CallOK(a, Book(M), OwnRow(M)) BY <1>1, CallStands
<1>3. Open(Book(M), a.replans, 1, a.plan, 0) BY <1>1, <1>2 DEF CallOK, Stands
<1>4. s \in Snapshot BY <1>2, PlanActionTyped, ToStateTyped DEF Agent
<1>5. SnapOpen(s, Book(M))
  <2>1. s.pause_scope = "plan" /\ s.plan = a.plan /\ s.replans = a.replans BY DEF ToState
  <2> HIDE DEF s
  <2> QED BY <1>3, <2>1 DEF SnapOpen, PausedBefore
<1>6. Stands(BeginPlan(a), Book(M)) /\ SameCall(BeginPlan(a), a) /\ ~Paused(BeginPlan(a))
  BY <1>2, <1>3, StandsBegin, KeepsCall, Unpaused DEF States, TERMINAL
<1> QED BY <1>1, <1>2, <1>3, <1>4, <1>5, <1>6, GateBooks

LEMMA TaskGateBooks == ASSUME IInv, HomeInv, SerialInv, NEW w \in Workers, TaskGate(w) PROVE SerialInv'
<1> DEFINE a == agent[w]
           t == CurrentTask(a)
           s == ToState(a, "action", ActionForTask(t), t.task_id)
           invoking == [a EXCEPT !.pc = "invoke"]
<1>1. a # Idle /\ a.pc = "task" /\ UNCHANGED <<outcome, history>> BY DEF TaskGate, At
<1>2. PICK M \in Msgs : a \in Agent /\ a.msg = M /\ CallOK(a, Book(M), OwnRow(M)) /\ Closed(Book(M))
  BY <1>1, CallStands
<1>3. a.idx \in 1..Len(a.plan.tasks) /\ a.plan \in KnownPlans /\ a.idx \in Nat
  BY <1>1, <1>2 DEF IInv, AgentsInv, AgentInv, Agent
<1>4. Open(Book(M), a.replans, 1, a.plan, a.idx - 1) BY <1>1, <1>2 DEF CallOK, Stands
<1>5. \A m : Book(m)' = Book(m) BY <1>1, BooksSame
<1>6. ASSUME NEW x, Set(w, x), UNCHANGED store, SameCall(x, a), ~Paused(x), Stands(x, Book(M)) PROVE SerialInv'
  BY <1>1, <1>2, <1>5, <1>6, CallMoves
<1>7. SameCall(invoking, a) /\ ~Paused(invoking) /\ Stands(invoking, Book(M))
  <2>1. /\ SameCall(invoking, a) /\ invoking.pc = "invoke" /\ invoking.plan = a.plan /\ invoking.idx = a.idx
        /\ invoking.replans = a.replans
    BY <1>2 DEF SameCall, Agent
  <2> HIDE DEF invoking
  <2> QED BY <1>4, <2>1 DEF Stands, Paused
<1>8. CASE Set(w, AfterTool(a)) /\ UNCHANGED store
  <2>1. a.idx - 1 \in Nat /\ (a.idx - 1) + 1 = a.idx BY <1>3, PlanTyped
  <2>2. Open(Book(M), a.replans, 1, a.plan, a.idx) BY <1>4, <2>1, OpenOn
  <2> QED BY <1>2, <1>6, <1>8, <2>2, StandsNext, KeepsCall, Unpaused DEF States, TERMINAL
<1>9. CASE Set(w, invoking) /\ UNCHANGED store BY <1>6, <1>7, <1>9
<1>10. CASE t.tool # NoTool /\ Gate(w, ActionForTask(t), "action", t.task_id, invoking)
  <2>1. t \in Task /\ ActionForTask(t) \in Action BY <1>3, <1>10, PlanTyped, TaskActionTyped DEF CurrentTask
  <2>2. s \in Snapshot BY <1>2, <2>1, ToStateTyped DEF Task
  <2>3. /\ s.pause_scope = "action" /\ s.plan = a.plan /\ s.replans = a.replans
        /\ s.paused_task_id = a.plan.tasks[a.idx].task_id
    BY DEF ToState, CurrentTask
  <2>4. SnapOpen(s, Book(M))
    <3> HIDE DEF s
    <3> SUFFICES ASSUME NEW n \in 0..Len(a.plan.tasks), PausedBefore(s, n)
                 PROVE  Open(Book(M), a.replans, 1, a.plan, n)
      BY <2>3 DEF SnapOpen
    <3>1. n + 1 \in 1..Len(a.plan.tasks) /\ a.plan.tasks[n + 1].task_id = a.plan.tasks[a.idx].task_id
      BY <2>3 DEF PausedBefore
    <3>2. n = a.idx - 1 BY <1>3, <3>1, IdTellsPlace
    <3> QED BY <1>4, <3>2
  <2> HIDE DEF s, t, invoking
  <2> QED BY <1>1, <1>2, <1>4, <1>7, <1>10, <2>2, <2>4, GateBooks DEF s
<1> QED BY <1>8, <1>9, <1>10 DEF TaskGate

\* A tool runs for the first time in its round, but for faults.
LEMMA InvokeBooks == ASSUME IInv, SerialInv, NEW w \in Workers, Invoke(w) PROVE SerialInv'
<1> DEFINE a == agent[w]
           t == CurrentTask(a)
           key == <<a.replans, t.task_id>>
           b == [a EXCEPT !.outputs = @ \cup {t.task_id}]
<1>1. a # Idle /\ a.pc = "invoke" /\ UNCHANGED <<store, outcome, planCalls, records, twinPuts, faults>>
  BY DEF Invoke, At
<1>2. PICK M \in Msgs : /\ a \in Agent /\ a.msg = M /\ CallOK(a, Book(M), OwnRow(M)) /\ Closed(Book(M))
                        /\ Book(M) \in Books
  BY <1>1, CallStands
<1>3. a.idx \in 1..Len(a.plan.tasks) /\ a.plan \in KnownPlans /\ a.idx \in Nat
  BY <1>1, <1>2 DEF IInv, AgentsInv, AgentInv, Agent
<1>4. Open(Book(M), a.replans, 1, a.plan, a.idx - 1) BY <1>1, <1>2 DEF CallOK, Stands
<1>5. CASE Set(w, Finalize(a, "FAILED")) /\ UNCHANGED ran
  <2>1. \A m : Book(m)' = Book(m) BY <1>1, <1>5 DEF Book
  <2>2. Stands(Finalize(a, "FAILED"), Book(M)) /\ SameCall(Finalize(a, "FAILED"), a) /\ ~Paused(Finalize(a, "FAILED"))
    BY <1>2, <1>4, StandsEnd, KeepsCall, Unpaused DEF Open, States, TERMINAL
  <2> QED BY <1>1, <1>2, <1>5, <2>1, <2>2, CallMoves
<1>6. CASE /\ Set(w, AfterTool(b))
           /\ ran' = [ran EXCEPT ![M][key] = Bump(@)]
  <2>1. t \in Task /\ t.task_id \in TaskIds BY <1>3, PlanTyped DEF CurrentTask, Task
  <2>2. key \in RanKey /\ key[1] = a.replans /\ key[2] = t.task_id
    BY <1>2, <1>4, <2>1, ConstantsTyped DEF Open, Agent, RanKey
  <2> HIDE DEF key
  <2>3. ran \in [Msgs -> [RanKey -> Nat]] BY DEF IInv, TypeOK
  <2>4. \A m \in Msgs : m # M => ran'[m] = ran[m] BY <1>6, <2>3
  <2>5. ran'[M] = [ran[M] EXCEPT ![key] = Bump(ran[M][key])] BY <1>6, <2>2, <2>3
  <2>6. \A m \in Msgs : m # M => Book(m)' = Book(m) BY <1>1, <2>4 DEF Book
  <2>7. /\ \A k \in RanKey : k # key => Book(M)'.ran[k] = Book(M).ran[k]
        /\ Book(M)'.ran[key] <= Book(M).ran[key] + 1 /\ Book(M)'.ran[key] \in Nat
        /\ Book(M)'.calls = Book(M).calls /\ Book(M)'.twins = Book(M).twins
        /\ Book(M)'.recs = Book(M).recs /\ Book(M)'.faults = Book(M).faults
    BY <1>1, <2>2, <2>3, <2>5 DEF Book, Bump
  <2>8. Ahead(key, a.replans, a.plan, a.idx - 1)
    <3>1. ASSUME NEW j \in 1..(a.idx - 1) PROVE a.plan.tasks[j].task_id # key[2]
      <4>1. j \in 1..Len(a.plan.tasks) /\ j # a.idx BY <1>3, PlanTyped
      <4> QED BY <1>3, <2>2, <4>1, PlansOrdered DEF CurrentTask
    <3> QED BY <2>2, <3>1 DEF Ahead
  <2>9. Book(M).ran[key] <= Book(M).faults /\ Book(M).ran[key] \in Nat /\ Book(M).faults \in Nat
    BY <1>2, <1>4, <2>2, <2>8 DEF Open, Books
  <2>10. Closed(Book(M)') BY <1>2, <2>7, <2>9 DEF Closed
  <2>11. ASSUME NEW k \in RanKey, Ahead(k, a.replans, a.plan, a.idx)
         PROVE  Book(M)'.ran[k] <= Book(M)'.faults
    <3>1. a.idx \in 1..a.idx /\ a.plan.tasks[a.idx].task_id = t.task_id BY <1>3 DEF CurrentTask
    <3>2. k[1] > a.replans \/ k[2] # t.task_id BY <2>11, <3>1 DEF Ahead
    <3>3. k # key
      <4>1. a.replans \in Nat BY <1>2 DEF Agent
      <4> QED BY <2>2, <3>2, <4>1
    <3>4. \A j \in 1..(a.idx - 1) : j \in 1..a.idx BY <1>3
    <3>5. Ahead(k, a.replans, a.plan, a.idx - 1) BY <2>11, <3>4 DEF Ahead
    <3> QED BY <1>4, <2>7, <3>3, <3>5 DEF Open
  <2>12. Open(Book(M)', a.replans, 1, a.plan, a.idx) BY <1>4, <2>7, <2>10, <2>11 DEF Open, Clean
  <2>13. SameCall(b, a) /\ b \in Agent /\ b.replans = a.replans /\ b.plan = a.plan /\ b.idx = a.idx
    BY <1>2, <2>1 DEF SameCall, Agent
  <2> DEFINE x == AfterTool(b)
  <2> HIDE DEF b
  <2>14. Stands(x, Book(M)') BY <2>12, <2>13, StandsNext
  <2>15. SameCall(x, a) /\ ~Paused(x) BY <2>13, KeepsCall, Unpaused DEF SameCall, States, TERMINAL
  <2>16. Set(w, x) BY <1>6 DEF b
  <2> HIDE DEF x
  <2> QED BY <1>1, <1>2, <2>6, <2>10, <2>14, <2>15, <2>16, CallMoves
<1> QED BY <1>2, <1>5, <1>6 DEF Invoke

\* A replan opens the next round, within the budget, or escalates.
LEMMA VerifyBooks == ASSUME IInv, SerialInv, NEW w \in Workers, Verify(w) PROVE SerialInv'
<1> DEFINE a == agent[w]
           again == [a EXCEPT !.replans = @ + 1]
           replan == [again EXCEPT !.state = "REPLANNING", !.pc = "plan"]
<1>1. a # Idle /\ a.pc = "verify" /\ UNCHANGED <<store, outcome, history>> BY DEF Verify, At
<1>2. PICK M \in Msgs : /\ a \in Agent /\ a.msg = M /\ CallOK(a, Book(M), OwnRow(M)) /\ Closed(Book(M))
                        /\ Book(M) \in Books
  BY <1>1, CallStands
<1>3. Open(Book(M), a.replans, 1, a.plan, a.idx) BY <1>1, <1>2 DEF CallOK, Stands
<1>4. \A m : Book(m)' = Book(m) BY <1>1, BooksSame
<1>5. ASSUME NEW x, Set(w, x), SameCall(x, a), ~Paused(x), Stands(x, Book(M)) PROVE SerialInv'
  BY <1>1, <1>2, <1>4, <1>5, CallMoves
<1>6. a.replans \in Nat /\ MaxReplans \in Nat BY <1>2, ConstantsTyped DEF Agent
<1>7. again \in Agent /\ SameCall(again, a) /\ again.replans = a.replans + 1 BY <1>2 DEF SameCall, Agent
<1>8. CASE Set(w, Advance(a))
  BY <1>2, <1>3, <1>5, <1>8, StandsNext, KeepsCall, Unpaused DEF States, TERMINAL
<1>9. CASE Set(w, Finalize(a, "FAILED"))
  <2>1. Stands(Finalize(a, "FAILED"), Book(M)) BY <1>2, <1>3, StandsEnd DEF Open, States, TERMINAL
  <2> QED BY <1>2, <1>5, <1>9, <2>1, KeepsCall, Unpaused DEF States, TERMINAL
<1>10. CASE Set(w, Finalize(again, "ESCALATED"))
  <2> DEFINE x == Finalize(again, "ESCALATED")
  <2> HIDE DEF again
  <2>1. Stands(x, Book(M)) BY <1>3, <1>7, StandsEnd DEF Open, States, TERMINAL
  <2>2. SameCall(x, a) /\ ~Paused(x) BY <1>7, KeepsCall, Unpaused DEF SameCall, States, TERMINAL
  <2> HIDE DEF x
  <2> QED BY <1>5, <1>10, <2>1, <2>2 DEF x
<1>11. CASE again.replans <= MaxReplans /\ Set(w, replan)
  <2> HIDE DEF again
  <2>1. /\ replan.pc = "plan" /\ replan.replans = a.replans + 1 /\ replan.plan = again.plan
        /\ SameCall(replan, a)
    BY <1>7 DEF SameCall, Agent, States
  <2>2. \A key \in RanKey : Ahead(key, a.replans + 1, again.plan, 0) => Ahead(key, a.replans, a.plan, a.idx)
    BY <1>6 DEF Ahead, RanKey
  <2>3. Open(Book(M), a.replans + 1, 0, again.plan, 0)
    <3>1. Cap(Book(M).faults) \in Nat /\ Book(M).calls \in Nat BY <1>2, CapGrows DEF Books
    <3>2. Book(M).calls <= Cap(Book(M).faults) + (a.replans + 1) + 0 BY <1>3, <1>6, <3>1 DEF Open
    <3>3. a.replans + 1 <= MaxReplans BY <1>7, <1>11
    <3> QED BY <1>3, <2>2, <3>2, <3>3 DEF Open
  <2> HIDE DEF replan
  <2>4. Stands(replan, Book(M)) /\ ~Paused(replan) BY <2>1, <2>3 DEF Stands, Paused
  <2> QED BY <1>5, <1>11, <2>1, <2>4
<1>12. again.replans > MaxReplans \/ again.replans <= MaxReplans BY <1>6, <1>7
<1> QED BY <1>8, <1>9, <1>10, <1>11, <1>12 DEF Verify

\* Only a run that ends reaches _finalize.
LEMMA FinalizeBooks ==
  ASSUME IInv, SerialInv, NEW w \in Workers, FinalizeMemory(w) \/ FinalizeTwin(w)
  PROVE  SerialInv'
<1> DEFINE a == agent[w]
<1>1. a # Idle /\ a.pc \in {"memory", "twin"} /\ UNCHANGED <<store, outcome, planCalls, ran, faults>>
  BY DEF FinalizeMemory, FinalizeTwin, At
<1>2. PICK M \in Msgs : /\ a \in Agent /\ a.msg = M /\ CallOK(a, Book(M), OwnRow(M)) /\ Closed(Book(M))
                        /\ Book(M) \in Books
  BY <1>1, CallStands
<1>3. a.state \notin {"AWAITING_APPROVAL", "REJECTED"} /\ Book(M).twins <= Book(M).faults
  BY <1>1, <1>2 DEF CallOK, Stands
<1>4. /\ Book(M)'.calls = Book(M).calls /\ Book(M)'.ran = Book(M).ran /\ Book(M)'.faults = Book(M).faults
      /\ Book(M)'.twins = twinPuts'[M] /\ Book(M).twins = twinPuts[M]
  BY <1>1 DEF Book
<1>5. CASE FinalizeMemory(w)
  <2> DEFINE x == [a EXCEPT !.pc = "twin"]
  <2>1. Set(w, x) /\ UNCHANGED twinPuts BY <1>5 DEF FinalizeMemory
  <2>2. \A m \in Msgs : m # M => Book(m)' = Book(m) BY <1>1, <1>2, <1>5 DEF FinalizeMemory, Book, IInv, TypeOK
  <2>3. x.pc = "twin" /\ x.state = a.state /\ SameCall(x, a) BY <1>2 DEF SameCall, Agent
  <2> HIDE DEF x
  <2>4. Closed(Book(M)') BY <1>2, <1>4, <2>1 DEF Closed
  <2>5. Stands(x, Book(M)') /\ ~Paused(x) BY <1>3, <1>4, <2>1, <2>3 DEF Stands, Paused
  <2> QED BY <1>1, <1>2, <2>1, <2>2, <2>3, <2>4, <2>5, CallMoves
<1>6. CASE FinalizeTwin(w)
  <2>1. PICK s \in {a.state, "FAILED"} : Set(w, Stop(a, s)) BY <1>6 DEF FinalizeTwin
  <2>2. twinPuts' = twinPuts \/ twinPuts' = [twinPuts EXCEPT ![M] = Bump(@)] BY <1>2, <1>6 DEF FinalizeTwin
  <2>3. UNCHANGED records BY <1>6 DEF FinalizeTwin
  <2>4. \A m \in Msgs : m # M => Book(m)' = Book(m) BY <1>1, <2>2, <2>3 DEF Book, IInv, TypeOK
  <2>5. twinPuts'[M] <= twinPuts[M] + 1 /\ twinPuts'[M] \in Nat /\ twinPuts[M] \in Nat
    BY <2>2 DEF IInv, TypeOK, Bump
  <2>6. Closed(Book(M)')
    <3>1. Book(M).faults \in Nat BY <1>2 DEF Books
    <3>2. Book(M)'.twins <= 1 + Book(M)'.faults BY <1>3, <1>4, <2>5, <3>1
    <3> QED BY <1>2, <1>4, <3>2 DEF Closed
  <2>7. s \in States /\ s \notin {"AWAITING_APPROVAL", "REJECTED"} BY <1>2, <1>3 DEF Agent, States, TERMINAL
  <2>8. Stands(Stop(a, s), Book(M)') BY <1>2, <2>7, EndsWhere DEF Stands
  <2>9. SameCall(Stop(a, s), a) /\ ~Paused(Stop(a, s)) BY <1>2, <2>7, KeepsCall, Unpaused
  <2> QED BY <1>1, <1>2, <2>1, <2>4, <2>6, <2>8, <2>9, CallMoves
<1> QED BY <1>5, <1>6

\* mark_resolved takes the call's row off the queue and leaves the others.
LEMMA RowMarked ==
  ASSUME IInv, HomeInv, NEW w \in Workers, Return(w)
  PROVE  /\ \A m \in Msgs : Later(OwnRow(m), OwnRow(m)')
         /\ \A m \in Msgs : m = agent[w].msg /\ OwnRow(m)' # NoRow =>
              IF agent[w].call = "resume" THEN OwnRow(m)'.status # "pending" ELSE OwnRow(m)' = OwnRow(m)
<1> DEFINE a == agent[w]
<1>1. a # Idle /\ a.run = RunIdOf[a.msg] /\ RunIdOf \in [Msgs -> RunIds]
  BY ConstantsTyped DEF Return, At, HomeInv
<1>2. ASSUME NEW m \in Msgs PROVE Later(OwnRow(m), OwnRow(m)')
  <2> DEFINE r == RunIdOf[m]
  <2>1. r \in RunIds BY <1>1
  <2>2. /\ store'[r] # NoRow <=> store[r] # NoRow
        /\ store[r] # NoRow => store'[r].snap = store[r].snap
        /\ store[r] # NoRow /\ store'[r].status = "pending" => store[r].status = "pending"
    <3>1. store'[r] = store[r] \/ (r = a.run /\ a.call = "resume") BY <2>1, MarkKeeps
    <3> QED BY <2>1, <3>1, MarkKeeps
  <2> QED BY <2>2 DEF Later, OwnRow
<1>3. ASSUME NEW m \in Msgs, m = a.msg, OwnRow(m)' # NoRow, a.call = "resume"
      PROVE  OwnRow(m)'.status # "pending"
  <2>1. OwnRow(m)' = store'[a.run] BY <1>1, <1>3 DEF OwnRow
  <2> QED BY <1>3, <2>1, MarkKeeps
<1>4. ASSUME NEW m \in Msgs, a.call # "resume" PROVE OwnRow(m)' = OwnRow(m)
  BY <1>4, MarkKeeps, RowsSame
<1> QED BY <1>2, <1>3, <1>4

LEMMA ReturnBooks == ASSUME IInv, HomeInv, SerialInv, NEW w \in Workers, Return(w) PROVE SerialInv'
<1> DEFINE a == agent[w]
<1>1. a # Idle /\ a.pc = "return" /\ Set(w, Idle) /\ UNCHANGED history BY DEF Return, At
<1>2. PICK M \in Msgs : /\ a \in Agent /\ a.msg = M /\ CallOK(a, Book(M), OwnRow(M)) /\ Closed(Book(M))
                        /\ BudgetKept(OwnRow(M))
  BY <1>1, CallStands
<1>3. \A m : Book(m)' = Book(m) BY <1>1, BooksSame
<1>4. outcome'[M] = a.state /\ \A m \in Msgs : m # M => outcome'[m] = outcome[m]
  BY <1>2 DEF Return, IInv, TypeOK
<1>5. a.state \in States /\ a.state # "UNSENT" BY <1>2 DEF Agent, States, TERMINAL
<1>6. a.state \in {"AWAITING_APPROVAL", "REJECTED"} => Clean(Book(M)) BY <1>1, <1>2 DEF CallOK, Stands
<1>7. ASSUME OwnRow(M)' # NoRow, OwnRow(M)'.status = "pending" \/ a.state = "AWAITING_APPROVAL"
      PROVE  SnapOpen(OwnRow(M)'.snap, Book(M)) /\ Clean(Book(M))
  <2>1. OwnRow(M) # NoRow /\ OwnRow(M)'.snap = OwnRow(M).snap BY <1>7, RowMarked DEF Later
  <2>2. a.state = "AWAITING_APPROVAL"
    <3>1. CASE a.call = "resume" BY <1>2, <1>7, <3>1, RowMarked
    <3>2. CASE a.call = "dispatch" BY <1>2, <2>1, <3>2 DEF CallOK, Paused
    <3> QED BY <1>2, <3>1, <3>2 DEF Agent
  <2>3. SnapOpen(OwnRow(M).snap, Book(M)) BY <1>1, <1>2, <2>1, <2>2 DEF CallOK, Paused
  <2> QED BY <1>6, <2>1, <2>2, <2>3
<1>8. RestOK(outcome'[M], Book(M)', OwnRow(M)') BY <1>3, <1>4, <1>5, <1>6, <1>7 DEF RestOK
<1>9. BudgetKept(OwnRow(M)') BY <1>2, RowMarked, LaterKeeps
<1> QED BY <1>1, <1>2, <1>3, <1>4, <1>8, <1>9, RowMarked, OneRunMoves

\* A fault pays for one more round of everything: the books are open wherever the run goes on.
LEMMA FaultBooks ==
  ASSUME IInv, SerialInv, NEW w \in Workers, ReturnUnmarked(w) \/ Crash(w)
  PROVE  SerialInv'
<1> DEFINE a == agent[w]
<1>1. /\ a # Idle /\ Set(w, Idle) /\ UNCHANGED <<store, ran, planCalls, records, twinPuts>>
      /\ faults' = [faults EXCEPT ![a.msg] = @ + 1]
  BY DEF ReturnUnmarked, Crash, At
<1>2. PICK M \in Msgs : /\ a \in Agent /\ a.msg = M /\ Closed(Book(M)) /\ Book(M) \in Books
                        /\ BudgetKept(OwnRow(M))
  BY <1>1, CallStands
<1>3. outcome'[M] # "UNSENT" /\ \A m \in Msgs : m # M => outcome'[m] = outcome[m]
  BY <1>2 DEF ReturnUnmarked, Crash, IInv, TypeOK, Agent, States, TERMINAL
<1>4. \A m \in Msgs : m # M => Book(m)' = Book(m) BY <1>1, <1>2 DEF Book, IInv, TypeOK
<1>5. /\ Book(M)'.calls = Book(M).calls /\ Book(M)'.ran = Book(M).ran
      /\ Book(M)'.twins = Book(M).twins /\ Book(M)'.faults = Book(M).faults + 1
  BY <1>1, <1>2 DEF Book, IInv, TypeOK
<1>6. /\ Book(M).faults \in Nat /\ Book(M).calls \in Nat /\ Book(M).twins \in Nat
      /\ \A key \in RanKey : Book(M).ran[key] \in Nat
      /\ MaxReplans \in Nat
  BY <1>2, ConstantsTyped DEF Books
<1>7. /\ Cap(1 + Book(M).faults) \in Nat /\ 1 + Book(M).faults = Book(M).faults + 1
      /\ Cap(1 + (Book(M).faults + 1)) = Cap(Book(M).faults + 1) + 1 + MaxReplans
  BY <1>6, CapGrows
<1>8. Closed(Book(M)') /\ Clean(Book(M)') /\ Book(M)'.calls <= Cap(Book(M)'.faults)
      /\ \A key \in RanKey : Book(M)'.ran[key] <= Book(M)'.faults
  <2>1. Book(M)'.calls <= Cap(Book(M)'.faults) BY <1>2, <1>5, <1>7 DEF Closed
  <2>2. Book(M)'.calls <= Cap(1 + Book(M)'.faults) BY <1>2, <1>5, <1>6, <1>7 DEF Closed
  <2>3. Book(M)'.twins <= Book(M)'.faults /\ Book(M)'.faults # 0 BY <1>2, <1>5, <1>6 DEF Closed
  <2>4. \A key \in RanKey : Book(M)'.ran[key] <= Book(M)'.faults BY <1>2, <1>5, <1>6 DEF Closed
  <2>5. Book(M)'.twins <= 1 + Book(M)'.faults BY <1>5, <1>6, <2>3
  <2>6. \A key \in RanKey : Book(M)'.ran[key] <= 1 + Book(M)'.faults BY <1>5, <1>6, <2>4
  <2> QED BY <2>1, <2>2, <2>3, <2>4, <2>5, <2>6 DEF Closed, Clean
<1>9. ASSUME OwnRow(M) # NoRow PROVE SnapOpen(OwnRow(M).snap, Book(M)')
  <2> DEFINE k == OwnRow(M).snap.replans
  <2>1. k \in Nat /\ k <= MaxReplans
    <3>1. OwnRow(M) \in PausedRun
      BY <1>9, ConstantsTyped DEF OwnRow, IInv, TypeOK
    <3> QED BY <1>2, <1>9, <3>1 DEF BudgetKept, PausedRun, Snapshot
  <2>2. Book(M)'.calls <= Cap(Book(M)'.faults) + k + 1 BY <1>5, <1>6, <1>7, <1>8, <2>1
  <2> QED BY <1>8, <2>1, <2>2 DEF SnapOpen, Open
<1>10. \A m : OwnRow(m)' = OwnRow(m) BY <1>1, RowsSame
<1>11. RestOK(outcome'[M], Book(M)', OwnRow(M)') BY <1>3, <1>8, <1>9, <1>10 DEF RestOK
<1>12. \A q : Later(q, q) BY DEF Later
<1> QED BY <1>1, <1>2, <1>3, <1>4, <1>8, <1>10, <1>11, <1>12, OneRunMoves

\* A dispatched run has clean books and no row of its own.
LEMMA DispatchBooks ==
  ASSUME IInv, SerialInv, NEW w \in Workers, NEW m \in Msgs, Dispatch(w, m) PROVE SerialInv'
<1> DEFINE x == [call |-> "dispatch", pc |-> "plan", msg |-> m, run |-> RunIdOf[m],
                 broker |-> broker, verdict |-> "none", plan |-> ImplicitPlan, idx |-> 1,
                 resumed |-> FALSE, outputs |-> {}, replans |-> 0,
                 state |-> "ASSEMBLING", pause |-> NoRow]
<1>1. /\ agent[w] = Idle /\ outcome[m] = "UNSENT" /\ ~Live(m) /\ Set(w, x)
      /\ UNCHANGED <<store, outcome, history>>
  BY DEF Dispatch, Live
<1>2. x.pc = "plan" /\ x.msg = m /\ x.replans = 0 /\ x.call = "dispatch" OBVIOUS
<1>3. Fresh(Book(m)) /\ OwnRow(m) = NoRow /\ Closed(Book(m)) /\ BudgetKept(OwnRow(m))
  BY <1>1 DEF SerialInv, RestInv, RestOK, BooksInv
<1> HIDE DEF x
<1>4. Cap(0) = 0 /\ MaxReplans \in Nat BY ConstantsTyped DEF Cap
<1>5. Open(Book(m), 0, 0, x.plan, 0) BY <1>3, <1>4 DEF Open, Fresh, Clean
<1>6. Stands(x, Book(m)) BY <1>2, <1>5 DEF Stands
<1>7. CallOK(x, Book(m), OwnRow(m)) BY <1>2, <1>3, <1>6 DEF CallOK, Paused
<1>8. (\A n : Book(n)' = Book(n) /\ OwnRow(n)' = OwnRow(n)) /\ \A q : Later(q, q)
  BY <1>1, BooksSame, RowsSame DEF Later
<1>9. x # Idle
  <2>1. agent'[w] = x BY <1>1 DEF IInv, TypeOK, Set
  <2>2. x \in Agent BY ConstantsTyped DEF x, Agent, KnownPlans, Verdict, States, IInv, TypeOK
  <2> QED BY <2>2, SentinelsDistinct
<1> QED BY <1>1, <1>2, <1>3, <1>7, <1>8, <1>9, OneRunMoves

\* What a serial caller may resume: the run is at rest and its row can be gone on from.
LEMMA ResumableRow ==
  ASSUME IInv, HomeInv, SerialInv, SerialResume, NEW r \in RunIds, store[r] # NoRow, MayResume(r)
  PROVE  LET m == store[r].snap.msg
         IN  /\ m \in Msgs /\ ~Live(m) /\ OwnRow(m) = store[r]
             /\ SnapOpen(store[r].snap, Book(m)) /\ Clean(Book(m))
<1> DEFINE m == store[r].snap.msg
<1>1. m \in Msgs /\ RunIdOf[m] = r BY DEF IInv, TypeOK, PausedRun, Snapshot, HomeInv
<1>2. ~Busy(r) /\ (store[r].status = "pending" \/ outcome[m] = "AWAITING_APPROVAL")
  BY DEF MayResume, Pending
<1>3. ~Live(m) BY <1>1, <1>2 DEF Live, Busy, HomeInv
<1>4. OwnRow(m) = store[r] BY <1>1 DEF OwnRow
<1>5. RestOK(outcome[m], Book(m), OwnRow(m)) BY <1>1, <1>3 DEF SerialInv, RestInv
<1> QED BY <1>1, <1>2, <1>3, <1>4, <1>5 DEF RestOK

LEMMA DispatchResumeBooks ==
  ASSUME IInv, HomeInv, SerialInv, SerialResume, NEW w \in Workers, NEW r \in RunIds, DispatchResume(w, r)
  PROVE  SerialInv'
<1> DEFINE s == store[r].snap
           x == [call |-> "resume", pc |-> "resolve", msg |-> s.msg, run |-> r,
                 broker |-> broker, verdict |-> grants[s.action.name], plan |-> s.plan, idx |-> 1,
                 resumed |-> FALSE, outputs |-> s.outputs, replans |-> s.replans,
                 state |-> "AWAITING_APPROVAL", pause |-> s]
<1>1. /\ agent[w] = Idle /\ store[r] # NoRow /\ MayResume(r) /\ Set(w, x)
      /\ UNCHANGED <<store, outcome, history>>
  BY DEF DispatchResume
<1>2. PICK M \in Msgs : /\ M = s.msg /\ ~Live(M) /\ OwnRow(M) = store[r]
                        /\ SnapOpen(s, Book(M)) /\ Clean(Book(M))
  BY <1>1, ResumableRow
<1>3. x.pc = "resolve" /\ x.msg = M /\ x.replans = x.pause.replans /\ x.pause = s /\ x.call = "resume"
  BY <1>2
<1>4. x # Idle
  <2>1. s \in Snapshot BY <1>1 DEF IInv, TypeOK, PausedRun
  <2>2. s.action.name \in Names BY <2>1 DEF Snapshot, Action
  <2>3. grants[s.action.name] \in Verdict /\ broker \in Brokers \cup {Off} BY <2>2 DEF IInv, TypeOK
  <2>4. x \in Agent BY <2>1, <2>3 DEF Snapshot, Agent, States
  <2> QED BY <2>4, SentinelsDistinct
<1> HIDE DEF x
<1>5. Stands(x, Book(M)) BY <1>2, <1>3 DEF Stands
<1>6. CallOK(x, Book(M), OwnRow(M)) BY <1>3, <1>5 DEF CallOK, Paused
<1>7. (\A n : Book(n)' = Book(n) /\ OwnRow(n)' = OwnRow(n)) /\ \A q : Later(q, q)
  BY <1>1, BooksSame, RowsSame DEF Later
<1>8. Closed(Book(M)) /\ BudgetKept(OwnRow(M)) BY DEF SerialInv, BooksInv
<1> QED BY <1>1, <1>2, <1>3, <1>4, <1>6, <1>7, <1>8, OneRunMoves

\* A NEop that does not load rejects a run that has not ended.
LEMMA UnloadableBooks ==
  ASSUME IInv, HomeInv, SerialInv, SerialResume,
         (\E m \in Msgs : DispatchUnloadable(m)) \/ (\E r \in RunIds : ResumeUnloadable(r))
  PROVE  SerialInv'
<1>1. UNCHANGED <<agent, store, history>> BY DEF DispatchUnloadable, ResumeUnloadable
<1>2. \A m : Book(m)' = Book(m) /\ OwnRow(m)' = OwnRow(m) BY <1>1, BooksSame, RowsSame
<1>3. PICK M \in Msgs :
        /\ outcome' = [outcome EXCEPT ![M] = "REJECTED"]
        /\ Clean(Book(M)) /\ (OwnRow(M) # NoRow => SnapOpen(OwnRow(M).snap, Book(M)))
  <2>1. ASSUME NEW m \in Msgs, DispatchUnloadable(m)
        PROVE  outcome' = [outcome EXCEPT ![m] = "REJECTED"] /\ Clean(Book(m)) /\ OwnRow(m) = NoRow
    <3>1. ~Live(m) /\ outcome[m] = "UNSENT" BY <2>1 DEF DispatchUnloadable, Live
    <3>2. Fresh(Book(m)) /\ OwnRow(m) = NoRow BY <3>1 DEF SerialInv, RestInv, RestOK
    <3> QED BY <2>1, <3>2 DEF DispatchUnloadable, Fresh, Clean
  <2>2. ASSUME NEW r \in RunIds, ResumeUnloadable(r)
        PROVE  \E m \in Msgs : /\ outcome' = [outcome EXCEPT ![m] = "REJECTED"]
                               /\ Clean(Book(m)) /\ SnapOpen(OwnRow(m).snap, Book(m))
    <3>1. store[r] # NoRow /\ MayResume(r) /\ outcome' = [outcome EXCEPT ![store[r].snap.msg] = "REJECTED"]
      BY <2>2 DEF ResumeUnloadable
    <3> QED BY <3>1, ResumableRow
  <2> QED BY <2>1, <2>2
<1>4. outcome'[M] = "REJECTED" /\ \A m \in Msgs : m # M => outcome'[m] = outcome[m]
  BY <1>3 DEF IInv, TypeOK
<1>5. ASSUME NEW m \in Msgs, ~Live(m) PROVE RestOK(outcome'[m], Book(m), OwnRow(m))
  <2>1. CASE m = M BY <1>3, <1>4, <2>1 DEF RestOK
  <2>2. CASE m # M BY <1>4, <1>5, <2>2 DEF SerialInv, RestInv
  <2> QED BY <2>1, <2>2
<1>6. \A m : Live(m)' <=> Live(m) BY <1>1 DEF Live
<1>7. OneCall' BY <1>1 DEF SerialInv, OneCall
<1>8. BooksInv' BY <1>2 DEF SerialInv, BooksInv
<1>9. CallsInv' BY <1>1, <1>2 DEF SerialInv, CallsInv
<1>10. RestInv' BY <1>2, <1>5, <1>6 DEF RestInv
<1> QED BY <1>7, <1>8, <1>9, <1>10 DEF SerialInv

LEMMA InitBooks == Init => SerialInv
<1> SUFFICES ASSUME Init PROVE SerialInv OBVIOUS
<1>1. RunIdOf \in [Msgs -> RunIds] /\ MaxReplans \in Nat BY ConstantsTyped
<1>2. \A w \in Workers : agent[w] = Idle BY DEF Init
<1>3. ASSUME NEW m \in Msgs
      PROVE  Fresh(Book(m)) /\ OwnRow(m) = NoRow /\ outcome[m] = "UNSENT"
  BY <1>1, <1>3 DEF Init, Fresh, Book, OwnRow
<1>4. \A b : Fresh(b) => Closed(b)
  <2>1. Cap(1) = 1 + MaxReplans BY <1>1 DEF Cap
  <2> QED BY <1>1, <2>1 DEF Fresh, Closed
<1>5. BooksInv BY <1>3, <1>4 DEF BooksInv, BudgetKept
<1>6. RestInv BY <1>3 DEF RestInv, RestOK
<1> QED BY <1>2, <1>5, <1>6 DEF SerialInv, OneCall, CallsInv

LEMMA SerialAlways == ASSUME SerialResume PROVE Spec => []SerialInv
<1>1. ASSUME IInv, HomeInv, SerialInv, [Next]_vars PROVE SerialInv'
  <2>1. ASSUME UNCHANGED <<agent, store, outcome, history>> PROVE SerialInv'
    <3>1. \A m : Book(m)' = Book(m) /\ OwnRow(m)' = OwnRow(m) BY <2>1, BooksSame, RowsSame
    <3>2. \A m : Live(m)' <=> Live(m) BY <2>1 DEF Live
    <3>3. OneCall' BY <1>1, <2>1 DEF SerialInv, OneCall
    <3>4. BooksInv' BY <1>1, <3>1 DEF SerialInv, BooksInv
    <3>5. CallsInv' BY <1>1, <2>1, <3>1 DEF SerialInv, CallsInv
    <3>6. RestInv' BY <1>1, <2>1, <3>1, <3>2 DEF SerialInv, RestInv
    <3> QED BY <3>3, <3>4, <3>5, <3>6 DEF SerialInv
  <2>2. CASE UNCHANGED vars BY <2>1, <2>2 DEF vars
  <2>3. ASSUME NEW b \in Brokers \cup {Off}, Redeploy(b) PROVE SerialInv' BY <2>1, <2>3 DEF Redeploy
  <2>4. ASSUME NEW n \in Names, NEW v \in {"allow", "deny"}, Answer(n, v) PROVE SerialInv'
    <3>1. UNCHANGED <<agent, store, outcome, performed, ran, planCalls, records, twinPuts, faults>>
      BY <2>4 DEF Answer
    <3>2. \A m : Book(m)' = Book(m) /\ OwnRow(m)' = OwnRow(m) BY <3>1, RowsSame DEF Book
    <3>3. \A m : Live(m)' <=> Live(m) BY <3>1 DEF Live
    <3>4. OneCall' BY <1>1, <3>1 DEF SerialInv, OneCall
    <3>5. BooksInv' BY <1>1, <3>2 DEF SerialInv, BooksInv
    <3>6. CallsInv' BY <1>1, <3>1, <3>2 DEF SerialInv, CallsInv
    <3>7. RestInv' BY <1>1, <3>1, <3>2, <3>3 DEF SerialInv, RestInv
    <3> QED BY <3>4, <3>5, <3>6, <3>7 DEF SerialInv
  <2>5. ASSUME NEW w \in Workers, WorkerStep(w) PROVE SerialInv'
    BY <1>1, <2>5, ResumeBooks, MakePlanBooks, PlanGateBooks, TaskGateBooks, InvokeBooks, VerifyBooks,
       FinalizeBooks, ReturnBooks
       DEF WorkerStep
  <2>6. ASSUME NEW w \in Workers, ReturnUnmarked(w) \/ Crash(w) PROVE SerialInv' BY <1>1, <2>6, FaultBooks
  <2>7. CASE \E w \in Workers, m \in Msgs : Dispatch(w, m) BY <1>1, <2>7, DispatchBooks
  <2>8. CASE \E w \in Workers, r \in RunIds : DispatchResume(w, r) BY <1>1, <2>8, DispatchResumeBooks
  <2>9. CASE (\E m \in Msgs : DispatchUnloadable(m)) \/ (\E r \in RunIds : ResumeUnloadable(r))
    BY <1>1, <2>9, UnloadableBooks
  <2> QED BY <1>1, <2>2, <2>3, <2>4, <2>5, <2>6, <2>7, <2>8, <2>9 DEF Next
<1> QED BY <1>1, InitBooks, Invariance, WaitAlways, PTL DEF Spec

\* Pausing and resuming repeats no side effect (the outputs and the paused task carried by
\* to_state, _restore and mark_resolved): a task's tool runs once in a planning round, and once
\* more per crash or failed store update, when runs are resumed one call at a time.
THEOREM ToolsRunOnce == ASSUME SerialResume PROVE Spec => []ToolRunsOncePerRound
<1>1. IInv /\ SerialInv => ToolRunsOncePerRound
  <2>1. \A m : Book(m).ran = ran[m] /\ Book(m).faults = faults[m] BY DEF Book
  <2> QED BY <2>1 DEF SerialInv, BooksInv, Closed, ToolRunsOncePerRound
<1> QED BY <1>1, Invariance, SerialAlways, PTL

\* The replan budget (limits.max_replans) is one budget for the whole run, however often the run
\* pauses: the planner is asked at most 1 + max_replans times, and afresh only after a fault.
THEOREM BudgetIsPerRun == ASSUME SerialResume PROVE Spec => []ReplanBudget
<1>1. IInv /\ SerialInv => ReplanBudget
  <2>1. \A m : Book(m).calls = planCalls[m] /\ Book(m).faults = faults[m] BY DEF Book
  <2> QED BY <2>1 DEF SerialInv, BooksInv, Closed, Cap, ReplanBudget
<1> QED BY <1>1, Invariance, SerialAlways, PTL

\* A run writes its user's twin once over all its pauses (_finalize, put_twin), and once more per
\* fault.
THEOREM TwinsWrittenOnce == ASSUME SerialResume PROVE Spec => []TwinWrittenOnce
<1>1. IInv /\ SerialInv => TwinWrittenOnce
  <2>1. \A m : Book(m).twins = twinPuts[m] /\ Book(m).faults = faults[m] BY DEF Book
  <2> QED BY <2>1 DEF SerialInv, BooksInv, Closed, TwinWrittenOnce
<1> QED BY <1>1, Invariance, SerialAlways, PTL

\* run and resume return before _finalize when the run is paused or rejected: without faults, a
\* run reported so has left no run record and no twin write, in none of its calls.
THEOREM NoTraceOfPaused == ASSUME SerialResume PROVE Spec => []PausedRunsLeaveNoTrace
<1>1. IInv /\ HomeInv /\ SerialInv => PausedRunsLeaveNoTrace
  <2> SUFFICES ASSUME IInv, HomeInv, SerialInv, NEW m \in Msgs,
                      outcome[m] \in {"AWAITING_APPROVAL", "REJECTED"}, ~Busy(RunIdOf[m]), faults[m] = 0
               PROVE  records[m] = {} /\ twinPuts[m] = 0
    BY DEF PausedRunsLeaveNoTrace
  <2>1. ~Live(m) BY DEF Live, Busy, HomeInv
  <2>2. Clean(Book(m)) BY <2>1 DEF SerialInv, RestInv, RestOK
  <2>3. twinPuts[m] \in Nat BY DEF IInv, TypeOK
  <2> QED BY <2>2, <2>3 DEF Clean, Book
<1> QED BY <1>1, Invariance, WaitAlways, SerialAlways, PTL

-----------------------------------------------------------------------------
(***************************************************************************)
(* Refinement.  With a run_id per message, serial callers and no faults,   *)
(* each step of the engine is a step of RunLifecycle or leaves its phases  *)
(* and tallies alone: a call that moves on keeps its run active, a gate's  *)
(* row concerns an active run, and a tool that runs has not run before.    *)
(***************************************************************************)
OwnRunIds == \A m1, m2 \in Msgs : RunIdOf[m1] = RunIdOf[m2] => m1 = m2
NoFaults == \A m \in Msgs : faults[m] = 0

LEMMA FaultFree == ASSUME MaxFaults = 0 PROVE Spec => []NoFaults
<1>1. Init => NoFaults BY DEF Init, NoFaults
<1>2. IInv /\ NoFaults /\ [Next]_vars => NoFaults'
  <2> SUFFICES ASSUME IInv, NoFaults, [Next]_vars PROVE faults' = faults BY DEF NoFaults
  <2>1. ASSUME NEW w \in Workers, ReturnUnmarked(w) \/ Crash(w) PROVE FALSE
    <3>1. agent[w].msg \in Msgs /\ faults[agent[w].msg] < 0
      BY <2>1 DEF ReturnUnmarked, Crash, At, IInv, TypeOK, Agent
    <3> QED BY <3>1 DEF NoFaults
  <2>2. ASSUME NEW w \in Workers, WorkerStep(w) PROVE faults' = faults
    BY <2>2 DEF WorkerStep, Resume, MakePlan, PlanGate, TaskGate, Invoke, Verify, FinalizeMemory,
                FinalizeTwin, Return, history
  <2> QED BY <2>1, <2>2 DEF Next, vars, history, Dispatch, DispatchUnloadable, DispatchResume,
                            ResumeUnloadable, Answer, Redeploy
<1> QED BY <1>1, <1>2, Invariance, PTL DEF Spec

\* The phase of a run depends on its calls, its report and its row.
LEMMA PhaseKept ==
  ASSUME NEW m \in Msgs, Live(m)' <=> Live(m), outcome'[m] = outcome[m],
         store'[RunIdOf[m]] = store[RunIdOf[m]]
  PROVE  Phase(m)' = Phase(m)
<1>1. (RunIdOf[m] \in Pending)' <=> RunIdOf[m] \in Pending BY DEF Pending
<1> QED BY <1>1 DEF Phase, Live

LEMMA LiveElsewhere ==
  ASSUME IInv, NEW w \in Workers, NEW M, NEW x, Set(w, x), agent[w] = Idle \/ agent[w].msg = M,
         x = Idle \/ x.msg = M
  PROVE  \A m : m # M => (Live(m)' <=> Live(m))
<1>1. \A v \in Workers : agent'[v] = IF v = w THEN x ELSE agent[v] BY DEF IInv, TypeOK, Set
<1> QED BY <1>1 DEF Live

\* A call that moves on keeps its run active; no other run changes its phase.
LEMMA ActiveStep ==
  ASSUME IInv, HomeInv, OwnRunIds, NEW w \in Workers, agent[w] # Idle, NEW x, Set(w, x),
         SameCall(x, agent[w]), UNCHANGED outcome, \A r \in RunIds : r # agent[w].run => store'[r] = store[r]
  PROVE  /\ \A m \in Msgs : Phase(m)' = Phase(m)
         /\ Phase(agent[w].msg) = "active"
<1>1. agent[w] \in Agent /\ agent[w].msg \in Msgs /\ agent[w].run = RunIdOf[agent[w].msg]
  BY DEF IInv, TypeOK, Agent, HomeInv
<1>2. PICK M \in Msgs : M = agent[w].msg BY <1>1
<1>3. x # Idle /\ x.msg = M BY <1>2, SentinelsDistinct DEF SameCall
<1>4. agent'[w] = x BY DEF IInv, TypeOK, Set
<1>5. Live(M) /\ Live(M)' BY <1>2, <1>3, <1>4 DEF Live
<1>6. Phase(M) = "active" /\ Phase(M)' = "active" BY <1>5 DEF Phase, Live
<1>7. ASSUME NEW m \in Msgs, m # M PROVE Phase(m)' = Phase(m)
  <2>1. Live(m)' <=> Live(m) BY <1>2, <1>3, <1>7, LiveElsewhere
  <2>2. RunIdOf[m] \in RunIds /\ RunIdOf[m] # agent[w].run BY <1>1, <1>2, <1>7, ConstantsTyped DEF OwnRunIds
  <2> QED BY <2>1, <2>2, PhaseKept
<1> QED BY <1>2, <1>6, <1>7

\* A gate moves its call on and may write the row of its run.
LEMMA GatesMove ==
  ASSUME IInv, NEW w \in Workers, PlanGate(w) \/ TaskGate(w)
  PROVE  /\ agent[w] # Idle /\ UNCHANGED <<outcome, history>>
         /\ \E x : Set(w, x) /\ SameCall(x, agent[w])
         /\ \A r \in RunIds : r # agent[w].run => store'[r] = store[r]
<1> DEFINE a == agent[w]
           invoking == [a EXCEPT !.pc = "invoke"]
<1>1. a # Idle /\ a \in Agent /\ UNCHANGED <<outcome, history>>
  BY DEF PlanGate, TaskGate, At, IInv, TypeOK
<1>2. /\ SameCall(invoking, a) /\ SameCall(BeginPlan(a), a) /\ SameCall(AfterTool(a), a)
      /\ SameCall(Stop(a, "REJECTED"), a) /\ SameCall(Stop(a, "AWAITING_APPROVAL"), a)
  BY <1>1, KeepsCall DEF SameCall, Agent, States, TERMINAL
<1>3. ASSUME NEW act, NEW scope, NEW tid, NEW onward, Gate(w, act, scope, tid, onward), SameCall(onward, a)
      PROVE  (\E x : Set(w, x) /\ SameCall(x, a)) /\ \A r \in RunIds : r # a.run => store'[r] = store[r]
  <2>1. \E x : Set(w, x) /\ SameCall(x, a) BY <1>2, <1>3 DEF Gate
  <2>2. \A r \in RunIds : r # a.run => store'[r] = store[r] BY <1>3 DEF Gate, IInv, TypeOK
  <2> QED BY <2>1, <2>2
<1> HIDE DEF invoking
<1>4. CASE PlanGate(w) BY <1>1, <1>2, <1>3, <1>4 DEF PlanGate
<1>5. CASE TaskGate(w) BY <1>1, <1>2, <1>3, <1>5 DEF TaskGate, invoking
<1> QED BY <1>4, <1>5

\* Steps of the abstract specification, from what happens to one run.
LEMMA AbstractMove ==
  ASSUME NEW M \in Msgs, UNCHANGED ran, \A m \in Msgs : m # M => Phase(m)' = Phase(m),
         \/ Phase(M)' = Phase(M)
         \/ Phase(M) = "new" /\ Phase(M)' \in {"active", "ended"}
         \/ Phase(M) = "waiting" /\ Phase(M)' \in {"active", "ended"}
         \/ Phase(M) = "active" /\ Phase(M)' \in {"waiting", "ended"}
  PROVE  [Lifecycle!Next]_(Lifecycle!vars)
<1>1. CASE Phase(M)' = Phase(M) BY <1>1 DEF Lifecycle!vars
<1>2. CASE Phase(M)' # Phase(M)
  <2>1. [m \in Msgs |-> Phase(m)]' = [[m \in Msgs |-> Phase(m)] EXCEPT ![M] = Phase(M)'] OBVIOUS
  <2>2. [m \in Msgs |-> Phase(m)][M] = Phase(M) OBVIOUS
  <2>3. \/ Lifecycle!Start(M) \/ Lifecycle!Refuse(M) \/ Lifecycle!Resume(M) \/ Lifecycle!GiveUp(M)
        \/ Lifecycle!Pause(M) \/ Lifecycle!End(M)
    BY <1>2, <2>1, <2>2 DEF Lifecycle!Start, Lifecycle!Refuse, Lifecycle!Resume, Lifecycle!GiveUp,
       Lifecycle!Pause, Lifecycle!End, Lifecycle!Move
  <2> QED BY <2>3 DEF Lifecycle!Next, Lifecycle!Leave
<1> QED BY <1>1, <1>2

\* A row that a serial caller may resume is the row of a run that waits.
LEMMA WaitingRow ==
  ASSUME IInv, HomeInv, SerialInv, SerialResume, NEW r \in RunIds, store[r] # NoRow, MayResume(r)
  PROVE  store[r].snap.msg \in Msgs /\ Phase(store[r].snap.msg) = "waiting"
<1> DEFINE m == store[r].snap.msg
<1>1. m \in Msgs /\ ~Live(m) /\ OwnRow(m) = store[r] BY ResumableRow
<1>2. RunIdOf[m] = r BY DEF HomeInv
<1>3. outcome[m] # "UNSENT" BY <1>1 DEF SerialInv, RestInv, RestOK
<1>4. outcome[m] = "AWAITING_APPROVAL" \/ RunIdOf[m] \in Pending BY <1>2 DEF MayResume
<1> HIDE DEF m
<1>5. Phase(m) = "waiting" BY <1>1, <1>3, <1>4 DEF Phase, Live
<1> QED BY <1>1, <1>5 DEF m

\* Starting a run, or resuming one that waits.
LEMMA StartsImplement ==
  ASSUME IInv, HomeInv, SerialInv, SerialResume, NEW w \in Workers,
         (\E m \in Msgs : Dispatch(w, m)) \/ (\E r \in RunIds : DispatchResume(w, r))
  PROVE  [Lifecycle!Next]_(Lifecycle!vars)
<1> DEFINE Starts(M, y) == /\ agent[w] = Idle /\ Set(w, y) /\ y # Idle /\ y.msg = M
                           /\ UNCHANGED <<store, outcome, history>>
                           /\ Phase(M) \in {"new", "waiting"}
<1>0. PICK M \in Msgs : \E y : Starts(M, y)
  <2>1. ASSUME NEW m \in Msgs, Dispatch(w, m)
        PROVE  \E y : Starts(m, y)
    <3> DEFINE x == [call |-> "dispatch", pc |-> "plan", msg |-> m, run |-> RunIdOf[m],
                     broker |-> broker, verdict |-> "none", plan |-> ImplicitPlan, idx |-> 1,
                     resumed |-> FALSE, outputs |-> {}, replans |-> 0,
                     state |-> "ASSEMBLING", pause |-> NoRow]
    <3>1. x \in Agent BY ConstantsTyped DEF Agent, KnownPlans, Verdict, States, IInv, TypeOK
    <3>2. x # Idle BY <3>1, SentinelsDistinct
    <3>3. ~Live(m) /\ outcome[m] = "UNSENT" BY <2>1 DEF Dispatch, Live
    <3>4. Phase(m) = "new" BY <3>3 DEF Phase, Live
    <3>5. agent[w] = Idle /\ Set(w, x) /\ x.msg = m /\ UNCHANGED <<store, outcome, history>>
      BY <2>1 DEF Dispatch
    <3> HIDE DEF x
    <3> QED BY <3>2, <3>4, <3>5
  <2>2. ASSUME NEW r \in RunIds, DispatchResume(w, r)
        PROVE  \E m \in Msgs : \E y : Starts(m, y)
    <3> DEFINE s == store[r].snap
               x == [call |-> "resume", pc |-> "resolve", msg |-> s.msg, run |-> r,
                     broker |-> broker, verdict |-> grants[s.action.name], plan |-> s.plan, idx |-> 1,
                     resumed |-> FALSE, outputs |-> s.outputs, replans |-> s.replans,
                     state |-> "AWAITING_APPROVAL", pause |-> s]
    <3>1. /\ agent[w] = Idle /\ store[r] # NoRow /\ MayResume(r) /\ Set(w, x)
          /\ UNCHANGED <<store, outcome, history>>
      BY <2>2 DEF DispatchResume
    <3>2. s \in Snapshot BY <3>1 DEF IInv, TypeOK, PausedRun
    <3>3. s.action.name \in Names BY <3>2 DEF Snapshot, Action
    <3>4. grants[s.action.name] \in Verdict /\ broker \in Brokers \cup {Off} BY <3>3 DEF IInv, TypeOK
    <3>5. x \in Agent BY <3>2, <3>4 DEF Snapshot, Agent, States
    <3>6. x # Idle /\ x.msg = s.msg BY <3>5, SentinelsDistinct
    <3>7. s.msg \in Msgs /\ Phase(s.msg) = "waiting" BY <3>1, WaitingRow
    <3> HIDE DEF x, s
    <3> QED BY <3>1, <3>6, <3>7
  <2> HIDE DEF Starts
  <2> QED BY <2>1, <2>2
<1>1. PICK x : Starts(M, x) BY <1>0
<1>2. agent'[w] = x BY <1>1 DEF IInv, TypeOK, Set
<1>3. Phase(M)' = "active" BY <1>1, <1>2 DEF Phase
<1>4. ASSUME NEW m \in Msgs, m # M PROVE Phase(m)' = Phase(m)
  <2>1. Live(m)' <=> Live(m) BY <1>1, <1>4, LiveElsewhere
  <2> QED BY <1>1, <2>1, PhaseKept
<1>5. UNCHANGED ran BY <1>1 DEF history
<1> QED BY <1>1, <1>3, <1>4, <1>5, AbstractMove

\* A NEop that does not load: the run is refused, given up, or left waiting.
LEMMA UnloadableImplements ==
  ASSUME IInv, HomeInv, SerialInv, SerialResume, OwnRunIds,
         (\E m \in Msgs : DispatchUnloadable(m)) \/ (\E r \in RunIds : ResumeUnloadable(r))
  PROVE  [Lifecycle!Next]_(Lifecycle!vars)
<1>1. UNCHANGED <<agent, store, history>> BY DEF DispatchUnloadable, ResumeUnloadable
<1>2. \A m : Live(m)' <=> Live(m) BY <1>1 DEF Live
<1>3. PICK M \in Msgs :
        /\ outcome' = [outcome EXCEPT ![M] = "REJECTED"] /\ ~Live(M)
        /\ Phase(M) = "waiting" \/ (Phase(M) = "new" /\ RunIdOf[M] \notin Pending)
  <2>1. ASSUME NEW m \in Msgs, DispatchUnloadable(m)
        PROVE  /\ outcome' = [outcome EXCEPT ![m] = "REJECTED"] /\ ~Live(m)
               /\ Phase(m) = "new" /\ RunIdOf[m] \notin Pending
    <3>1. ~Live(m) /\ outcome[m] = "UNSENT" BY <2>1 DEF DispatchUnloadable, Live
    <3>2. OwnRow(m) = NoRow BY <3>1 DEF SerialInv, RestInv, RestOK
    <3>3. RunIdOf[m] \in RunIds BY ConstantsTyped
    <3>4. ASSUME store[RunIdOf[m]] # NoRow PROVE FALSE
      <4>1. store[RunIdOf[m]].snap.msg \in Msgs BY <3>3, <3>4 DEF IInv, TypeOK, PausedRun, Snapshot
      <4>2. store[RunIdOf[m]].snap.msg = m BY <3>3, <3>4, <4>1 DEF HomeInv, OwnRunIds
      <4> QED BY <3>2, <3>4, <4>2 DEF OwnRow
    <3>5. RunIdOf[m] \notin Pending BY <3>4 DEF Pending
    <3>6. Phase(m) = "new" BY <3>1 DEF Phase, Live
    <3> QED BY <2>1, <3>1, <3>5, <3>6 DEF DispatchUnloadable
  <2>2. ASSUME NEW r \in RunIds, ResumeUnloadable(r)
        PROVE  \E m \in Msgs : /\ outcome' = [outcome EXCEPT ![m] = "REJECTED"] /\ ~Live(m)
                               /\ Phase(m) = "waiting"
    <3>1. store[r] # NoRow /\ MayResume(r) /\ outcome' = [outcome EXCEPT ![store[r].snap.msg] = "REJECTED"]
      BY <2>2 DEF ResumeUnloadable
    <3> QED BY <3>1, ResumableRow, WaitingRow
  <2> QED BY <2>1, <2>2
<1>4. outcome'[M] = "REJECTED" /\ \A m \in Msgs : m # M => outcome'[m] = outcome[m]
  BY <1>3 DEF IInv, TypeOK
<1>5. \A m \in Msgs : m # M => Phase(m)' = Phase(m) BY <1>1, <1>2, <1>4, PhaseKept
<1>6. (RunIdOf[M] \in Pending)' <=> RunIdOf[M] \in Pending BY <1>1 DEF Pending
<1>7. ~Live(M)' BY <1>2, <1>3
<1>8. Phase(M)' = IF RunIdOf[M] \in Pending THEN "waiting" ELSE "ended"
  BY <1>4, <1>6, <1>7 DEF Phase, Live
<1>9. UNCHANGED ran BY <1>1 DEF history
<1> QED BY <1>3, <1>5, <1>8, <1>9, AbstractMove

\* The steps inside a call other than a tool call change nothing the abstraction shows.
LEMMA InsideImplements ==
  ASSUME IInv, HomeInv, OwnRunIds, NEW w \in Workers,
         \/ Resume(w) \/ MakePlan(w) \/ Verify(w) \/ FinalizeMemory(w) \/ FinalizeTwin(w)
         \/ PlanGate(w) \/ TaskGate(w)
  PROVE  [Lifecycle!Next]_(Lifecycle!vars)
<1>1. UNCHANGED ran
  BY DEF Resume, MakePlan, Verify, FinalizeMemory, FinalizeTwin, PlanGate, TaskGate, history
<1>2. \A m \in Msgs : Phase(m)' = Phase(m)
  <2>1. CASE PlanGate(w) \/ TaskGate(w) BY <2>1, GatesMove, ActiveStep
  <2>2. CASE Resume(w) \/ MakePlan(w) \/ Verify(w) \/ FinalizeMemory(w) \/ FinalizeTwin(w)
    <3>1. agent[w] # Idle /\ UNCHANGED <<store, outcome>> /\ \E x : Set(w, x) /\ SameCall(x, agent[w])
      BY <2>2, QuietMoves
    <3> QED BY <3>1, ActiveStep
  <2> QED BY <2>1, <2>2
<1> QED BY <1>1, <1>2 DEF Lifecycle!vars

\* A tool call performs a task that was not performed before.
LEMMA InvokeImplements ==
  ASSUME IInv, HomeInv, SerialInv, NoFaults, OwnRunIds, CountCap > 0, NEW w \in Workers, Invoke(w)
  PROVE  [Lifecycle!Next]_(Lifecycle!vars)
<1> DEFINE a == agent[w]
           t == CurrentTask(a)
           key == <<a.replans, t.task_id>>
<1>1. a # Idle /\ a.pc = "invoke" BY DEF Invoke, At
<1>2. PICK M \in Msgs : a \in Agent /\ a.msg = M /\ CallOK(a, Book(M), OwnRow(M)) /\ Book(M) \in Books
  BY <1>1, CallStands
<1>3. /\ \A m \in Msgs : Phase(m)' = Phase(m)
      /\ Phase(M) = "active"
  <2>1. UNCHANGED <<store, outcome>> /\ \E x : Set(w, x) /\ SameCall(x, agent[w]) BY QuietMoves
  <2> QED BY <1>1, <1>2, <2>1, ActiveStep
<1>4. CASE UNCHANGED ran BY <1>3, <1>4 DEF Lifecycle!vars
<1>5. CASE ran' = [ran EXCEPT ![M][key] = Bump(@)]
  <2>1. a.idx \in 1..Len(a.plan.tasks) /\ a.plan \in KnownPlans /\ a.idx \in Nat
    BY <1>1, <1>2 DEF IInv, AgentsInv, AgentInv, Agent
  <2>2. Open(Book(M), a.replans, 1, a.plan, a.idx - 1) BY <1>1, <1>2 DEF CallOK, Stands
  <2>3. t \in Task /\ t.task_id \in TaskIds BY <2>1, PlanTyped DEF CurrentTask, Task
  <2>4. key \in RanKey /\ key[1] = a.replans /\ key[2] = t.task_id
    BY <1>2, <2>2, <2>3, ConstantsTyped DEF Open, Agent, RanKey
  <2>5. Ahead(key, a.replans, a.plan, a.idx - 1)
    <3>1. ASSUME NEW j \in 1..(a.idx - 1) PROVE a.plan.tasks[j].task_id # t.task_id
      <4>1. j \in 1..Len(a.plan.tasks) /\ j # a.idx BY <2>1, PlanTyped
      <4> QED BY <2>1, <4>1, PlansOrdered DEF CurrentTask
    <3> QED BY <2>4, <3>1 DEF Ahead
  <2> HIDE DEF key
  <2>6. ran \in [Msgs -> [RanKey -> Nat]] BY DEF IInv, TypeOK
  <2>7. ran[M][key] <= 0
    <3>1. Book(M).ran[key] <= Book(M).faults BY <2>2, <2>4, <2>5 DEF Open
    <3> QED BY <3>1 DEF Book, NoFaults
  <2>8. ran[M][key] \in Nat BY <2>4, <2>6
  <2>9. ran[M][key] = 0 BY <2>7, <2>8
  <2>10. Bump(0) = 1 BY DEF Bump
  <2>11. ran' = [ran EXCEPT ![M][key] = 1] BY <1>5, <2>4, <2>6, <2>9, <2>10
  <2>12. [m \in Msgs |-> Phase(m)]' = [m \in Msgs |-> Phase(m)] BY <1>3
  <2>13. [m \in Msgs |-> Phase(m)][M] = "active" BY <1>3
  <2>14. Lifecycle!Perform(M, key) BY <2>9, <2>11, <2>12, <2>13 DEF Lifecycle!Perform
  <2> QED BY <2>4, <2>14 DEF Lifecycle!Next
<1> QED BY <1>2, <1>4, <1>5 DEF Invoke

\* A call that returns leaves its run waiting or ended.
LEMMA ReturnImplements ==
  ASSUME IInv, HomeInv, SerialInv, OwnRunIds, NEW w \in Workers, Return(w)
  PROVE  [Lifecycle!Next]_(Lifecycle!vars)
<1> DEFINE a == agent[w]
<1>1. a # Idle /\ a \in Agent /\ Set(w, Idle) /\ UNCHANGED history BY DEF Return, At, IInv, TypeOK
<1>2. PICK M \in Msgs : M = a.msg /\ a.run = RunIdOf[M] BY <1>1 DEF Agent, HomeInv
<1>3. outcome'[M] = a.state /\ \A m \in Msgs : m # M => outcome'[m] = outcome[m]
  BY <1>2 DEF Return, IInv, TypeOK
<1>4. a.state # "UNSENT" BY <1>1 DEF Agent, States, TERMINAL
<1>5. ASSUME NEW m \in Msgs, m # M PROVE Phase(m)' = Phase(m)
  <2>1. Live(m)' <=> Live(m) BY <1>1, <1>2, <1>5, LiveElsewhere
  <2>2. RunIdOf[m] \in RunIds /\ RunIdOf[m] # a.run BY <1>2, <1>5, ConstantsTyped DEF OwnRunIds
  <2>3. store'[RunIdOf[m]] = store[RunIdOf[m]] BY <2>2, MarkKeeps
  <2> QED BY <1>3, <1>5, <2>1, <2>3, PhaseKept
<1>6. Phase(M) = "active" BY <1>1, <1>2 DEF Phase
<1>7. ~Live(M)'
  <2>1. \A v \in Workers : agent'[v] = IF v = w THEN Idle ELSE agent[v] BY <1>1 DEF IInv, TypeOK, Set
  <2> QED BY <1>1, <1>2, <2>1 DEF Live, SerialInv, OneCall
<1>8. Phase(M)' \in {"waiting", "ended"} BY <1>3, <1>4, <1>7 DEF Phase, Live
<1>9. UNCHANGED ran BY <1>1 DEF history
<1> QED BY <1>5, <1>6, <1>8, <1>9, AbstractMove

\* LifecycleHolds, but for its fairness: without faults, with a run_id per message and serial
\* callers, the engine is seen from outside as runs that start once, are worked on, may wait and
\* go on any number of times, end for good, and perform no task of a planning round twice.
THEOREM EngineImplements ==
  ASSUME SerialResume, MaxFaults = 0, CountCap > 0, OwnRunIds
  PROVE  Spec => Lifecycle!Init /\ [][Lifecycle!Next]_(Lifecycle!vars)
<1>1. Init => Lifecycle!Init
  <2> SUFFICES ASSUME Init PROVE Lifecycle!Init OBVIOUS
  <2>1. \A m \in Msgs : Phase(m) = "new" BY DEF Init, Phase
  <2> QED BY <2>1 DEF Init, Lifecycle!Init
<1>2. ASSUME IInv, HomeInv, SerialInv, NoFaults, NoFaults', [Next]_vars
      PROVE  [Lifecycle!Next]_(Lifecycle!vars)
  <2>1. ASSUME UNCHANGED <<agent, store, outcome, ran>> PROVE [Lifecycle!Next]_(Lifecycle!vars)
    <3>1. \A m : Live(m)' <=> Live(m) BY <2>1 DEF Live
    <3>2. \A m \in Msgs : Phase(m)' = Phase(m) BY <2>1, <3>1, PhaseKept
    <3> QED BY <2>1, <3>2 DEF Lifecycle!vars
  <2>2. CASE UNCHANGED vars BY <2>1, <2>2 DEF vars, history
  <2>3. ASSUME NEW b \in Brokers \cup {Off}, Redeploy(b) PROVE [Lifecycle!Next]_(Lifecycle!vars)
    BY <2>1, <2>3 DEF Redeploy, history
  <2>4. ASSUME NEW n \in Names, NEW v \in {"allow", "deny"}, Answer(n, v)
        PROVE  [Lifecycle!Next]_(Lifecycle!vars)
    BY <2>1, <2>4 DEF Answer
  <2>5. ASSUME NEW w \in Workers, WorkerStep(w) PROVE [Lifecycle!Next]_(Lifecycle!vars)
    BY <1>2, <2>5, InsideImplements, InvokeImplements, ReturnImplements DEF WorkerStep
  <2>6. ASSUME NEW w \in Workers, ReturnUnmarked(w) \/ Crash(w) PROVE FALSE
    <3>1. agent[w].msg \in Msgs /\ faults' = [faults EXCEPT ![agent[w].msg] = @ + 1]
      BY <1>2, <2>6 DEF ReturnUnmarked, Crash, At, IInv, TypeOK, Agent
    <3>2. faults'[agent[w].msg] = 1 BY <1>2, <3>1 DEF IInv, TypeOK, NoFaults
    <3> QED BY <1>2, <3>1, <3>2 DEF NoFaults
  <2>7. CASE \E w \in Workers, m \in Msgs : Dispatch(w, m) BY <1>2, <2>7, StartsImplement
  <2>8. CASE \E w \in Workers, r \in RunIds : DispatchResume(w, r) BY <1>2, <2>8, StartsImplement
  <2>9. CASE (\E m \in Msgs : DispatchUnloadable(m)) \/ (\E r \in RunIds : ResumeUnloadable(r))
    BY <1>2, <2>9, UnloadableImplements
  <2> QED BY <1>2, <2>2, <2>3, <2>4, <2>5, <2>6, <2>7, <2>8, <2>9 DEF Next
<1> QED BY <1>1, <1>2, Invariance, WaitAlways, SerialAlways, FaultFree, PTL DEF Spec
=============================================================================
