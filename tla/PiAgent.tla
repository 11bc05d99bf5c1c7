------------------------------- MODULE PiAgent -------------------------------
(***************************************************************************)
(* The NEop run engine: PiAgent, dispatch and dispatch_resume of           *)
(* runtime/core.py, together with the approval gate they consult           *)
(* (runtime/approval_gate.py) and the paused-run store it saves into.      *)
(*                                                                         *)
(* A worker is one call of dispatch or dispatch_resume.  Calls run         *)
(* concurrently (the front door is served by a threading HTTP server) and  *)
(* share the paused-run store, the human verdicts and the governance       *)
(* configuration; everything else lives in the PiAgent object of the call. *)
(* A step of a worker is one interaction with something outside the        *)
(* object: a model call, a gate with its save, a tool call, a memory or    *)
(* twin write, the return.                                                 *)
(*                                                                         *)
(* A plan is what _topo_order leaves of the model's answer: a plan_id and  *)
(* the tasks in execution order.                                           *)
(***************************************************************************)
EXTENDS ApprovalPolicy, Naturals, Sequences, FiniteSets

CONSTANTS
  Workers,       \* concurrent calls of dispatch / dispatch_resume
  Msgs,          \* inbound messages; each starts one run
  RunIds,        \* keys of the paused-run store
  RunIdOf,       \* [Msgs -> RunIds]: msg["run_id"], or tenant:seat:neop when absent
  Family,        \* [Msgs -> role families]: role_family of the NEop the message is for
  Writes,        \* [Msgs -> SUBSET {"memory", "twin"}]: the NEop's memory.write / twin.write
  Plans,         \* the plans the planner model may answer with
  ImplicitPlan,  \* the one-task plan of a NEop without a PLAN phase
  TaskIds,       \* task_id values
  Names,         \* names of gated actions: tools and plan ids share one name space
  NoTool,        \* a task without a tool
  Allowlist,     \* tools.json of the NEop: what ToolBroker runs
  MaxReplans,    \* limits.max_replans
  Brokers,       \* the approval configurations an operator may deploy
  Off,           \* governance off: approval is None
  Idle,          \* no call in progress on this worker
  NoRow,         \* no row in the paused-run store
  SerialResume,  \* TRUE: callers resume only runs known to wait, one call at a time
  MaxFaults,     \* bound: crashes and store failures per message
  CountCap       \* bound: the counting history variables stop here

Task == [task_id : TaskIds, tool : Names \cup {NoTool}, scope : SCOPES,
         depends_on : SUBSET TaskIds]
Plan == [plan_id : Names, tasks : Seq(Task)]
KnownPlans == Plans \cup {ImplicitPlan}

ASSUME ConstantsTyped ==
  /\ RunIdOf \in [Msgs -> RunIds]
  /\ Family \in [Msgs -> {"meta", "sales", "research", "executor", "reactive"}]
  /\ Writes \in [Msgs -> SUBSET {"memory", "twin"}]
  /\ Plans \subseteq Plan
  /\ ImplicitPlan \in Plan
  /\ Allowlist \subseteq Names
  /\ NoTool \notin Names
  /\ MaxReplans \in Nat
  /\ MaxFaults \in Nat
  /\ CountCap \in Nat
  /\ Off \notin Brokers
  /\ SerialResume \in BOOLEAN

\* What _topo_order guarantees of a plan: ids are distinct and a task comes after
\* the tasks of the plan it depends on (module TopoOrder checks this of the algorithm).
ASSUME PlansOrdered ==
  \A p \in KnownPlans :
    \A i, j \in 1..Len(p.tasks) :
      /\ p.tasks[i].task_id = p.tasks[j].task_id => i = j
      /\ p.tasks[j].task_id \in p.tasks[i].depends_on => j < i

VARIABLES
  agent,      \* [Workers -> Agent \cup {Idle}]: the PiAgent object of each call
  store,      \* [RunIds -> PausedRun \cup {NoRow}]: the paused_runs rows
  grants,     \* [Names -> Verdict]: the recorded human verdicts
  broker,     \* the deployed approval configuration, or Off
  outcome,    \* [Msgs -> Outcomes]: what the latest call that ended reported
  \* history, read by no action
  approved,   \* names a human has ever allowed
  performed,  \* tool calls made: [action, broker] pairs
  ran,        \* [Msgs -> [replan round \X task -> how often its tool ran]]
  planCalls,  \* [Msgs -> number of planner calls]
  records,    \* [Msgs -> states its run records in memory report]
  twinPuts,   \* [Msgs -> accepted twin writes]
  faults      \* [Msgs -> crashes and store failures its calls met]

history == <<approved, performed, ran, planCalls, records, twinPuts, faults>>
vars == <<agent, store, grants, broker, outcome, history>>

(***************************************************************************)
(* Phases and states (core.py).                                            *)
(***************************************************************************)
PHASE_SETS(f) ==
  CASE f = "executor" -> {"execute"}
    [] f = "reactive" -> {"execute", "verify"}
    [] OTHER          -> {"plan", "execute", "verify"}

Phases(m) == PHASE_SETS(Family[m])

TERMINAL == {"DONE", "FAILED", "ESCALATED", "REJECTED"}
States == TERMINAL \cup {"LOADING", "ASSEMBLING", "PLANNING", "EXECUTING",
                         "AWAITING_APPROVAL", "VERIFYING", "REPLANNING"}

Outcomes == States \cup {"UNSENT", "RAISED"}   \* before dispatch; dispatch raised

Action == [scope : SCOPES, name : Names]
Verdict == {"none", "allow", "deny"}   \* "none": no entry in grants

\* to_state: the resumable snapshot.  bundle and twin are carried but read by no
\* decision of the run, and are left out.
Snapshot == [msg : Msgs, pause_scope : {"plan", "action"}, action : Action,
             paused_task_id : TaskIds \cup {NoTool}, plan : KnownPlans,
             outputs : SUBSET TaskIds, replans : Nat]
PausedRun == [snap : Snapshot, status : {"pending", "resolved", "denied"}]

\* One PiAgent object.  pc is where its call stands; idx the task of the plan it is at;
\* resumed says that task is the one the grant was for (core.py skips its gate).
Agent == [call : {"dispatch", "resume"},
          pc : {"resolve", "plan", "plan_gate", "task", "invoke", "verify",
                "memory", "twin", "return"},
          msg : Msgs, run : RunIds, broker : Brokers \cup {Off}, verdict : Verdict,
          plan : KnownPlans, idx : Nat, resumed : BOOLEAN, outputs : SUBSET TaskIds,
          replans : Nat, state : States, pause : Snapshot \cup {NoRow}]

ASSUME SentinelsDistinct == Idle \notin Agent /\ NoRow \notin PausedRun \cup Snapshot

RanKey == (0..MaxReplans) \X TaskIds

Init ==
  /\ agent = [w \in Workers |-> Idle]
  /\ store = [r \in RunIds |-> NoRow]
  /\ grants = [n \in Names |-> "none"]
  /\ broker \in Brokers \cup {Off}
  /\ outcome = [m \in Msgs |-> "UNSENT"]
  /\ approved = {}
  /\ performed = {}
  /\ ran = [m \in Msgs |-> [k \in RanKey |-> 0]]
  /\ planCalls = [m \in Msgs |-> 0]
  /\ records = [m \in Msgs |-> {}]
  /\ twinPuts = [m \in Msgs |-> 0]
  /\ faults = [m \in Msgs |-> 0]

Bump(n) == IF n < CountCap THEN n + 1 ELSE n

At(w, label) == agent[w] # Idle /\ agent[w].pc = label
Set(w, a) == agent' = [agent EXCEPT ![w] = a]
Busy(r) == \E w \in Workers : agent[w] # Idle /\ agent[w].run = r

(***************************************************************************)
(* Transitions of one PiAgent object.                                      *)
(***************************************************************************)
CurrentTask(a) == a.plan.tasks[a.idx]
ActionForTask(t) == [scope |-> t.scope, name |-> t.tool]
PlanAction(p) == [scope |-> "plan", name |-> p.plan_id]

Stop(a, s) == [a EXCEPT !.state = s, !.pc = "return"]     \* no _finalize
Finalize(a, s) == [a EXCEPT !.state = s, !.pc = "memory"] \* _finalize, then return

\* The head of _execute_and_maybe_verify on a fresh plan: outputs are reset, task 1 is next.
BeginPlan(a) ==
  IF a.plan.tasks = <<>> THEN Finalize([a EXCEPT !.outputs = {}], "DONE")
  ELSE [a EXCEPT !.outputs = {}, !.idx = 1, !.resumed = FALSE,
                 !.state = "EXECUTING", !.pc = "task"]

\* The next iteration of the task loop, or its end: DONE.
Advance(a) ==
  IF a.idx < Len(a.plan.tasks)
  THEN [a EXCEPT !.idx = @ + 1, !.resumed = FALSE, !.state = "EXECUTING", !.pc = "task"]
  ELSE Finalize(a, "DONE")

AfterTool(a) ==
  IF "verify" \in Phases(a.msg) THEN [a EXCEPT !.state = "VERIFYING", !.pc = "verify"]
  ELSE Advance(a)

\* Mutants: the snapshot loses the replan count; it loses the outputs.
ToStateNoReplans(a, scope, act, tid) ==
  [msg |-> a.msg, pause_scope |-> scope, action |-> act, paused_task_id |-> tid,
   plan |-> a.plan, outputs |-> a.outputs, replans |-> 0]
ToStateNoOutputs(a, scope, act, tid) ==
  [msg |-> a.msg, pause_scope |-> scope, action |-> act, paused_task_id |-> tid,
   plan |-> a.plan, outputs |-> {}, replans |-> a.replans]

ToState(a, scope, act, tid) ==
  [msg |-> a.msg, pause_scope |-> scope, action |-> act, paused_task_id |-> tid,
   plan |-> a.plan, outputs |-> a.outputs, replans |-> a.replans]

\* Mutant: a paused call goes through _finalize as well.
GateFinalizing(w, act, scope, tid, onward) ==
  LET a == agent[w]
      d == Decide(a.broker, act)
  IN  \/ /\ d = "allow"
         /\ Set(w, onward)
         /\ UNCHANGED store
      \/ /\ d = "deny"
         /\ Set(w, Stop(a, "REJECTED"))
         /\ UNCHANGED store
      \/ /\ d = "await"
         /\ store' = [store EXCEPT ![a.run] =
                        [snap |-> ToState(a, scope, act, tid), status |-> "pending"]]
         /\ Set(w, Finalize(a, "AWAITING_APPROVAL"))

\* _gate: allow goes on, deny rejects without a pause, await saves the snapshot (a row
\* of the same run_id is overwritten, as pending) and stops the call.
Gate(w, act, scope, tid, onward) ==
  LET a == agent[w]
      d == Decide(a.broker, act)
  IN  \/ /\ d = "allow"
         /\ Set(w, onward)
         /\ UNCHANGED store
      \/ /\ d = "deny"
         /\ Set(w, Stop(a, "REJECTED"))
         /\ UNCHANGED store
      \/ /\ d = "await"
         /\ store' = [store EXCEPT ![a.run] =
                        [snap |-> ToState(a, scope, act, tid), status |-> "pending"]]
         /\ Set(w, Stop(a, "AWAITING_APPROVAL"))

(***************************************************************************)
(* Calls.                                                                  *)
(***************************************************************************)
\* dispatch: load_neop succeeded, the PiAgent is built with the deployed broker and
\* run() assembles its context.
Dispatch(w, m) ==
  /\ agent[w] = Idle
  /\ outcome[m] = "UNSENT"
  /\ \A v \in Workers : agent[v] # Idle => agent[v].msg # m
  /\ Set(w, [call |-> "dispatch", pc |-> "plan", msg |-> m, run |-> RunIdOf[m],
             broker |-> broker, verdict |-> "none", plan |-> ImplicitPlan, idx |-> 1,
             resumed |-> FALSE, outputs |-> {}, replans |-> 0,
             state |-> "ASSEMBLING", pause |-> NoRow])
  /\ UNCHANGED <<store, grants, broker, outcome, history>>

\* dispatch: load_neop reports an error and nothing runs.
DispatchUnloadable(m) ==
  /\ outcome[m] = "UNSENT"
  /\ \A v \in Workers : agent[v] # Idle => agent[v].msg # m
  /\ outcome' = [outcome EXCEPT ![m] = "REJECTED"]
  /\ UNCHANGED <<agent, store, grants, broker, history>>

Pending == {r \in RunIds : store[r] # NoRow /\ store[r].status = "pending"}

\* Who calls dispatch_resume is outside src/.  A serial caller resumes a run that the
\* queue lists or that was reported as waiting, and not while a call is working on it.
MayResume(r) ==
  SerialResume => /\ ~Busy(r)
                  /\ r \in Pending \/ outcome[store[r].snap.msg] = "AWAITING_APPROVAL"

\* dispatch_resume: the row is loaded whatever its status, and the PiAgent restored.
\* The broker in hand holds the verdicts recorded so far; resume looks up one of them.
DispatchResume(w, r) ==
  /\ agent[w] = Idle
  /\ broker # Off
  /\ store[r] # NoRow
  /\ MayResume(r)
  /\ LET s == store[r].snap
     IN  Set(w, [call |-> "resume", pc |-> "resolve", msg |-> s.msg, run |-> r,
                 broker |-> broker, verdict |-> grants[s.action.name], plan |-> s.plan, idx |-> 1,
                 resumed |-> FALSE, outputs |-> s.outputs, replans |-> s.replans,
                 state |-> "AWAITING_APPROVAL", pause |-> s])
  /\ UNCHANGED <<store, grants, broker, outcome, history>>

\* dispatch_resume: load_neop reports an error; the caller reads REJECTED, the row stays.
ResumeUnloadable(r) ==
  /\ store[r] # NoRow
  /\ MayResume(r)
  /\ outcome' = [outcome EXCEPT ![store[r].snap.msg] = "REJECTED"]
  /\ UNCHANGED <<agent, store, grants, broker, history>>

\* Mutant: an action pause re-enters the loop at the first task.
ResumeAtFirstTask(w) ==
  /\ At(w, "resolve")
  /\ LET a == agent[w]
         d == Resolve(a.broker, a.verdict, a.pause.action)
     IN  \/ /\ d = "deny"
            /\ Set(w, Stop(a, "REJECTED"))
         \/ /\ d = "allow"
            /\ a.pause.pause_scope = "plan"
            /\ Set(w, BeginPlan(a))
         \/ /\ d = "allow"
            /\ a.pause.pause_scope = "action"
            /\ Set(w, [a EXCEPT !.idx = 1, !.resumed = TRUE,
                                !.state = "EXECUTING", !.pc = "task"])
  /\ UNCHANGED <<store, grants, broker, outcome, history>>

\* resume: a denial rejects; a grant re-enters the loop, at the paused task with the
\* restored outputs, or at the top of the approved plan.
Resume(w) ==
  /\ At(w, "resolve")
  /\ LET a == agent[w]
         d == Resolve(a.broker, a.verdict, a.pause.action)
     IN  \/ /\ d = "deny"
            /\ Set(w, Stop(a, "REJECTED"))
         \/ /\ d = "allow"
            /\ a.pause.pause_scope = "plan"
            /\ Set(w, BeginPlan(a))
         \/ /\ d = "allow"
            /\ a.pause.pause_scope = "action"
            /\ \E i \in 1..Len(a.plan.tasks) :
                 /\ a.plan.tasks[i].task_id = a.pause.paused_task_id
                 /\ Set(w, [a EXCEPT !.idx = i, !.resumed = TRUE,
                                     !.state = "EXECUTING", !.pc = "task"])
  /\ UNCHANGED <<store, grants, broker, outcome, history>>

(***************************************************************************)
(* The plan / execute / verify loop.                                       *)
(***************************************************************************)
\* _plan (a model call) or _implicit_plan; without a broker the plan gate is skipped.
MakePlan(w) ==
  /\ At(w, "plan")
  /\ LET a == agent[w]
         planned(p) == [a EXCEPT !.plan = p, !.state = "PLANNING", !.pc = "plan_gate"]
         next(p) == IF a.broker = Off THEN BeginPlan(planned(p)) ELSE planned(p)
     IN  IF "plan" \in Phases(a.msg)
         THEN /\ \E p \in Plans : Set(w, next(p))
              /\ planCalls' = [planCalls EXCEPT ![a.msg] = Bump(@)]
         ELSE /\ Set(w, next(ImplicitPlan))
              /\ UNCHANGED planCalls
  /\ UNCHANGED <<store, grants, broker, outcome, approved, performed, ran, records,
                 twinPuts, faults>>

PlanGate(w) ==
  /\ At(w, "plan_gate")
  /\ LET a == agent[w]
     IN  Gate(w, PlanAction(a.plan), "plan", NoTool, BeginPlan(a))
  /\ UNCHANGED <<grants, broker, outcome, history>>

\* The top of the task loop: a task without a tool goes straight to verification; the
\* task just resumed was approved by the grant and is not gated again.
TaskGate(w) ==
  /\ At(w, "task")
  /\ LET a == agent[w]
         t == CurrentTask(a)
         invoking == [a EXCEPT !.pc = "invoke"]
     IN  IF t.tool = NoTool
         THEN Set(w, AfterTool(a)) /\ UNCHANGED store
         ELSE IF a.broker = Off \/ a.resumed
         THEN Set(w, invoking) /\ UNCHANGED store
         ELSE Gate(w, ActionForTask(t), "action", t.task_id, invoking)
  /\ UNCHANGED <<grants, broker, outcome, history>>

\* ToolBroker.invoke: a tool off the allowlist is blocked and fails the run; another
\* runs, and its output is kept under the task.
Invoke(w) ==
  /\ At(w, "invoke")
  /\ LET a == agent[w]
         t == CurrentTask(a)
     IN  IF t.tool \in Allowlist
         THEN /\ Set(w, AfterTool([a EXCEPT !.outputs = @ \cup {t.task_id}]))
              /\ performed' = performed \cup
                   {[action |-> ActionForTask(t), broker |-> a.broker]}
              /\ ran' = [ran EXCEPT ![a.msg][<<a.replans, t.task_id>>] = Bump(@)]
         ELSE /\ Set(w, Finalize(a, "FAILED"))
              /\ UNCHANGED <<performed, ran>>
  /\ UNCHANGED <<store, grants, broker, outcome, approved, planCalls, records, twinPuts,
                 faults>>

\* Mutant: a failed verification replans without counting.
VerifyUncounted(w) ==
  /\ At(w, "verify")
  /\ LET a == agent[w]
     IN  \/ Set(w, Advance(a))
         \/ /\ "plan" \notin Phases(a.msg)
            /\ Set(w, Finalize(a, "FAILED"))
         \/ /\ "plan" \in Phases(a.msg)
            /\ Set(w, [a EXCEPT !.state = "REPLANNING", !.pc = "plan"])
  /\ UNCHANGED <<store, grants, broker, outcome, history>>

\* The verifier model passes the task or not; a failed task replans within the budget,
\* and only for a NEop that plans.
Verify(w) ==
  /\ At(w, "verify")
  /\ LET a == agent[w]
     IN  \/ Set(w, Advance(a))
         \/ /\ "plan" \notin Phases(a.msg)
            /\ Set(w, Finalize(a, "FAILED"))
         \/ /\ "plan" \in Phases(a.msg)
            /\ LET again == [a EXCEPT !.replans = @ + 1]
               IN  IF again.replans > MaxReplans
                   THEN Set(w, Finalize(again, "ESCALATED"))
                   ELSE Set(w, [again EXCEPT !.state = "REPLANNING", !.pc = "plan"])
  /\ UNCHANGED <<store, grants, broker, outcome, history>>

(***************************************************************************)
(* _finalize and return.                                                   *)
(***************************************************************************)
\* The run record; MemoryBroker.write keys it by its content, so a second identical
\* record is a no-op.  The shadow event that follows is local to the call.
FinalizeMemory(w) ==
  /\ At(w, "memory")
  /\ LET a == agent[w]
     IN  /\ Set(w, [a EXCEPT !.pc = "twin"])
         /\ IF "memory" \in Writes[a.msg]
            THEN records' = [records EXCEPT ![a.msg] = @ \cup {a.state}]
            ELSE UNCHANGED records
  /\ UNCHANGED <<store, grants, broker, outcome, approved, performed, ran, planCalls,
                 twinPuts, faults>>

\* put_twin accepts or rejects the draft; a rejected twin fails the run.
FinalizeTwin(w) ==
  /\ At(w, "twin")
  /\ LET a == agent[w]
     IN  \/ /\ "twin" \notin Writes[a.msg]
            /\ Set(w, Stop(a, a.state))
            /\ UNCHANGED twinPuts
         \/ /\ "twin" \in Writes[a.msg]
            /\ Set(w, Stop(a, a.state))
            /\ twinPuts' = [twinPuts EXCEPT ![a.msg] = Bump(@)]
         \/ /\ "twin" \in Writes[a.msg]
            /\ Set(w, Stop(a, "FAILED"))
            /\ UNCHANGED twinPuts
  /\ UNCHANGED <<store, grants, broker, outcome, approved, performed, ran, planCalls,
                 records, faults>>

\* Mutants: the row is given the run's state as its status; the row is deleted; the row is
\* left as it was.
MarkRaw(r, s) == store' = [store EXCEPT ![r].status = s]
MarkDeleting(r, s) == store' = [store EXCEPT ![r] = NoRow]
MarkNothing(r, s) == UNCHANGED store

\* ApprovalBroker.mark_resolved on the row the call was about.
MarkResolved(r, s) ==
  store' = [store EXCEPT ![r].status = IF s = "REJECTED" THEN "denied" ELSE "resolved"]

\* The call returns its state; dispatch_resume first marks the row, whatever the state.
Return(w) ==
  /\ At(w, "return")
  /\ outcome' = [outcome EXCEPT ![agent[w].msg] = agent[w].state]
  /\ IF agent[w].call = "resume" THEN MarkResolved(agent[w].run, agent[w].state)
     ELSE UNCHANGED store
  /\ Set(w, Idle)
  /\ UNCHANGED <<grants, broker, history>>

\* mark_resolved raises; dispatch_resume swallows it and returns all the same.
ReturnUnmarked(w) ==
  /\ At(w, "return")
  /\ agent[w].call = "resume"
  /\ faults[agent[w].msg] < MaxFaults
  /\ outcome' = [outcome EXCEPT ![agent[w].msg] = agent[w].state]
  /\ faults' = [faults EXCEPT ![agent[w].msg] = @ + 1]
  /\ Set(w, Idle)
  /\ UNCHANGED <<store, grants, broker, approved, performed, ran, planCalls, records,
                 twinPuts>>

\* The process dies, or a model, tool, memory or store call raises: nothing is undone.
Crash(w) ==
  /\ agent[w] # Idle
  /\ faults[agent[w].msg] < MaxFaults
  /\ faults' = [faults EXCEPT ![agent[w].msg] = @ + 1]
  /\ outcome' = [outcome EXCEPT ![agent[w].msg] =
                   IF @ = "UNSENT" THEN "RAISED" ELSE @]
  /\ Set(w, Idle)
  /\ UNCHANGED <<store, grants, broker, approved, performed, ran, planCalls, records,
                 twinPuts>>

(***************************************************************************)
(* The environment: a human answers a listed pause; an operator redeploys. *)
(***************************************************************************)
Answer(n, v) ==
  /\ \E r \in Pending : store[r].snap.action.name = n
  /\ grants' = [grants EXCEPT ![n] = v]
  /\ approved' = IF v = "allow" THEN approved \cup {n} ELSE approved
  /\ UNCHANGED <<agent, store, broker, outcome, performed, ran, planCalls, records,
                 twinPuts, faults>>

Redeploy(b) ==
  /\ broker' = b
  /\ UNCHANGED <<agent, store, grants, outcome, history>>

WorkerStep(w) ==
  \/ Resume(w) \/ MakePlan(w) \/ PlanGate(w) \/ TaskGate(w) \/ Invoke(w) \/ Verify(w)
  \/ FinalizeMemory(w) \/ FinalizeTwin(w) \/ Return(w)

Next ==
  \/ \E w \in Workers, m \in Msgs : Dispatch(w, m)
  \/ \E m \in Msgs : DispatchUnloadable(m)
  \/ \E w \in Workers, r \in RunIds : DispatchResume(w, r)
  \/ \E r \in RunIds : ResumeUnloadable(r)
  \/ \E w \in Workers : WorkerStep(w)
  \/ \E w \in Workers : ReturnUnmarked(w) \/ Crash(w)
  \/ \E n \in Names, v \in {"allow", "deny"} : Answer(n, v)
  \/ \E b \in Brokers \cup {Off} : Redeploy(b)

\* A call that has started is run to its return by its thread; people owe us nothing.
Fairness == \A w \in Workers : WF_vars(WorkerStep(w))

Spec == Init /\ [][Next]_vars /\ Fairness

-----------------------------------------------------------------------------
(***************************************************************************)
(* Properties.                                                             *)
(***************************************************************************)
\* Every variable stays in its domain.
TypeOK ==
  /\ agent \in [Workers -> Agent \cup {Idle}]
  /\ store \in [RunIds -> PausedRun \cup {NoRow}]
  /\ grants \in [Names -> Verdict]
  /\ broker \in Brokers \cup {Off}
  /\ outcome \in [Msgs -> Outcomes]
  /\ approved \subseteq Names
  /\ performed \subseteq [action : Action, broker : Brokers \cup {Off}]
  /\ ran \in [Msgs -> [RanKey -> Nat]]
  /\ planCalls \in [Msgs -> Nat]
  /\ records \in [Msgs -> SUBSET States]
  /\ twinPuts \in [Msgs -> Nat]
  /\ faults \in [Msgs -> Nat]

Enforced(b) == b # Off /\ b.mode = "enforce"

\* GW-5 (approval.py decide / resolve_grant): while governance is enforced, a tool on the
\* denylist of the call's policy is never run: not by a grant given before the entry was
\* deployed, not by a run paused under the older policy, not on the resumed task whose
\* gate is skipped.
HardDenyAbsolute == \A c \in performed : Enforced(c.broker) => ~IsHardDenied(c.broker, c.action)

\* "Consent precedes the mutation" (core.py, the action gate): an enforced tool call was
\* allowed by the policy of its call, or its name was allowed by a human before it ran.
ConsentPrecedesMutation ==
  \A c \in performed : Enforced(c.broker) =>
    \/ PolicyDecide(c.broker, c.action) = "allow"
    \/ c.action.name \in approved

\* Pausing and resuming repeats no side effect: within one planning round a task's tool
\* runs once, and once more for each crash or failed store update the run has met.
ToolRunsOncePerRound ==
  \A m \in Msgs, k \in RanKey : ran[m][k] <= 1 + faults[m]

\* The replan budget is one budget for the whole run: pauses carry it along (to_state,
\* _restore), so the planner is asked at most 1 + max_replans times, and afresh only
\* after a fault.
ReplanBudget ==
  \A m \in Msgs : planCalls[m] <= (1 + MaxReplans) * (1 + faults[m])

\* A task reads its upstream outputs (core.py: scope[dep] = outputs.get(dep)): at the call
\* of its tool each task of the plan it depends on, if it has a tool, has left an output,
\* in this call or in the snapshot the call resumed from.
UpstreamOutputsPresent ==
  \A w \in Workers : At(w, "invoke") =>
    LET a == agent[w]
    IN  \A j \in 1..Len(a.plan.tasks) :
          /\ a.plan.tasks[j].task_id \in CurrentTask(a).depends_on
          /\ a.plan.tasks[j].tool # NoTool
          => a.plan.tasks[j].task_id \in a.outputs

\* A run reported as AWAITING_APPROVAL can be resumed from the store, whoever resumed, denied
\* or marked what in between: its snapshot is there, or else that of another run which was
\* sent under the same run_id, the only thing that can take its place.
PauseIsDurable ==
  \A m \in Msgs :
    LET r == RunIdOf[m]
    IN  outcome[m] = "AWAITING_APPROVAL" /\ ~Busy(r) =>
          /\ store[r] # NoRow
          /\ LET o == store[r].snap.msg
             IN  o = m \/ (RunIdOf[o] = r /\ outcome[o] # "UNSENT")

\* A run reported as AWAITING_APPROVAL is in the Decision Queue (pending()).
QueueListsEveryPause ==
  \A m \in Msgs :
    outcome[m] = "AWAITING_APPROVAL" /\ ~Busy(RunIdOf[m]) => RunIdOf[m] \in Pending

\* Post-terminal side effects belong to runs that ended (run and resume return before
\* _finalize when paused or rejected): without faults, a run reported as waiting or
\* rejected has left no run record and no twin write.
PausedRunsLeaveNoTrace ==
  \A m \in Msgs :
    /\ outcome[m] \in {"AWAITING_APPROVAL", "REJECTED"}
    /\ ~Busy(RunIdOf[m])
    /\ faults[m] = 0
    => records[m] = {} /\ twinPuts[m] = 0

\* A run writes its user's twin once, and once more per fault.
TwinWrittenOnce == \A m \in Msgs : twinPuts[m] <= 1 + faults[m]

\* The abstraction of RunLifecycle: a run waits when it was reported as waiting or its row
\* is in the queue.
Phase(m) ==
  IF \E w \in Workers : agent[w] # Idle /\ agent[w].msg = m THEN "active"
  ELSE IF outcome[m] = "UNSENT" THEN "new"
  ELSE IF outcome[m] = "AWAITING_APPROVAL" \/ RunIdOf[m] \in Pending THEN "waiting"
  ELSE "ended"

Lifecycle == INSTANCE RunLifecycle
  WITH Runs <- Msgs, Tasks <- RanKey, phase <- [m \in Msgs |-> Phase(m)], done <- ran

\* With serial callers, a run_id per run and no faults, the engine implements RunLifecycle:
\* ended runs stay ended, nothing is performed twice across pauses, work comes to a stop.
LifecycleHolds == Lifecycle!Spec

\* Every call returns: the replan loop and the task loop end.
EveryCallReturns == \A w \in Workers : agent[w] # Idle ~> agent[w] = Idle
=============================================================================
