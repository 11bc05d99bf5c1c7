# NEURAL-ops: specification and verification

TLA+ models of the parts of NEURAL-ops in which order, concurrency and failure matter, checked
with TLC on small instances; every safety property of the runs that pass is proved with TLAPS
for all instances. All source paths below are relative to the repository.

    tlc -config Channel.cfg MCChannel      model-check one run
    tlapm ChannelProofs.tla                check one module of proofs

`PROJECT.json` lists the components, the runs, which lines of the source every definition stands
for, the mutants that show each property can fail, the hazards and the theorems.

## 1. The system and its parts

A tenant's people talk to *NEops* (agents, each with a *seat*) over a Matrix room or the front
door. A message becomes a *run*: the engine plans, executes tools, verifies, and may stop at a
gate until a human decides in the *Decision Queue*. What runs leave behind (memory records, twin
updates, shadow signals) is curated by batch passes.

| part | state it keeps | operations | talks to |
| --- | --- | --- | --- |
| run engine, `runtime/core.py` | the PiAgent object of a call: state, plan, outputs, replans | dispatch, run, resume, _drive, _finalize, dispatch_resume | model, tool and memory brokers; the gate |
| approval gate, `runtime/approval_gate.py`, `acp/approval*.py`, `runtime/governance.py` | paused_runs rows, grants, the deployed policy | decide, resolve, save, load, mark_resolved, pending | the engine, the Decision Queue |
| plan ordering, `_topo_order` | local | one call | the engine |
| Matrix bridge, `nc_channels/` | `_seen_txns` | process_transaction, do_PUT, forward_verdict, _seat_forward, reply_send | homeserver, seat wrappers |
| ACP: `acp/envelope, router, chain, hierarchy, edge_auth` | audit list, org chart | route, run_chain, delegate, verify | the engine (dispatch) |
| front door, `frontdoor/` | rate windows, concurrency counts | handle, route, authenticate | the engine |
| memory and twin, `runtime/memory.py`, MemoryBroker | records, the twin and its version | retrieve, write, get_twin, put_twin | the palace (HTTP) |
| vault, flywheel, curator, fidelity, `runtime/` | markers, run events, twins, maturity | tick, promote, rollback, surface, triage, curate, save | memory, Decision Queue |
| seat adapter, `neop_jcode_adapter/` | seat status, restart counts, audit trail | start, stop, note_crash, call, pre-tool decision, promote | jcode process, the palace |
| web client, `nc-web/` | React state | timeline, proposals, verdicts | homeserver |
| I/O, tooling: `runtime/aws, bedrock, secrets, selfcheck`, `nrt/`, `tools/`, `infra/` | none | | cloud services |

What makes them hard, and correct:

* **Run engine and gate.** Calls run concurrently and share the paused-run store, the verdicts and
  the policy; a run may pause any number of times, die between two steps, be resumed twice or
  under another policy. Correct: nothing forbidden runs, consent precedes every mutation, pausing
  repeats no side effect and loses no budget or output, a pause can be resumed and is in the queue.
* **Plan ordering.** Plans come from a model and may be circular, dangling or repeated. Correct:
  dependencies first, an error exactly when there is a cycle, and always an end.
* **Matrix bridge.** At-least-once delivery, one thread per request, calls that fail or whose
  answers are lost, restarts. Correct: what is acknowledged has arrived, messages are answered,
  repetitions do nothing, verdicts keep their order, the queue drains.
* **Vault and flywheel.** A nightly pass reads candidates, then verdicts, then marks and emits one
  record after another with remote calls that may fail or whose answers get lost, while humans
  decide again and rollbacks clear markers. Correct: nothing lands that was not cleared, nothing
  lands twice for one clearance, the first rejection holds, what is approved does not wait for ever.
* **Twin and fidelity loop.** Runs and the loop write the same row without a version check at the
  store; an exception at one seat ends the pass. Correct: versions count changes, signals survive a
  new draft, a person with events gets a growing twin.
* **ACP and org chart.** Folders and registry change between the hops; a reply is signed after its
  run. Correct: a chain reports what happened, no NEop runs twice in it, it ends; a circular chart
  is refused, and work is delegated to the nearest holder.
* **Front door.** Clocks in any order, an overloaded classifier, folders that come and go. Correct:
  the rate limit holds, every message is answered, a folder that is there loses to no later candidate.
* **Seat adapter.** Tool list and hook are written apart and the hook fails open; the status is set
  before a spawn that may raise; a call may be performed and not answered. Correct: what is granted
  and what is performed agree, and what the audit missed is bounded by what an operator can count.

## 2. The modules

| module | what it is | source |
| --- | --- | --- |
| `ApprovalPolicy` | the policy and the broker's decisions, as operators | `acp/approval.py`, `approval_gate.py` |
| `PiAgent` | the run engine with its gate and store | `runtime/core.py` |
| `RunLifecycle` | abstract: what a run promises its owner | |
| `TopoOrder` | `_topo_order`, step by step | `runtime/core.py` |
| `Channel` | the bridge, its request threads and the homeserver | `nc_channels/service.py` |
| `RunEvents` | the palace as its clients see it: lost answers, the bounded run-event log | `runtime/memory.py` |
| `Vault` | gates, nightly pass, rollback, the Decision Queue panel and the way of a verdict | `vault*.py`, `fidelity_ingest.py`, `DecisionQueue.tsx` |
| `Flywheel` | surfacing, triage and the pass that emits scaffolds | `flywheel*.py` |
| `AtMostOnce` | abstract: what a pass promises of its emissions | |
| `Fidelity` | the twin and its two writers; grading, judging, curation | `shadow.py`, `judge.py`, `curator.py`, `fidelity_*.py`, `core.py` (put_twin) |
| `FrontDoor` | admission, routing with the live classifier, folder resolution, the run | `frontdoor/` |
| `Acp` | registry, envelope, router, chain | `acp/` |
| `Hierarchy` | the org chart: validation, escalation, delegation | `acp/hierarchy.py` |
| `SeatPolicy` | tiers, disabled tools, the hook, what can be assembled, as operators | `safety_policy.py`, `config_render.py`, `pre_tool_hook.py`, `isolation.py` |
| `Seat` | launch, supervision, tool calls, shim and audit, memory promotion | `seat_adapter.py`, `supervisor.py`, `palace_mcp_shim.py`, `audit_tap.py`, `memory_promoter.py` |
| `MC...` | small instances; `MCNightly` and `MCIngress` hold parts that share no state | |
| `...Proofs` | theorems | |

### PiAgent (with ApprovalPolicy)

A *worker* is one call of dispatch or dispatch_resume. `agent[w]` is its PiAgent object; `pc` says
which interaction with the outside comes next, and one action is the code from one interaction to
the next: `MakePlan` (planner call), `PlanGate` and `TaskGate` (a decision with its save),
`Invoke` (a tool), `Verify` (the verifier), `FinalizeMemory`, `FinalizeTwin`, `Return` (with
mark_resolved for a resume). `store`, `grants` and `broker` are shared. `DispatchResume` loads the
row and restores the object; `Resume` is the decision on the recorded verdict.

* The plan is abstract: a plan id and its tasks in execution order. That this order exists is what
  `TopoOrder` shows; it is the assumption `PlansOrdered` here.
* What models answer is left open (any plan of `Plans`, pass or fail at every verification).
* An exception of a broker and a death of the process look the same to the rest of the system: the
  call is gone, nothing is undone. Both are `Crash`. `ReturnUnmarked` is the swallowed exception of
  mark_resolved.
* `Redeploy` exchanges the policy between any two steps. The rows and verdicts survive it, as with
  the store of the integration mode; a call keeps the broker it was built with.
* `MayResume` is the one assumption about callers, which are not in `src/`. With `SerialResume`
  a caller resumes only what waits, one call at a time; without it, anything at any time. The
  theorems say which of them need it (section 5).
* `performed`, `ran`, `planCalls`, `records`, `twinPuts`, `approved`, `faults` are history; no
  action reads them, except that `faults` bounds the faults.
* Left out: retrieval and prompts at assemble, the event log, the contents of outputs, 
  memory records; the twin's versions are the subject of `Fidelity`.

### RunLifecycle

new, active, waiting, ended; a run waits any number of times, ends once, performs each task of a
planning round once. `PiAgent!LifecycleHolds` is the refinement, under the mapping `Phase`: a run
waits when it was reported as waiting or its row is in the queue.

### TopoOrder

The recursion of `visit` is an explicit stack; a step is one test or call. `by_id` keeps the last
of two tasks with one id, as the dict comprehension does. Inputs are all lists of `Plans`.

### Channel

The homeserver sends transaction `acked + 1` until it gets a 200, and may stop waiting
(`Timeout`) while the thread works on. A thread goes through `Check`, the scan (`ForwardVerdict`,
`ScanEvent`), `MarkSeen`, then for each message `SeatForward`, `SendReply`, `SendFallback`, and
`Respond`. Every call out may fail before or after it took effect. A verdict that cannot be posted
kills the thread without an answer (`Die`), because process_transaction is called outside the try
of do_PUT. `Crash` is a restart: `_seen_txns` is in memory. `persisted`, `turns`, `replies`,
`excused`, `dropped` are what the seat and the room have seen. Left out: the check of the
homeserver's token and the 403, 404 and 400 answers, and the echo mode (`reflect=True`), which
differs only in not calling the seat. The Matrix event formats are the classification `Kind`.

### RunEvents, Vault, AtMostOnce

Every call of the palace client is "done", "refused" (raised, nothing happened) or "lost"
(performed, and raised because the answer timed out). The run-event store keeps the newest rows of
a seat whatever their kind, and is read newest first.

`Vault` follows one verdict from the click to the fold: `ClickVerdict`, `Sent`, `Reload` (what was
decided is component state), `RecordVerdict` (the bridge repeats a failed call; a proposal without
a seat is no verdict), then a pass: `TickVault` reads the candidates, `ReadApprovals` folds the
verdicts, and for each record `GateRecord`, `MarkRecord`, `EmitRecord`; `EndPass` hands the receipts
back, and `Rollback` uses one. `PassDies` is an exception of a read or the end of the process.
Redaction is by kinds of match, confidence in tenths. `landings`, `spoken`, `refused`, `forgone`,
`trimmed` are history. Assumed: passes do not overlap (the scheduler starts one at a time; two that
overlap both see no marker and both emit); who writes candidates is outside the repository.

`AtMostOnce` is the promise: a claim by a durable marker is good for one emission, and an item is
claimed again only after its marker was cleared. `Vault!VaultDelivers` and
`Flywheel!FlywheelDelivers` are the refinements.

### Flywheel

`TickFlywheel` reads the run log, `SurfaceShapes` the catalog and the verdicts, then `TriageShape`,
`MarkShape`, `EmitSpec` per shape. The rate of the code is rounded to three places; the comparison
with 0.6 is the exact one for logs of less than 400 runs of a shape. Proposed names and scaffold
texts are left out.

### Fidelity

`Interview`, `ReadPrev`, `WriteTwin` are a run that writes the twin of its requester: put_twin
reads the row, checks the base version and the draft, and writes blindly; a draft may bring signals
of its own, and gets those of the row when it brings none (`core.py:287`). `StartPass`, `LoadTwin`,
`GradeSeat`, `SaveTwin`, `WriteScore` are the loop. Text similarity is what it is compared with
(`jac`, in thousandths); the judge's answer is a number, in range or not, or nothing. `Recent` keeps
the tail of a list that arrives newest first, as the code does. `Serial` is the assumption of
MEMPALACE_TWIN_CONTRACT.md that a twin has one writer at a time.

### FrontDoor, Acp, Hierarchy

Messages are handled one after another, as handle does; a message is `Receive` (authentication,
normalisation, identity, rate limit), the classifier with its retries (`Classified`, `Overloaded`,
`ClassifierFails`), one `TestFolder` per candidate of the loader, `Start`, `RunReturns`.
`ChangeFolder` happens in between any two. The loader joins a root, the tenant and the name as it was
written (a mention is not checked) to a path; the constant `Place` says where that leads, and nothing
is assumed of it: two names may lead to one folder, and a place need not lie in its root
(`loader.py:9-20`, `orchestrator.py:28-33`). The windows of the limiter are counted by the minute of
the message's own clock. A payload is what the code reads of it; the offline classifier is a function
of words and left out.

`Acp` has one router after another (`StartRouter` reads the registry) and chains: `StartChain`,
`RouteHop` (envelope, audit entry, refusal or dispatch), `Inform` (the reply is signed by the
target), `RunRaises`, `EndChain`; `Deploy` changes folders. A signature verifies when signer and
sender are one and have a key.

`Hierarchy` walks every chart of the given seats as the validation does, and states delegation and
escalation against a reference relation.

### SeatPolicy, Seat

A seat specification is what the adapter's checks read of it; a machine (`Boxes`) is what the
launcher finds there and what the jail's environment holds: the hook reads the seat's class and
scope from variables that the adapter says must be set and that `launch()` does not set
(`box.policy`). `Assemble`, `Launch`, `Spawned`, `Crash` (with note_crash and the keeper that
restarts while it may), `Stop`, `EndSession` and `Promote`; `UseTool` is a tool of jcode's own,
`UsePalace` a call of the shim, which ends the shim when it raises (`LivesOn`); jcode may start it
again (`RestartShim`). jcode, Docker and the palace are external: a hook that does not answer lets
the tool through. Assumed: one assembly, jcode reads its configuration at the spawn, the keeper
outside the repository restarts only when note_crash allows it.

## 3. The runs

Runs that pass:

| run | instance | shows |
| --- | --- | --- |
| `PiAgentSerial` | 1 worker, 1 message, 3 tasks with dependencies, 2 policies, 1 replan, 1 fault | side effects, budget, outputs and termination across pauses |
| `PiAgentShared` | 2 workers, 2 messages on one run_id, 3 policies, callers without discipline | the gate is never passed without consent; a waiting run has its snapshot, unless the other message paused over it |
| `PiAgentRefines` | as PiAgentSerial, no faults | the engine implements RunLifecycle, liveness included |
| `TopoOrder` | every list of at most 3 tasks over 3 ids with at most 2 dependencies each | order, real cycles, termination |
| `Channel` | 2 transactions, the first with 2 verdicts, 2 threads, 1 timeout, 2 faults, 1 restart | delivery, answers, order, idempotence, progress |
| `Nightly` | 1 key with 2 records, 2 clicks, 1 rollback, 1 fault, a store of 3 rows; 1 shape, 5 runs, 2 faults | both passes implement AtMostOnce; what lands was cleared, a rejection holds, approved work settles, shapes are earned |
| `Fidelity` | 2 persons, 3 events, 3 drafts (one with signals of its own), 1 interview each, 1 fault, one writer at a time | versions count changes, a draft without signals carries those in the table when it lands, twins grow |
| `Ingress` | 3 messages of 6 kinds at 3 clocks; chains of up to 4 hops over 4 agents, one without a key; every chart of 3 seats; 10 seat specifications, 2 machines, 1 launch, 1 restart, 2 calls, 2 memories | rate limit, folder precedence, honest chains, org chart, all of them end; tool list and hook agree on the grants, the audit gap is bounded |

Runs that find a violation, each of a statement the repository makes (section 6):
`PiAgentQueue`, `ChannelRace`, `TwinRegress`, `SeatAudit`.

Bounds. `MaxFaults`, `MaxFlyFaults`, `MaxTimeouts`, `MaxCrashes` limit what the environment may do;
each hazard needs one of its kind (two for a reply and its error note, and for a mark and an emit
that both fail), and the safety properties allow for the number of faults explicitly, so a second
adds another instance of the same thing. `CountCap` stops counters above any value a property
compares with. Three tasks are the fewest with a chain and a diamond; three tasks over three ids
cover repeated, dangling, self and circular dependencies. Two threads are the fewest with a
repetition beside the first request. In `Nightly` two records of one key are the fewest with a
repeated candidate, two clicks the fewest with a change of mind, a store of three rows lets a
verdict be trimmed; keys do not interact. In `Fidelity` three events are what a seed needs, and
bob, visited first, is the seat whose failure ends the pass for ann. In `Ingress` the limit is 1 a
minute and `MAX_HOPS` is 2, so both are reached; the clocks are two of one minute and one of the
next; three seats are the fewest with a circle beside a chain. Its seat part shares no state with the
others and is a case of `part`; one restart is the smallest budget that runs out, and two calls the
fewest that could both be hidden by one shim. Where a theorem exists the bounds do not matter for
safety.

`PiAgentShared` has no faults, which would multiply its states; the theorems
about its three properties allow any number.

Symmetry is used in `PiAgentShared` alone (workers; safety only). Deadlock checking is off only
where a system really stops: `TopoOrder` returns, the bridge has an empty queue, a chart has been
validated, and the messages, chains, launches and calls of `Ingress` and `SeatAudit` are used up.

## 4. Fairness

* `PiAgent`: a call that has started is run on by its thread (`WF` of each worker's steps). Nobody
  has to dispatch, answer or resume. Model and tool calls return or raise: the brokers have
  timeouts, and raising is `Crash`, which ends the call.
* `TopoOrder`: one thread runs the function.
* `Channel`: threads are scheduled (`WF` per thread; every call out has a timeout of 15 or 30
  seconds), and the homeserver keeps sending what is not acknowledged (`WF` of `SendTxn`), which is
  what an application service transaction queue does. Faults are bounded, so they end.
* `Vault`, `Fidelity`: the scheduler starts a pass every night and a pass that was started goes on
  (the palace client has timeouts). Nobody has to decide, propose, interview or roll back.
* `MCIngress`: a message, a chain, a validation that was begun goes on; the classifier and the
  dispatch return or raise. Only one of the three moves in a behaviour, so they share a condition.
* `Seat`, `Flywheel`: none; only safety is stated.

## 5. What is proved

Every invariant, action property and refinement of the passing runs is a theorem, up to liveness
and the fairness of `LifecycleHolds`. Few of them are inductive. Each proof module defines the
inductive invariant that carries them, shows that the initial states have it and that each action
keeps it (one lemma per action or group of actions), and draws the theorems from it. The
assumptions are the `ASSUME`s of the modules (types of the constants, sentinels that are no
values), which TLC evaluates on the runs, and what a theorem names itself.

* **PiAgentProofs**, any number of workers, any plans, policies and redeployments.
  * Any callers, any run_ids: `TypeCorrect`, `HardDenyNeverRuns`, `ConsentFirst`, `PausesDurable`. Who
    waits has a row under its run_id, and a row that is not its own is of a message that was sent
    under the same one (`WaitInv`): so the loss of a pause takes a shared run_id, and nothing else. A
    resumed task skips its gate, and its consent was given for the action of a snapshot, looked up by
    name. The invariant (`IInv`) follows that action: from the task that paused into the stored
    snapshot (`SnapInv`), to the verdict (`GrantsInv`), to the task the resumed call stands at
    (`AgentInv`). The step that finds the task again rests on task ids being distinct in a plan
    (`PlansOrdered`, which is what TopoOrderProofs shows). `OutputsAtHand`: the outputs of the tasks
    before the one at hand are in the object, and a pause and its resume hand them on (`OutputsInv`).
  * Serial callers (`SerialResume`), shared run_ids included: `ToolsRunOnce`, `BudgetIsPerRun`,
    `TwinsWrittenOnce`, `NoTraceOfPaused`. The invariant keeps books per message (`SerialInv`): while
    a call works, the planner calls, tool runs and twin writes in the world are those its object
    accounts for; while the run waits, those its snapshot does, and a resume opens the books where
    the snapshot closed them. A crash or an update of the store that fails is one entry of `faults`.
  * Both, and no faults: `EngineImplements`, every step of the engine is a step of `RunLifecycle` or
    leaves its phases and tallies alone, under the mapping of `LifecycleHolds`. Its assumptions
    (`SerialResume`, `OwnRunIds`, `MaxFaults = 0`, `CountCap > 0`) are those of `PiAgentRefines`:
    RunLifecycle promises each task once, and a run that died and is started again breaks that.
* **TopoOrderProofs** (`TypeCorrect`, `AlwaysSorted`, `NoFalseCycle`), any list of tasks. The invariant
  says what an open visit knows: the dependencies before the one it is at are done or outside the
  plan (`StackInv`), and the frame above it visits the one it is at (`PathInv`). The first gives the
  order; the second makes the frames from a task met again to the top of the stack a cycle.
* **ChannelProofs** (`TypeCorrect`, `NoVerdictLost`, `NoMessageSkipped`, `OrderKept`,
  `RepeatsHarmless`), any queue and any number of threads, timeouts, faults and restarts. The argument
  goes through `_seen_txns`: an id gets there when every verdict of its transaction is with the seat
  (`ThreadInv`, `SeenInv`), only a thread whose id is there answers 200, and of its messages each is
  answered or still carried by a thread (`AnswerInv`). Within a transaction the scan keeps the order
  of verdicts (`InTxnOrder`), across them the acknowledgement does. Turns are counted together with
  those on their way: each turn a message had or may still get is the first, or is paid for by a
  repetition before the first request was done with its scan, or by a restart (`GatheredInv`,
  `TurnsInv`).
* **RunEventsProofs** (`RowsSelected`): what a read of the log returns, for logs of any length. The
  function is recursive over the log; the induction is by a least counterexample (`UpTo`), since the
  induction theorems of the library take an operator as parameter.
* **NightlyProofs**, any records, shapes, verdicts, store sizes and faults. `VaultTypeCorrect`,
  `OnlyClearedLands`, `RejectionsStand`, `NoRecordForgotten`: an approval in the store was spoken, and
  until the store drops a row the oldest verdict it has on a key is the first that was spoken
  (`LogInv`); what a pass has read still holds when it acts on it (`PassInv`). `EveryShapeEarned`:
  the run log only grows past what the pass has read, what is to be looked at was surfaced from it,
  and the shape in hand is approved and unmarked before the mark, marked before the emit.
  `VaultImplements`, `FlywheelImplements`: a mark is a claim and an emit the use of one; `AtMostOnce`
  has no fairness, so these are the whole refinements. Assumed, as in the model: passes do not
  overlap.
* **FidelityProofs** (`TwinsTypeCorrect`, `VersionsAlwaysCount`, `SignalsAlwaysSurvive`,
  `VersionsNeverFall`), any owners, drafts, events and judges. All assume `Serial`, one writer of a
  twin at a time, which MEMPALACE_TWIN_CONTRACT.md relies on and no code enforces: `TwinRegress`
  refutes the last one without it. The invariant (`FidInv`) says that what a writer holds was made
  from the row that is still in the table (`DraftFresh`, `LoadFresh`); curation enters by what it
  counts (`CurateCounts`).
* **IngressProofs**. `RateAlwaysKept`: the messages let through are among those counted (`LimitInv`).
  `StandingFolderAlwaysWins`, wherever joined paths lead and whatever folders do during a search: each
  candidate passed over was missing at a moment of this search (`SearchInv`). `ChainsAlwaysHonest`:
  before hop n exactly n NEops have run, and they are the visited ones, so the cycle test of the
  router keeps them distinct (`LoopInv`). `OrgChartAlwaysHolds`, for any finite set of seats: a walk
  of the validation that ends at the top numbers its seats by their distance to it, and one that meets
  a seat again is a circle (`OrgInv`); on a numbered chart the recursive functions of escalation and
  delegation reach exactly the seats above and below.
* **SeatProofs** (`GrantsAlwaysHold`, `AuditGapAlwaysBounded`), any specifications, machines and
  budgets. The first is a fact about the policy operators once what runs is known to have been
  assembled (`SeatInv`); the second carries itself from step to step: a call leaves no record only
  where its shim ends or its promotion reports a failure, and a shim that is started again was counted
  as ended.

Only model-checked: liveness (`EveryCallReturns`, `Terminates`, `QueueDrains`, `ApprovedSettles`,
`TwinsGrow`, `EverythingEnds`) and the fairness of `RunLifecycle` in `LifecycleHolds`. Both need
ENABLED of the actions, which the prover does not handle. The four runs that find a violation have
nothing to prove.

## 6. Where the code and its documents disagree

Shown by a run:

1. `QueueListsEveryPause` (`core.py:645`): a resumed run that pauses again is marked resolved; it
   waits for a human, and the queue does not list it.
2. `NeverReprocessed` (`service.py:113`): the test and the addition of a transaction id are apart.
   The forwarded request carries an idempotency key; the seat wrapper that may use it is not part
   of this repository.
3. `VersionNeverFalls` (`fidelity_runner.py:76`): the loop saves what it loaded before a run wrote
   another twin, and the version, promised to be monotonic, falls.

4. `AuditCoversEveryCall` (`palace_mcp_shim.py:281`): a call whose answer is lost raises before the
   audit tap is asked. The palace has performed it; no record says so and no drop is counted, where
   `audit_tap.py:24` and `event_bridge.py:7` promise every palace operation. `AuditGapBounded` says how
   far it can go: one call for each shim that ended or promotion that failed.

Met while modelling, and visible in the models, without a run of their own:

* two messages to one seat share the default run_id (`core.py:340`), which no dispatch in the
  repository replaces, and the second pause overwrites the first. `PauseIsDurable` is stated and proved
  with the run_ids shared: the snapshot under a waiting run's id is its own or that of such a message;
* the snapshot of a run that has ended is still handed out (`approval_gate.py:36`): a verdict applied
  again, or twice at once, runs the rest of the run again. Counts per run (`ToolsRunOnce`,
  `TwinsWrittenOnce`, `EngineImplements`) hold for serial callers, which do not; what holds for all
  callers is consent and the deny list;
* `_topo_order` says "stable" and is not among independent tasks (`core.py:541`);
* a verdict that its seat refuses is never acknowledged and blocks the queue behind it
  (`service.py:123`); `QueueDrains` holds in `Channel`, where none is refused;
* the limit on concurrent runs of a tenant is never reached: nobody calls enter (`gateway.py:86`);
* the name of a NEop is joined into a path unchecked, so the folder it leads to need not lie in the
  tenant's root, and two spellings of one folder are two seats (`loader.py:9-20`);
* a folder moved from one root to an earlier one during a search is not found (`loader.py:15`), and one
  that is gone when the run starts is answered as a rejected run, not as an error;
* `launch()` does not set the variables the hook reads: where the operator did not either, the hook
  refuses every governed tool, those the tool list grants included (`pre_tool_hook.py:85`);
* a rolled-back record stays in durable memory, and can be stored a second time
  (`vault_harness.py:101`); `VaultDelivers` allows one emission per clearance.

## 7. Not modelled

Cloud clients, secrets, the spec linter, self-check, Terraform, tools and fixtures keep no state of
their own. The offline classifier, redaction patterns, prompt assembly and wire formats are
functions of strings; the models keep what is decided on them. Cryptography (envelope and edge
signatures) is taken as given; `acp/edge_auth.py` is called by nothing else in the repository. Rank
fusion (`runtime/rrf.py`) is a sort of numbers, and audit emission a write. Of the web client only
the Decision Queue is modelled; the rest shows what the homeserver has.

## 8. Plan

Built so far, in order: the engine with its gate, plan ordering, the bridge; then the nightly
passes, the twin, the front door with delegation, and the seat; then the proofs of all their safety
properties. Left:

1. The refinement of `RunLifecycle` with faults: an abstract run that may die and be started again,
   with the tallies that `ToolsRunOnce` and `BudgetIsPerRun` allow.
2. A composition of bridge and engine (a message to its answer).
