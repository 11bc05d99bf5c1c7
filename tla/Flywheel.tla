------------------------------ MODULE Flywheel ------------------------------
(***************************************************************************)
(* The automation flywheel: recurring, reliable work shapes are surfaced   *)
(* from the run log and, once a human approved one, a scaffold spec is     *)
(* emitted for it (runtime/flywheel.py and the driver of                   *)
(* flywheel_harness.py).  The pass is the Vault's without a rollback.      *)
(***************************************************************************)
EXTENDS RunEvents, FiniteSets

CONSTANTS
  Shapes,          \* signatures: seat and ordered tools of a run
  SeatOf,          \* [Shapes -> seats]
  InitialCatalog,  \* seats that exist at the start
  MaxRuns,         \* bound: runs per shape in the log
  MaxFlyFaults     \* bound: failed calls and passes that die

Seats == {SeatOf[s] : s \in Shapes}
ASSUME FlywheelConstants ==
  DOMAIN SeatOf = Shapes /\ InitialCatalog \subseteq Seats /\ {MaxRuns, MaxFlyFaults} \subseteq Nat

VARIABLES
  runlog,     \* [Shapes -> [n : runs seen, ok : those that ended DONE]]
  catalog,    \* seats already present
  decision,   \* [Shapes -> the Decision Queue's word on the shape]
  surfaced,   \* do-not-re-surface markers
  fly,        \* the pass
  scaffolds,  \* [Shapes -> specs emitted]
  \* history
  approvedShapes, flyFaults

flyVars == <<runlog, catalog, decision, surfaced, fly, scaffolds, approvedShapes, flyFaults>>

FlyIdle == [pc |-> "idle", seen |-> [s \in Shapes |-> [n |-> 0, ok |-> 0]], todo |-> {},
            verdict |-> [s \in Shapes |-> "none"], at |-> {}]

FlywheelInit ==
  /\ runlog = FlyIdle.seen /\ catalog = InitialCatalog
  /\ decision = [s \in Shapes |-> "none"] /\ surfaced = {} /\ fly = FlyIdle
  /\ scaffolds = [s \in Shapes |-> 0] /\ approvedShapes = {} /\ flyFaults = 0

MIN_OCCURRENCES == 3

\* Mutant: a coin-flip is enough.
SurfaceHalf(seen, existing) ==
  {s \in Shapes : seen[s].n >= 2 /\ 2 * seen[s].ok >= seen[s].n /\ SeatOf[s] \notin existing}

\* FW-1..FW-3.  A rate of 0.6 after rounding to three places: exact for logs of less than
\* 400 runs of a shape.
Surface(seen, existing) ==
  {s \in Shapes : /\ seen[s].n >= MIN_OCCURRENCES
                  /\ 10 * seen[s].ok >= 6 * seen[s].n
                  /\ SeatOf[s] \notin existing}

\* Mutant: the marker is not looked at.
TriageAgain(s, already, approval) ==
  IF approval = "reject" THEN "reject" ELSE IF approval = "approve" THEN "materialize" ELSE "hold"

\* FW-4 and FW-5.
Triage(s, already, approval) ==
  IF already \/ approval = "reject" THEN "reject"
  ELSE IF approval = "approve" THEN "materialize" ELSE "hold"

FlyFault(out) == /\ Raises(out) => flyFaults < MaxFlyFaults
                 /\ flyFaults' = IF Raises(out) THEN flyFaults + 1 ELSE flyFaults

\* A run of the shape ends (observe).
ObserveRun(s, done) ==
  /\ runlog[s].n < MaxRuns
  /\ runlog' = [runlog EXCEPT ![s] = [n |-> @.n + 1, ok |-> IF done THEN @.ok + 1 ELSE @.ok]]
  /\ UNCHANGED <<catalog, decision, surfaced, fly, scaffolds, approvedShapes, flyFaults>>

\* A human decides, again and differently if he likes; a seat is added by hand.
DecideShape(s, v) ==
  /\ decision' = [decision EXCEPT ![s] = v]
  /\ approvedShapes' = IF v = "approve" THEN approvedShapes \cup {s} ELSE approvedShapes
  /\ UNCHANGED <<runlog, catalog, surfaced, fly, scaffolds, flyFaults>>

AddSeat(seat) ==
  /\ catalog' = catalog \cup {seat}
  /\ UNCHANGED <<runlog, decision, surfaced, fly, scaffolds, approvedShapes, flyFaults>>

\* tick: the run log is read first, the catalog and the approvals after it.
TickFlywheel ==
  /\ fly.pc = "idle"
  /\ fly' = [FlyIdle EXCEPT !.pc = "surface", !.seen = runlog]
  /\ UNCHANGED <<runlog, catalog, decision, surfaced, scaffolds, approvedShapes, flyFaults>>

SurfaceShapes ==
  /\ fly.pc = "surface"
  /\ fly' = [fly EXCEPT !.pc = "triage", !.todo = Surface(fly.seen, catalog), !.verdict = decision]
  /\ UNCHANGED <<runlog, catalog, decision, surfaced, scaffolds, approvedShapes, flyFaults>>

\* The candidates come in the order of their signatures; the model takes any order.
TriageShape(s) ==
  /\ fly.pc = "triage" /\ s \in fly.todo
  /\ fly' = IF Triage(s, s \in surfaced, fly.verdict[s]) = "materialize"
            THEN [fly EXCEPT !.pc = "mark", !.at = {s}] ELSE [fly EXCEPT !.todo = @ \ {s}]
  /\ UNCHANGED <<runlog, catalog, decision, surfaced, scaffolds, approvedShapes, flyFaults>>

MarkShape(s, out) ==
  /\ fly.pc = "mark" /\ s \in fly.at
  /\ FlyFault(out)
  /\ surfaced' = IF Performed(out) THEN surfaced \cup {s} ELSE surfaced
  /\ fly' = IF Raises(out) THEN FlyIdle ELSE [fly EXCEPT !.pc = "emit"]
  /\ UNCHANGED <<runlog, catalog, decision, scaffolds, approvedShapes>>

EmitSpec(s, out) ==
  /\ fly.pc = "emit" /\ s \in fly.at
  /\ FlyFault(out)
  /\ scaffolds' = IF Performed(out) THEN [scaffolds EXCEPT ![s] = @ + 1] ELSE scaffolds
  /\ fly' = [fly EXCEPT !.pc = "triage", !.todo = @ \ {s}, !.at = {}]
  /\ UNCHANGED <<runlog, catalog, decision, surfaced, approvedShapes>>

EndFlywheel ==
  /\ fly.pc = "triage" /\ fly.todo = {}
  /\ fly' = FlyIdle
  /\ UNCHANGED <<runlog, catalog, decision, surfaced, scaffolds, approvedShapes, flyFaults>>

FlywheelDies ==
  /\ fly.pc # "idle" /\ FlyFault("refused")
  /\ fly' = FlyIdle
  /\ UNCHANGED <<runlog, catalog, decision, surfaced, scaffolds, approvedShapes>>

FlywheelNext ==
  \/ \E s \in Shapes : \/ \E done \in BOOLEAN : ObserveRun(s, done)
                       \/ \E v \in {"approve", "reject"} : DecideShape(s, v)
                       \/ TriageShape(s)
                       \/ \E out \in PostOutcomes : MarkShape(s, out) \/ EmitSpec(s, out)
  \/ \E seat \in Seats : AddSeat(seat)
  \/ TickFlywheel \/ SurfaceShapes \/ EndFlywheel \/ FlywheelDies

FlywheelSpec == FlywheelInit /\ [][FlywheelNext]_flyVars

-----------------------------------------------------------------------------
(* Properties. *)

\* A shape is emitted at most once, ever: whatever fails, and whatever the humans change
\* their minds to, between the look at the marker, the mark and the emit.
Emission == INSTANCE AtMostOnce WITH
  Items <- Shapes, marked <- surfaced, emitted <- scaffolds,
  claims <- [s \in Shapes |-> IF fly.pc = "emit" /\ s \in fly.at THEN 1 ELSE 0]
FlywheelDelivers == Emission!Spec

\* No scaffold is built on thin evidence or without a human: at least three runs, at
\* least two of them good, and an approval, although log, catalog and verdicts are read
\* at different moments.
ShapesEarned ==
  \A s \in surfaced : runlog[s].n >= 3 /\ runlog[s].ok >= 2 /\ s \in approvedShapes
==============================================================================
