------------------------------ MODULE Fidelity ------------------------------
(***************************************************************************)
(* The twin of a person and its two writers: runs, which write a draft     *)
(* through MemoryBroker.put_twin (runtime/core.py), and the nightly        *)
(* fidelity loop, which grades the run events of each seat (shadow.py,     *)
(* judge.py), curates the twin (curator.py) and writes it back             *)
(* (fidelity_harness.py, fidelity_runner.py).  The palace checks no        *)
(* version: palace_put_twin is a blind upsert (runtime/memory.py).         *)
(***************************************************************************)
EXTENDS RunEvents, Integers, FiniteSets

CONSTANTS
  Owners,      \* tenant:person keys of the twins table
  SeatList,    \* FIDELITY_SEATS: the owners a pass visits, in order
  Drafts,      \* what the interviewing model may produce
  EventPool,   \* [Owners -> events that may be recorded]
  Answers,     \* what the judge model may answer, in thousandths, or NoAnswer
  Sustained,   \* FIDELITY_SUSTAINED_DAYS the scheduler may supply
  Window,      \* --window; 0: all
  LogCap,      \* rows of run_events per owner
  Serial,      \* TRUE: one writer of a twin at a time, as MEMPALACE_TWIN_CONTRACT.md assumes
  MaxEvents, MaxPuts, MaxFaults   \* bounds

NoAnswer == -1   \* no judge, a model error, or nothing to parse
NoRate == -1     \* None: nothing scored
MATURITY_STATES == {"seed", "growing", "mature", "drifted"}

Event == [kind : {"shadow_prediction", "human_verdict", "memory_candidate"},
          match : {"missing", "exact", "words"}, jac : 0..1000, agreed : BOOLEAN]
Signals == [rate : NoRate..1000, n : Nat]
NoSignals == [rate |-> NoRate, n |-> 0]
\* signals count only when the draft brings some.
Draft == [text : Nat \ {0}, maturity : MATURITY_STATES \cup {"absent", "bogus"},
          complete : BOOLEAN, based : BOOLEAN, brings : BOOLEAN, signals : Signals]
\* text is which draft the body is; 0: none, the loop made the twin from SEED.
Twin == [version : Nat, maturity : MATURITY_STATES, signals : Signals, text : Nat]
NoTwin == [version |-> -1]
SEED == [version |-> 0, maturity |-> "seed", signals |-> NoSignals, text |-> 0]

ASSUME FidelityConstants ==
  /\ SeatList \in Seq(Owners) /\ Drafts \subseteq Draft /\ EventPool \in [Owners -> SUBSET Event]
  /\ Answers \subseteq Int /\ Sustained \subseteq Nat /\ Serial \in BOOLEAN
  /\ {Window, MaxEvents, MaxPuts, MaxFaults} \subseteq Nat /\ LogCap \in Nat \ {0}

VARIABLES
  row,      \* [Owners -> Twin or NoTwin]: the twins table
  events,   \* [Owners -> run_events, newest first]
  writer,   \* the run that writes a twin
  loop,     \* the fidelity pass
  scores,   \* [Owners -> the latest record in the score sink]
  \* history
  puts,     \* [Owners -> twins written by runs]
  bumps,    \* [Owners -> twins written by the loop with a new maturity]
  born,     \* [Owners -> who wrote the first twin]
  recorded, failures

fidHistory == <<puts, bumps, born, recorded, failures>>
fidVars == <<row, events, writer, loop, scores, fidHistory>>

WriterIdle == [pc |-> "idle"]
LoopIdle == [pc |-> "idle", todo |-> <<>>, days |-> 0, twin |-> NoTwin, new |-> NoTwin]

FidelityInit ==
  /\ row = [o \in Owners |-> NoTwin] /\ events = [o \in Owners |-> <<>>]
  /\ writer = WriterIdle /\ loop = LoopIdle /\ scores = [o \in Owners |-> NoSignals]
  /\ puts = [o \in Owners |-> 0] /\ bumps = [o \in Owners |-> 0]
  /\ born = [o \in Owners |-> "nobody"] /\ recorded = 0 /\ failures = 0

-----------------------------------------------------------------------------
(* Grading and curation: pure functions of events, twin and judge. *)

Clamp(x) == IF x < 0 THEN 0 ELSE IF x > 1000 THEN 1000 ELSE x

\* make_judge and the last layer of grade: abstain rather than guess.
Judge(answer) == IF answer = NoAnswer THEN "unscored"
                 ELSE IF Clamp(answer) >= 500 THEN "yes" ELSE "no"

\* grade for a prediction, human_signal for a verdict.
Grade(ev, answer) ==
  IF ev.kind = "human_verdict" THEN IF ev.agreed THEN "yes" ELSE "no"
  ELSE CASE ev.match = "missing" -> "unscored"
         [] ev.match = "exact" \/ ev.jac >= 600 -> "yes"
         [] ev.match = "words" /\ ev.jac <= 100 -> "no"
         [] OTHER -> Judge(answer)

\* signals_from_events; other kinds are ignored.
SignalsFromEvents(evs, answer) ==
  LET told == RowsOf(evs, {"shadow_prediction", "human_verdict"})
  IN  [i \in DOMAIN told |-> Grade(told[i], answer)]

Recent(signals, k) ==
  IF k = 0 \/ k >= Len(signals) THEN signals
  ELSE SubSeq(signals, Len(signals) - k + 1, Len(signals))

\* fidelity: agreed / scored, rounded to three places.
FidelityOf(signals) ==
  LET count(g) == Cardinality({i \in DOMAIN signals : signals[i] = g})
      scored == count("yes") + count("no")
  IN  IF scored = 0 THEN NoRate ELSE (2000 * count("yes") + scored) \div (2 * scored)

NextMaturity(cur, n, fid, days, overrides, retuned) ==
  CASE cur = "seed" /\ n >= 3 -> "growing"
    [] cur = "growing" /\ fid >= 650 /\ days >= 30 -> "mature"
    [] cur = "mature" /\ overrides >= 3 -> "drifted"
    [] cur = "drifted" /\ retuned -> "growing"
    [] OTHER -> cur

\* Mutant: every pass is a new version.
CurateCounting(twin, signals, days) ==
  LET fid == FidelityOf(signals)
  IN  [twin EXCEPT !.maturity = NextMaturity(@, Len(signals), fid, days, 0, FALSE),
                   !.signals = [rate |-> fid, n |-> Len(signals)], !.version = @ + 1]

\* curate without edits, as tick calls it: no overrides, no retune.
Curate(twin, signals, days) ==
  LET fid == FidelityOf(signals)
      mat == NextMaturity(twin.maturity, Len(signals), fid, days, 0, FALSE)
  IN  [twin EXCEPT !.maturity = mat, !.signals = [rate |-> fid, n |-> Len(signals)],
                   !.version = IF mat # twin.maturity THEN @ + 1 ELSE @]

\* Mutant: a new rate is the only reason to save.
ShouldPersistRate(old, new) == new.signals.rate # old.signals.rate

\* should_persist: a night that changed nothing writes nothing.
ShouldPersist(old, new) == new.maturity # old.maturity \/ new.signals.rate # old.signals.rate

\* Mutant: what a draft does not bring is unmeasured.
PutTwinUnmeasured(draft, prev) ==
  [version |-> IF prev = NoTwin THEN 0 ELSE prev.version + 1,
   maturity |-> IF draft.maturity = "absent" THEN "seed" ELSE draft.maturity,
   signals |-> IF draft.brings THEN draft.signals ELSE NoSignals,
   text |-> draft.text]

\* put_twin: the twin to be stored, given the row read just before.
PutTwin(draft, prev) ==
  [version |-> IF prev = NoTwin THEN 0 ELSE prev.version + 1,
   maturity |-> IF draft.maturity = "absent" THEN "seed" ELSE draft.maturity,
   signals |-> IF draft.brings THEN draft.signals
               ELSE IF prev = NoTwin THEN NoSignals ELSE prev.signals,
   text |-> draft.text]

\* Mutant: validate_twin is not asked.
RejectedIfStale(draft, base, prev) == prev # NoTwin /\ draft.based /\ base # prev.version

\* base: the version the run had read, or NoTwin's.
Rejected(draft, base, prev) ==
  \/ prev # NoTwin /\ draft.based /\ base # prev.version   \* stale_base_version
  \/ ~draft.complete \/ draft.maturity = "bogus"           \* validate_twin

-----------------------------------------------------------------------------
(* A run that writes the twin of its requester. *)

Failing(out) == /\ Raises(out) => failures < MaxFaults
                /\ failures' = IF Raises(out) THEN failures + 1 ELSE failures

LoopHolds(o) == loop.pc \in {"events", "save"} /\ Head(loop.todo) = o
WriterHolds(o) == writer.pc = "put" /\ writer.owner = o

\* assemble reads the twin; the draft may be based on that version.
Interview(o, d) ==
  /\ writer.pc = "idle" /\ puts[o] < MaxPuts
  /\ writer' = [pc |-> "prev", owner |-> o, draft |-> d, base |-> row[o].version, twin |-> NoTwin]
  /\ UNCHANGED <<row, events, loop, scores, fidHistory>>

ReadPrev ==
  /\ writer.pc = "prev"
  /\ Serial => ~LoopHolds(writer.owner)
  /\ LET prev == row[writer.owner]
     IN  writer' = IF Rejected(writer.draft, writer.base, prev) THEN WriterIdle
                   ELSE [writer EXCEPT !.pc = "put", !.twin = PutTwin(writer.draft, prev)]
  /\ UNCHANGED <<row, events, loop, scores, fidHistory>>

WriteTwin(out) ==
  /\ writer.pc = "put"
  /\ Failing(out)
  /\ LET o == writer.owner
     IN  IF Performed(out)
         THEN /\ row' = [row EXCEPT ![o] = writer.twin]
              /\ puts' = [puts EXCEPT ![o] = @ + 1]
              /\ born' = IF born[o] = "nobody" THEN [born EXCEPT ![o] = "run"] ELSE born
         ELSE UNCHANGED <<row, puts, born>>
  /\ writer' = WriterIdle
  /\ UNCHANGED <<events, loop, scores, bumps, recorded>>

-----------------------------------------------------------------------------
(* The fidelity pass. *)

\* A run or the bridge appends an event; a repeated delivery appends it again.
RecordEvent(o, ev) ==
  /\ recorded < MaxEvents
  /\ recorded' = recorded + 1
  /\ events' = [events EXCEPT ![o] = PutRunEvent(@, ev, LogCap)]
  /\ UNCHANGED <<row, writer, loop, scores, puts, bumps, born, failures>>

StartPass(days) ==
  /\ loop.pc = "idle"
  /\ loop' = [LoopIdle EXCEPT !.pc = "load", !.todo = SeatList, !.days = days]
  /\ UNCHANGED <<row, events, writer, scores, fidHistory>>

LoadTwin ==
  /\ loop.pc = "load" /\ loop.todo # <<>>
  /\ LET o == Head(loop.todo)
     IN  /\ Serial => ~WriterHolds(o)
         /\ loop' = [loop EXCEPT !.pc = "events", !.twin = IF row[o] = NoTwin THEN SEED ELSE row[o]]
  /\ UNCHANGED <<row, events, writer, scores, fidHistory>>

\* The events are read and graded; the judge gives one answer for the ambiguous ones.
GradeSeat(answer) ==
  /\ loop.pc = "events"
  /\ \E signals \in {Recent(SignalsFromEvents(events[Head(loop.todo)], answer), Window)} :
       LET new == Curate(loop.twin, signals, loop.days)
       IN  loop' = [loop EXCEPT !.new = new,
                                !.pc = IF ShouldPersist(loop.twin, new) THEN "save" ELSE "score"]
  /\ UNCHANGED <<row, events, writer, scores, fidHistory>>

SaveTwin(out) ==
  /\ loop.pc = "save"
  /\ Failing(out)
  /\ LET o == Head(loop.todo)
     IN  IF Performed(out)
         THEN /\ row' = [row EXCEPT ![o] = loop.new]
              /\ bumps' = IF loop.new.maturity # loop.twin.maturity
                          THEN [bumps EXCEPT ![o] = @ + 1] ELSE bumps
              /\ born' = IF born[o] = "nobody" THEN [born EXCEPT ![o] = "loop"] ELSE born
         ELSE UNCHANGED <<row, bumps, born>>
  /\ loop' = IF Raises(out) THEN LoopIdle ELSE [loop EXCEPT !.pc = "score"]
  /\ UNCHANGED <<events, writer, scores, puts, recorded>>

\* The score of every seat is written, whether its twin was or not.
WriteScore ==
  /\ loop.pc = "score"
  /\ scores' = [scores EXCEPT ![Head(loop.todo)] = loop.new.signals]
  /\ loop' = [loop EXCEPT !.pc = "load", !.todo = Tail(@), !.twin = NoTwin, !.new = NoTwin]
  /\ UNCHANGED <<row, events, writer, fidHistory>>

EndShadowPass ==
  /\ loop.pc = "load" /\ loop.todo = <<>>
  /\ loop' = LoopIdle
  /\ UNCHANGED <<row, events, writer, scores, fidHistory>>

\* An exception in one seat ends the pass for all seats after it.
LoopDies ==
  /\ loop.pc # "idle" /\ Failing("refused")
  /\ loop' = LoopIdle
  /\ UNCHANGED <<row, events, writer, scores, puts, bumps, born, recorded>>

LoopStep == LoadTwin \/ (\E a \in Answers : GradeSeat(a)) \/ (\E out \in PostOutcomes : SaveTwin(out))
            \/ WriteScore \/ EndShadowPass
WriterStep == ReadPrev \/ \E out \in PostOutcomes : WriteTwin(out)

FidelityNext ==
  \/ \E o \in Owners : (\E d \in Drafts : Interview(o, d)) \/ \E ev \in EventPool[o] : RecordEvent(o, ev)
  \/ WriterStep
  \/ \E days \in Sustained : StartPass(days)
  \/ LoopStep
  \/ LoopDies

\* The scheduler ticks, and what was started goes on: a pass and a run's write.
FidelityFairness == /\ WF_fidVars(\E days \in Sustained : StartPass(days))
                    /\ WF_fidVars(LoopStep) /\ WF_fidVars(WriterStep)

FidelitySpec == FidelityInit /\ [][FidelityNext]_fidVars /\ FidelityFairness

-----------------------------------------------------------------------------
(* Properties. *)

\* Types; a twin in the table has a text unless only the loop has written it.
FidelityTypeOK ==
  /\ row \in [Owners -> Twin \cup {NoTwin}]
  /\ \A o \in Owners : row[o] # NoTwin => (row[o].text = 0 <=> puts[o] = 0)
  /\ \A o \in Owners : Len(events[o]) <= LogCap /\ \A i \in DOMAIN events[o] : events[o][i] \in EventPool[o]
  /\ writer = WriterIdle \/ writer \in
       [pc : {"prev", "put"}, owner : Owners, draft : Drafts, base : Int, twin : Twin \cup {NoTwin}]
  /\ loop \in [pc : {"idle", "load", "events", "save", "score"}, todo : Seq(Owners),
               days : Sustained \cup {0}, twin : Twin \cup {NoTwin}, new : Twin \cup {NoTwin}]
  /\ scores \in [Owners -> Signals]
  /\ puts \in [Owners -> Nat] /\ bumps \in [Owners -> Nat]
  /\ born \in [Owners -> {"nobody", "run", "loop"}]
  /\ recorded \in 0..MaxEvents /\ failures \in 0..MaxFaults

\* With one writer at a time the version counts what happened to the twin: every draft
\* that was written and every change of maturity, once each, although answers get lost,
\* passes die and are repeated, and the loop and the broker number the versions apart.
VersionCountsChanges ==
  \A o \in Owners : row[o] # NoTwin =>
    row[o].version + (IF born[o] = "run" THEN 1 ELSE 0) = puts[o] + bumps[o]

\* With one writer at a time a new draft does not wipe out the signals the loop has
\* gathered (INT-8): unless the draft brings signals of its own, what a run writes carries
\* those that are in the table when it lands, although they were read two remote calls before.
SignalsSurvive ==
  [][\A o \in Owners : row[o] # NoTwin /\ puts'[o] # puts[o] =>
       row'[o].signals = IF writer.draft.brings THEN writer.draft.signals ELSE row[o].signals]_fidVars

\* A person with three events behind him gets a growing twin, although interviews set the
\* twin back to seed, passes die at any seat and saves are lost: the clock catches up.
TwinsGrow ==
  \A o \in Owners : Len(SignalsFromEvents(events[o], NoAnswer)) >= 3
                      ~> row[o] # NoTwin /\ row[o].maturity # "seed"

\* The version of a twin is monotonic.  True with one writer at a time; false as soon as
\* the loop saves what it loaded before a run wrote.
VersionNeverFalls ==
  [][\A o \in Owners : row[o] # NoTwin => row'[o].version >= row[o].version]_fidVars
==============================================================================
