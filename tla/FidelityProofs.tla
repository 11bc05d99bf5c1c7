--------------------------- MODULE FidelityProofs ---------------------------
(***************************************************************************)
(* The twin of a person under its two writers, for any owners, seats,      *)
(* drafts, events and bounds, provided they take turns (Serial, what       *)
(* MEMPALACE_TWIN_CONTRACT.md assumes and no code enforces).  Each writer  *)
(* reads the row, works on it and writes it back some calls later.  The    *)
(* properties of the table do not say why that is harmless; the inductive  *)
(* invariant FidInv does: OneWriter keeps the writers apart between read   *)
(* and write, and DraftFresh and LoadFresh say that what a writer holds    *)
(* was made from the row still in the table.  Grading enters through       *)
(* CurateCounts: whatever the events and the judge say, curate counts a    *)
(* change of maturity and nothing else.                                    *)
(***************************************************************************)
EXTENDS Fidelity, RunEventsProofs, FiniteSetTheorems, TLAPS

Grades == {"yes", "no", "unscored"}

-----------------------------------------------------------------------------
(* Grading and curation.                                                    *)

LEMMA GradeTyped == ASSUME NEW ev \in Event, NEW answer PROVE Grade(ev, answer) \in Grades
<1>1. Judge(answer) \in Grades BY DEF Judge, Grades
<1>2. ev.match \in {"missing", "exact", "words"} BY DEF Event
<1>3. CASE ev.kind = "human_verdict" BY <1>3 DEF Grade, Grades
<1>4. CASE ev.kind # "human_verdict"
  <2>1. CASE ev.match = "missing" BY <1>4, <2>1 DEF Grade, Grades
  <2>2. CASE ev.match = "exact" BY <1>4, <2>2 DEF Grade, Grades
  <2>3. CASE ev.match = "words"
    <3>1. CASE ev.jac >= 600 BY <1>4, <2>3, <3>1 DEF Grade, Grades, Event
    <3>2. CASE ~(ev.jac >= 600) /\ ev.jac <= 100 BY <1>4, <2>3, <3>2 DEF Grade, Grades
    <3>3. CASE ~(ev.jac >= 600) /\ ~(ev.jac <= 100) BY <1>1, <1>4, <2>3, <3>3 DEF Grade
    <3> QED BY <3>1, <3>2, <3>3
  <2> QED BY <1>2, <2>1, <2>2, <2>3
<1> QED BY <1>3, <1>4

\* Whatever the log holds, the loop gets a list of grades.
LEMMA SignalsTyped ==
  ASSUME NEW evs \in Seq(Event), NEW answer
  PROVE  Recent(SignalsFromEvents(evs, answer), Window) \in Seq(Grades)
<1> DEFINE told == RowsOf(evs, {"shadow_prediction", "human_verdict"})
           signals == SignalsFromEvents(evs, answer)
<1>1. told \in Seq(Event) BY RowsSelected
<1>2. signals = [i \in DOMAIN told |-> Grade(told[i], answer)] BY DEF SignalsFromEvents
<1> HIDE DEF told, signals
<1>3. DOMAIN told = 1..Len(told) /\ Len(told) \in Nat BY <1>1
<1>4. \A i \in 1..Len(told) : told[i] \in Event BY <1>1
<1>5. \A i \in 1..Len(told) : Grade(told[i], answer) \in Grades BY <1>4, GradeTyped
<1>6. signals \in Seq(Grades) BY <1>2, <1>3, <1>5
<1>7. Len(signals) \in Nat /\ Window \in Nat BY <1>6, FidelityConstants
<1> SUFFICES Recent(signals, Window) \in Seq(Grades) BY DEF signals
<1>8. CASE Window = 0 \/ Window >= Len(signals) BY <1>6, <1>8 DEF Recent
<1>9. CASE ~(Window = 0 \/ Window >= Len(signals))
  <2>1. Len(signals) - Window + 1 \in 1..Len(signals) BY <1>7, <1>9
  <2>2. SubSeq(signals, Len(signals) - Window + 1, Len(signals)) \in Seq(Grades) BY <1>6, <1>7, <2>1
  <2> QED BY <1>9, <2>2 DEF Recent
<1> QED BY <1>8, <1>9

\* The rate of y agreements among s graded signals is at most one.
LEMMA RateBounded ==
  ASSUME NEW y \in Nat, NEW n \in Nat, y + n # 0
  PROVE  (2000 * y + (y + n)) \div (2 * (y + n)) \in 0..1000
<1> DEFINE b == 2 * (y + n)
           a == 2000 * y + (y + n)
           q == a \div b
<1>1. a \in Nat /\ b \in Nat /\ b > 0 /\ a < 1001 * b OBVIOUS
<1> HIDE DEF a, b
<1>2. q \in Nat /\ b * q <= a BY <1>1
<1> HIDE DEF q
<1>3. q <= 1000
  <2> SUFFICES ASSUME q >= 1001 PROVE FALSE BY <1>2
  <2>1. b * q >= b * 1001 BY <1>1, <1>2
  <2> QED BY <1>1, <1>2, <2>1
<1> QED BY <1>2, <1>3 DEF a, b, q

LEMMA RateTyped == ASSUME NEW signals \in Seq(Grades) PROVE FidelityOf(signals) \in NoRate..1000
<1> DEFINE count(g) == Cardinality({i \in DOMAIN signals : signals[i] = g})
<1>1. \A g : count(g) \in Nat
  <2>1. DOMAIN signals = 1..Len(signals) /\ Len(signals) \in Nat OBVIOUS
  <2>2. IsFiniteSet(1..Len(signals)) BY <2>1, FS_Interval
  <2>3. \A g : {i \in DOMAIN signals : signals[i] = g} \subseteq 1..Len(signals) BY <2>1
  <2>4. \A g : IsFiniteSet({i \in DOMAIN signals : signals[i] = g}) BY <2>2, <2>3, FS_Subset
  <2> QED BY <2>4, FS_CardinalityType
<1> DEFINE y == count("yes")
           n == count("no")
<1>2. y \in Nat /\ n \in Nat BY <1>1
<1>3. FidelityOf(signals) = IF y + n = 0 THEN NoRate ELSE (2000 * y + (y + n)) \div (2 * (y + n))
  BY DEF FidelityOf
<1> HIDE DEF y, n
<1>4. CASE y + n = 0 BY <1>3, <1>4 DEF NoRate
<1>5. CASE y + n # 0
  <2>1. (2000 * y + (y + n)) \div (2 * (y + n)) \in 0..1000 BY <1>2, <1>5, RateBounded
  <2> QED BY <1>3, <1>5, <2>1 DEF NoRate
<1> QED BY <1>4, <1>5

LEMMA MaturityTyped ==
  ASSUME NEW cur \in MATURITY_STATES, NEW n, NEW fid, NEW days
  PROVE  NextMaturity(cur, n, fid, days, 0, FALSE) \in MATURITY_STATES
<1>1. CASE cur = "seed" /\ n >= 3 BY <1>1 DEF NextMaturity, MATURITY_STATES
<1>2. CASE cur = "seed" /\ ~(n >= 3) BY <1>2 DEF NextMaturity, MATURITY_STATES
<1>3. CASE cur = "growing" /\ fid >= 650 /\ days >= 30 BY <1>3 DEF NextMaturity, MATURITY_STATES
<1>4. CASE cur = "growing" /\ ~(fid >= 650 /\ days >= 30) BY <1>4 DEF NextMaturity, MATURITY_STATES
<1>5. CASE cur \in {"mature", "drifted"} BY <1>5 DEF NextMaturity, MATURITY_STATES
<1> QED BY <1>1, <1>2, <1>3, <1>4, <1>5 DEF MATURITY_STATES

\* curate counts a change of maturity and nothing else, and keeps the text.
LEMMA CurateCounts ==
  ASSUME NEW twin \in Twin, NEW signals \in Seq(Grades), NEW days, NEW new, new = Curate(twin, signals, days)
  PROVE  /\ new \in Twin /\ new.text = twin.text
         /\ new.version = twin.version + (IF new.maturity # twin.maturity THEN 1 ELSE 0)
<1> DEFINE fid == FidelityOf(signals)
           mat == NextMaturity(twin.maturity, Len(signals), fid, days, 0, FALSE)
<1>1. fid \in NoRate..1000 /\ Len(signals) \in Nat BY RateTyped
<1>2. twin.maturity \in MATURITY_STATES /\ twin.version \in Nat /\ twin.text \in Nat BY DEF Twin
<1>3. mat \in MATURITY_STATES BY <1>2, MaturityTyped
<1>4. [rate |-> fid, n |-> Len(signals)] \in Signals BY <1>1 DEF Signals
<1>5. new = [twin EXCEPT !.maturity = mat, !.signals = [rate |-> fid, n |-> Len(signals)],
                         !.version = IF mat # twin.maturity THEN @ + 1 ELSE @]
  BY DEF Curate
<1> HIDE DEF mat, fid
<1>6. /\ new.maturity = mat /\ new.text = twin.text
      /\ new.version = IF mat # twin.maturity THEN twin.version + 1 ELSE twin.version
  BY <1>5 DEF Twin
<1>7. new \in Twin
  <2>1. (IF mat # twin.maturity THEN twin.version + 1 ELSE twin.version) \in Nat BY <1>2
  <2> DEFINE v == IF mat # twin.maturity THEN twin.version + 1 ELSE twin.version
  <2>2. new = [version |-> v, maturity |-> mat, signals |-> [rate |-> fid, n |-> Len(signals)], text |-> twin.text]
    BY <1>5 DEF Twin
  <2> HIDE DEF v
  <2> QED BY <1>2, <1>3, <1>4, <2>1, <2>2 DEF Twin, v
<1> QED BY <1>2, <1>6, <1>7

\* put_twin: an accepted draft makes a twin with its text, and with the signals of the row
\* unless it brings its own.
LEMMA PutTyped ==
  ASSUME NEW draft \in Draft, draft.maturity # "bogus", NEW prev \in Twin \cup {NoTwin}
  PROVE  /\ PutTwin(draft, prev) \in Twin /\ PutTwin(draft, prev).text # 0
         /\ PutTwin(draft, prev).version = IF prev = NoTwin THEN 0 ELSE prev.version + 1
         /\ prev # NoTwin =>
              PutTwin(draft, prev).signals = IF draft.brings THEN draft.signals ELSE prev.signals
<1> DEFINE v == IF prev = NoTwin THEN 0 ELSE prev.version + 1
           m == IF draft.maturity = "absent" THEN "seed" ELSE draft.maturity
           s == IF draft.brings THEN draft.signals
                ELSE IF prev = NoTwin THEN NoSignals ELSE prev.signals
<1>1. PutTwin(draft, prev) = [version |-> v, maturity |-> m, signals |-> s, text |-> draft.text]
  BY DEF PutTwin
<1>2. v \in Nat BY DEF Twin
<1>3. m \in MATURITY_STATES BY DEF Draft, MATURITY_STATES
<1>4. s \in Signals
  <2>1. NoSignals \in Signals BY DEF NoSignals, Signals, NoRate
  <2>2. prev # NoTwin => prev.signals \in Signals BY DEF Twin
  <2>3. draft.signals \in Signals BY DEF Draft
  <2> QED BY <2>1, <2>2, <2>3
<1>5. draft.text \in Nat /\ draft.text # 0 BY DEF Draft
<1>6. prev # NoTwin => s = IF draft.brings THEN draft.signals ELSE prev.signals OBVIOUS
<1> HIDE DEF v, m, s
<1>7. PutTwin(draft, prev) \in Twin BY <1>1, <1>2, <1>3, <1>4, <1>5 DEF Twin
<1>8. PutTwin(draft, prev).version = v /\ PutTwin(draft, prev).signals = s /\ PutTwin(draft, prev).text = draft.text
  BY <1>1
<1> QED BY <1>5, <1>6, <1>7, <1>8 DEF v

LEMMA SeedTyped == SEED \in Twin /\ NoTwin \notin Twin
<1>1. NoSignals \in Signals BY DEF NoSignals, Signals, NoRate
<1>2. SEED \in Twin BY <1>1 DEF SEED, Twin, MATURITY_STATES
<1>3. NoTwin \notin Twin BY DEF NoTwin, Twin
<1> QED BY <1>2, <1>3

-----------------------------------------------------------------------------
(* The invariant.                                                           *)

RowsTyped ==
  /\ row \in [Owners -> Twin \cup {NoTwin}] /\ scores \in [Owners -> Signals]
  /\ puts \in [Owners -> Nat] /\ bumps \in [Owners -> Nat]
  /\ born \in [Owners -> {"nobody", "run", "loop"}]
  /\ recorded \in 0..MaxEvents /\ failures \in 0..MaxFaults

EventsTyped ==
  /\ events = [o \in Owners |-> events[o]]
  /\ \A o \in Owners : events[o] \in Seq(EventPool[o]) /\ Len(events[o]) <= LogCap

WriterTyped ==
  writer = WriterIdle \/ writer \in
    [pc : {"prev", "put"}, owner : Owners, draft : Drafts, base : Int, twin : Twin \cup {NoTwin}]

LoopTyped ==
  /\ loop \in [pc : {"idle", "load", "events", "save", "score"}, todo : Seq(Owners),
               days : Sustained \cup {0}, twin : Twin \cup {NoTwin}, new : Twin \cup {NoTwin}]
  /\ loop.pc \in {"events", "save", "score"} => loop.todo # <<>> /\ loop.twin \in Twin
  /\ loop.pc \in {"save", "score"} => loop.new \in Twin

\* Nobody has written a twin that is not there, and a twin that only the loop wrote has no text.
RowsCounted ==
  \A o \in Owners :
    /\ row[o] = NoTwin <=> born[o] = "nobody"
    /\ row[o] = NoTwin => puts[o] = 0 /\ bumps[o] = 0
    /\ row[o] # NoTwin => (row[o].text = 0 <=> puts[o] = 0)

\* One writer at a time: between its read and its write a writer is alone with the twin.
OneWriter == \A o \in Owners : ~(LoopHolds(o) /\ WriterHolds(o))

\* What the run is about to write was made from the row that is still in the table.
DraftFresh ==
  writer.pc = "put" =>
    /\ writer.draft.maturity # "bogus"
    /\ writer.twin = PutTwin(writer.draft, row[writer.owner])

\* The twin the loop has loaded is still the one in the table, or there is none.
LoadFresh ==
  loop.pc \in {"events", "save"} =>
    loop.twin = IF row[Head(loop.todo)] = NoTwin THEN SEED ELSE row[Head(loop.todo)]

\* What the loop is about to write: one version more exactly if the maturity changed.
CurateFresh ==
  loop.pc = "save" =>
    /\ loop.new.text = loop.twin.text
    /\ loop.new.version = loop.twin.version + (IF loop.new.maturity # loop.twin.maturity THEN 1 ELSE 0)

FidInv == /\ RowsTyped /\ EventsTyped /\ WriterTyped /\ LoopTyped
          /\ RowsCounted /\ OneWriter /\ DraftFresh /\ LoadFresh /\ CurateFresh
          /\ VersionCountsChanges

LEMMA FidInit == ASSUME FidelityInit PROVE FidInv
<1> USE DEF FidelityInit
<1>1. RowsTyped
  <2>1. NoSignals \in Signals BY DEF NoSignals, Signals, NoRate
  <2> QED BY <2>1, FidelityConstants DEF RowsTyped
<1>2. EventsTyped BY FidelityConstants DEF EventsTyped
<1>3. WriterTyped BY DEF WriterTyped
<1>4. LoopTyped BY DEF LoopTyped, LoopIdle
<1>5. RowsCounted /\ VersionCountsChanges BY DEF RowsCounted, VersionCountsChanges
<1>6. OneWriter /\ DraftFresh BY DEF OneWriter, WriterHolds, DraftFresh, WriterIdle
<1>7. LoadFresh /\ CurateFresh BY DEF LoadFresh, CurateFresh, LoopIdle
<1> QED BY <1>1, <1>2, <1>3, <1>4, <1>5, <1>6, <1>7 DEF FidInv

\* Interview: the run has read the twin; nothing is promised about what it read.
LEMMA StepInterview ==
  ASSUME FidInv, NEW o \in Owners, NEW d \in Drafts, Interview(o, d) PROVE FidInv'
<1> USE DEF FidInv, Interview, fidHistory
<1>1. RowsTyped' /\ EventsTyped' /\ LoopTyped' BY DEF RowsTyped, EventsTyped, LoopTyped
<1>2. WriterTyped'
  <2>1. row[o].version \in Int BY DEF RowsTyped, Twin, NoTwin
  <2> QED BY <2>1 DEF WriterTyped
<1>3. RowsCounted' /\ VersionCountsChanges' BY DEF RowsCounted, VersionCountsChanges
<1>4. OneWriter' /\ DraftFresh' BY DEF OneWriter, WriterHolds, DraftFresh
<1>5. LoadFresh' /\ CurateFresh' BY DEF LoadFresh, CurateFresh
<1> QED BY <1>1, <1>2, <1>3, <1>4, <1>5

\* ReadPrev: the loop is not between its read and its write, so the row read is fresh.
LEMMA StepReadPrev == ASSUME Serial, FidInv, ReadPrev PROVE FidInv'
<1> USE DEF FidInv, ReadPrev, fidHistory
<1>1. RowsTyped' /\ EventsTyped' /\ LoopTyped' BY DEF RowsTyped, EventsTyped, LoopTyped
<1>2. RowsCounted' /\ VersionCountsChanges' BY DEF RowsCounted, VersionCountsChanges
<1>3. LoadFresh' /\ CurateFresh' BY DEF LoadFresh, CurateFresh
<1> DEFINE prev == row[writer.owner]
<1>4. CASE Rejected(writer.draft, writer.base, prev)
  <2>1. writer' = WriterIdle BY <1>4
  <2>2. WriterTyped' BY <2>1 DEF WriterTyped
  <2>3. writer'.pc = "idle"
    <3>1. WriterIdle.pc = "idle" BY DEF WriterIdle
    <3> QED BY <2>1, <3>1
  <2>4. OneWriter' /\ DraftFresh' BY <2>3 DEF OneWriter, WriterHolds, DraftFresh
  <2> QED BY <1>1, <1>2, <1>3, <2>2, <2>4
<1>5. CASE ~Rejected(writer.draft, writer.base, prev)
  <2>1. writer' = [writer EXCEPT !.pc = "put", !.twin = PutTwin(writer.draft, prev)] BY <1>5
  <2>2. writer \in [pc : {"prev", "put"}, owner : Owners, draft : Drafts, base : Int, twin : Twin \cup {NoTwin}]
    BY DEF WriterTyped, WriterIdle
  <2>3. writer.draft \in Draft /\ prev \in Twin \cup {NoTwin} BY <2>2, FidelityConstants DEF RowsTyped
  <2>4. writer.draft.maturity # "bogus" BY <1>5 DEF Rejected
  <2>5. PutTwin(writer.draft, prev) \in Twin BY <2>3, <2>4, PutTyped
  <2>6. WriterTyped' BY <2>1, <2>2, <2>5 DEF WriterTyped
  <2>7. /\ writer'.draft = writer.draft /\ writer'.owner = writer.owner
        /\ writer'.twin = PutTwin(writer.draft, prev)
    BY <2>1, <2>2
  <2>8. DraftFresh' BY <2>4, <2>7 DEF DraftFresh
  <2>9. OneWriter' BY <2>7 DEF OneWriter, WriterHolds, LoopHolds
  <2> QED BY <1>1, <1>2, <1>3, <2>6, <2>8, <2>9
<1> QED BY <1>4, <1>5

\* WriteTwin: the version is one more than that of the row, or the first.
LEMMA StepWriteTwin ==
  ASSUME FidInv, NEW out \in PostOutcomes, WriteTwin(out) PROVE FidInv'
<1> USE DEF FidInv, WriteTwin
<1> DEFINE o == writer.owner
<1>1. writer \in [pc : {"prev", "put"}, owner : Owners, draft : Drafts, base : Int, twin : Twin \cup {NoTwin}]
  BY DEF WriterTyped, WriterIdle
<1>2. o \in Owners /\ writer.draft \in Draft /\ row[o] \in Twin \cup {NoTwin}
  BY <1>1, FidelityConstants DEF RowsTyped
<1>3. writer.draft.maturity # "bogus" /\ writer.twin = PutTwin(writer.draft, row[o]) BY DEF DraftFresh
<1>4. /\ writer.twin \in Twin /\ writer.twin.text # 0
      /\ writer.twin.version = IF row[o] = NoTwin THEN 0 ELSE row[o].version + 1
  BY <1>2, <1>3, PutTyped
<1>5. failures' \in 0..MaxFaults BY FidelityConstants DEF Failing, RowsTyped
<1>6. EventsTyped' /\ LoopTyped' /\ CurateFresh' BY DEF EventsTyped, LoopTyped, CurateFresh
<1>7. WriterTyped' /\ OneWriter' /\ DraftFresh' BY DEF WriterTyped, OneWriter, WriterHolds, DraftFresh, WriterIdle
<1>8. CASE ~Performed(out)
  <2>1. row' = row /\ puts' = puts /\ born' = born BY <1>8
  <2>2. RowsTyped' BY <1>5, <2>1 DEF RowsTyped
  <2>3. RowsCounted' /\ VersionCountsChanges' /\ LoadFresh' BY <2>1 DEF RowsCounted, VersionCountsChanges, LoadFresh
  <2> QED BY <1>6, <1>7, <2>2, <2>3
<1>9. CASE Performed(out)
  <2>1. /\ row' = [row EXCEPT ![o] = writer.twin] /\ puts' = [puts EXCEPT ![o] = @ + 1]
        /\ born' = IF born[o] = "nobody" THEN [born EXCEPT ![o] = "run"] ELSE born
    BY <1>9
  <2>2. RowsTyped'
    <3>1. row' \in [Owners -> Twin \cup {NoTwin}] BY <1>4, <2>1 DEF RowsTyped
    <3>2. puts' \in [Owners -> Nat]
      <4>1. puts \in [Owners -> Nat] /\ puts[o] + 1 \in Nat BY <1>2 DEF RowsTyped
      <4> QED BY <2>1, <4>1
    <3>3. born' \in [Owners -> {"nobody", "run", "loop"}] BY <2>1 DEF RowsTyped
    <3> QED BY <1>5, <3>1, <3>2, <3>3 DEF RowsTyped
  <2>3. /\ row'[o] = writer.twin /\ puts'[o] = puts[o] + 1
        /\ born'[o] = IF born[o] = "nobody" THEN "run" ELSE born[o]
        /\ \A p \in Owners : p # o => row'[p] = row[p] /\ puts'[p] = puts[p] /\ born'[p] = born[p]
        /\ bumps' = bumps
    BY <1>2, <2>1 DEF RowsTyped
  <2>4. row'[o] # NoTwin BY <1>4, <2>3, SeedTyped
  <2>5. puts[o] \in Nat /\ bumps[o] \in Nat BY <1>2 DEF RowsTyped
  <2>6. born'[o] # "nobody" BY <2>3
  <2>7. RowsCounted'
    <3> SUFFICES ASSUME NEW p \in Owners
                 PROVE  /\ row'[p] = NoTwin <=> born'[p] = "nobody"
                        /\ row'[p] = NoTwin => puts'[p] = 0 /\ bumps'[p] = 0
                        /\ row'[p] # NoTwin => (row'[p].text = 0 <=> puts'[p] = 0)
      BY DEF RowsCounted
    <3>1. CASE p = o BY <1>4, <2>3, <2>4, <2>5, <2>6, <3>1
    <3>2. CASE p # o BY <2>3, <3>2 DEF RowsCounted
    <3> QED BY <3>1, <3>2
  <2>8. VersionCountsChanges'
    <3> SUFFICES ASSUME NEW p \in Owners, row'[p] # NoTwin
                 PROVE  row'[p].version + (IF born'[p] = "run" THEN 1 ELSE 0) = puts'[p] + bumps'[p]
      BY DEF VersionCountsChanges
    <3>1. CASE p = o /\ row[o] = NoTwin
      <4>1. born'[o] = "run" /\ puts[o] = 0 /\ bumps[o] = 0 BY <1>2, <2>3, <3>1 DEF RowsCounted
      <4> QED BY <1>4, <2>3, <3>1, <4>1
    <3>2. CASE p = o /\ row[o] # NoTwin
      <4>1. born[o] # "nobody" /\ born'[o] = born[o] BY <1>2, <2>3, <3>2 DEF RowsCounted
      <4>2. row[o].version \in Nat BY <1>2, <3>2 DEF Twin
      <4>3. row[o].version + (IF born[o] = "run" THEN 1 ELSE 0) = puts[o] + bumps[o]
        BY <1>2, <3>2 DEF VersionCountsChanges
      <4> QED BY <1>4, <2>3, <2>5, <3>2, <4>1, <4>2, <4>3
    <3>3. CASE p # o BY <2>3, <3>3 DEF VersionCountsChanges
    <3> QED BY <3>1, <3>2, <3>3
  <2>9. LoadFresh'
    <3> SUFFICES ASSUME loop.pc \in {"events", "save"}
                 PROVE  loop.twin = IF row'[Head(loop.todo)] = NoTwin THEN SEED ELSE row'[Head(loop.todo)]
      BY DEF LoadFresh
    <3>1. loop.todo \in Seq(Owners) /\ loop.todo # <<>> BY DEF LoopTyped
    <3>2. Head(loop.todo) \in Owners BY <3>1
    <3>3. Head(loop.todo) # o BY <1>2 DEF OneWriter, LoopHolds, WriterHolds
    <3>4. row'[Head(loop.todo)] = row[Head(loop.todo)] BY <2>3, <3>2, <3>3
    <3> QED BY <3>4 DEF LoadFresh
  <2> QED BY <1>6, <1>7, <2>2, <2>7, <2>8, <2>9
<1> QED BY <1>8, <1>9

LEMMA StepRecordEvent ==
  ASSUME FidInv, NEW o \in Owners, NEW ev \in EventPool[o], RecordEvent(o, ev) PROVE FidInv'
<1> USE DEF FidInv, RecordEvent
<1>1. RowsTyped' BY FidelityConstants DEF RowsTyped
<1>2. WriterTyped' /\ LoopTyped' BY DEF WriterTyped, LoopTyped
<1>3. EventsTyped'
  <2> DEFINE new == PutRunEvent(events[o], ev, LogCap)
  <2>1. new \in Seq(EventPool[o]) /\ Len(new) <= LogCap
    BY PutKept, FidelityConstants DEF EventsTyped
  <2>2. events' = [events EXCEPT ![o] = new] OBVIOUS
  <2> HIDE DEF new
  <2>3. events' = [p \in Owners |-> IF p = o THEN new ELSE events[p]] BY <2>2 DEF EventsTyped
  <2> QED BY <2>1, <2>3 DEF EventsTyped
<1>4. RowsCounted' /\ VersionCountsChanges' BY DEF RowsCounted, VersionCountsChanges
<1>5. OneWriter' /\ DraftFresh' BY DEF OneWriter, WriterHolds, LoopHolds, DraftFresh
<1>6. LoadFresh' /\ CurateFresh' BY DEF LoadFresh, CurateFresh
<1> QED BY <1>1, <1>2, <1>3, <1>4, <1>5, <1>6

\* A step of the loop that touches nothing but itself and leaves it outside its critical section.
LEMMA StepLoopOnly ==
  ASSUME FidInv, UNCHANGED <<row, events, writer, puts, bumps, born, recorded>>,
         scores' \in [Owners -> Signals], failures' \in 0..MaxFaults,
         LoopTyped', loop'.pc \notin {"events", "save"}
  PROVE  FidInv'
<1> USE DEF FidInv
<1>1. RowsTyped' /\ EventsTyped' /\ WriterTyped' BY DEF RowsTyped, EventsTyped, WriterTyped
<1>2. RowsCounted' /\ VersionCountsChanges' BY DEF RowsCounted, VersionCountsChanges
<1>3. OneWriter' BY DEF OneWriter, LoopHolds
<1>4. DraftFresh' BY DEF DraftFresh
<1>5. LoadFresh' /\ CurateFresh' BY DEF LoadFresh, CurateFresh
<1> QED BY <1>1, <1>2, <1>3, <1>4, <1>5

LEMMA IdleTyped == LoopIdle \in [pc : {"idle", "load", "events", "save", "score"}, todo : Seq(Owners),
               days : Sustained \cup {0}, twin : Twin \cup {NoTwin}, new : Twin \cup {NoTwin}]
BY DEF LoopIdle

LEMMA StepStartPass ==
  ASSUME FidInv, NEW days \in Sustained, StartPass(days) PROVE FidInv'
<1>1. loop' = [pc |-> "load", todo |-> SeatList, days |-> days, twin |-> NoTwin, new |-> NoTwin]
  BY DEF StartPass, LoopIdle
<1>2. LoopTyped' /\ loop'.pc = "load" BY <1>1, FidelityConstants DEF LoopTyped
<1> QED BY <1>2, StepLoopOnly DEF StartPass, fidHistory, FidInv, RowsTyped

\* LoadTwin: no run is between its read and its write, so the twin loaded is fresh.
LEMMA StepLoadTwin == ASSUME Serial, FidInv, LoadTwin PROVE FidInv'
<1> USE DEF FidInv, LoadTwin, fidHistory
<1> DEFINE o == Head(loop.todo)
           twin == IF row[o] = NoTwin THEN SEED ELSE row[o]
<1>1. loop.todo \in Seq(Owners) /\ loop.todo # <<>> BY DEF LoopTyped
<1>2. o \in Owners BY <1>1
<1>3. twin \in Twin BY <1>2, SeedTyped DEF RowsTyped
<1>4. loop' = [loop EXCEPT !.pc = "events", !.twin = twin] OBVIOUS
<1>5. ~WriterHolds(o) OBVIOUS
<1> HIDE DEF twin
<1>6. loop'.pc = "events" /\ loop'.todo = loop.todo /\ loop'.twin = twin BY <1>4 DEF LoopTyped
<1>7. LoopTyped'
  <2>1. loop' \in [pc : {"idle", "load", "events", "save", "score"}, todo : Seq(Owners),
               days : Sustained \cup {0}, twin : Twin \cup {NoTwin}, new : Twin \cup {NoTwin}]
    BY <1>3, <1>4 DEF LoopTyped
  <2> QED BY <1>1, <1>3, <1>6, <2>1 DEF LoopTyped
<1>8. RowsTyped' /\ EventsTyped' /\ WriterTyped' BY DEF RowsTyped, EventsTyped, WriterTyped
<1>9. RowsCounted' /\ VersionCountsChanges' BY DEF RowsCounted, VersionCountsChanges
<1>10. OneWriter' BY <1>5, <1>6 DEF OneWriter, LoopHolds, WriterHolds
<1>11. DraftFresh' /\ CurateFresh' BY <1>6 DEF DraftFresh, CurateFresh
<1>12. LoadFresh' BY <1>6 DEF LoadFresh, twin
<1> QED BY <1>7, <1>8, <1>9, <1>10, <1>11, <1>12

LEMMA SeqOfEvents == ASSUME NEW o \in Owners, NEW s \in Seq(EventPool[o]) PROVE s \in Seq(Event)
<1>1. EventPool[o] \subseteq Event BY FidelityConstants
<1> QED BY <1>1

\* GradeSeat: curation keeps the text and counts a change of maturity.
LEMMA StepGradeSeat == ASSUME FidInv, NEW answer \in Answers, GradeSeat(answer) PROVE FidInv'
<1> USE DEF FidInv, GradeSeat, fidHistory
<1> DEFINE o == Head(loop.todo)
           signals == Recent(SignalsFromEvents(events[o], answer), Window)
           new == Curate(loop.twin, signals, loop.days)
           pc == IF ShouldPersist(loop.twin, new) THEN "save" ELSE "score"
<1>1. loop.todo \in Seq(Owners) /\ loop.todo # <<>> /\ loop.twin \in Twin BY DEF LoopTyped
<1>2. o \in Owners BY <1>1
<1>3. events[o] \in Seq(Event) BY <1>2, SeqOfEvents DEF EventsTyped
<1>4. signals \in Seq(Grades) BY <1>3, SignalsTyped
<1>5. loop' = [loop EXCEPT !.new = new, !.pc = pc] OBVIOUS
<1> HIDE DEF signals
<1>6. /\ new \in Twin /\ new.text = loop.twin.text
      /\ new.version = loop.twin.version + (IF new.maturity # loop.twin.maturity THEN 1 ELSE 0)
  BY <1>1, <1>4, CurateCounts
<1>7. pc \in {"save", "score"} OBVIOUS
<1> HIDE DEF new, pc
<1>8. loop'.pc = pc /\ loop'.todo = loop.todo /\ loop'.twin = loop.twin /\ loop'.new = new BY <1>5 DEF LoopTyped
<1>9. LoopTyped'
  <2>1. loop' \in [pc : {"idle", "load", "events", "save", "score"}, todo : Seq(Owners),
               days : Sustained \cup {0}, twin : Twin \cup {NoTwin}, new : Twin \cup {NoTwin}]
    BY <1>5, <1>6, <1>7 DEF LoopTyped
  <2> QED BY <1>1, <1>6, <1>8, <2>1 DEF LoopTyped
<1>10. RowsTyped' /\ EventsTyped' /\ WriterTyped' BY DEF RowsTyped, EventsTyped, WriterTyped
<1>11. RowsCounted' /\ VersionCountsChanges' BY DEF RowsCounted, VersionCountsChanges
<1>12. OneWriter' BY <1>8 DEF OneWriter, LoopHolds, WriterHolds
<1>13. DraftFresh' BY DEF DraftFresh
<1>14. LoadFresh' BY <1>8 DEF LoadFresh
<1>15. CurateFresh' BY <1>6, <1>8 DEF CurateFresh
<1> QED BY <1>9, <1>10, <1>11, <1>12, <1>13, <1>14, <1>15

LEMMA StepWriteScore == ASSUME FidInv, WriteScore PROVE FidInv'
<1> USE DEF FidInv, WriteScore, fidHistory
<1>1. loop.todo \in Seq(Owners) /\ loop.todo # <<>> /\ loop.new \in Twin BY DEF LoopTyped
<1>2. Tail(loop.todo) \in Seq(Owners) BY <1>1
<1>3. loop.new.signals \in Signals BY <1>1 DEF Twin
<1>4. scores' \in [Owners -> Signals] BY <1>3 DEF RowsTyped
<1>5. LoopTyped' /\ loop'.pc = "load" BY <1>2 DEF LoopTyped
<1> QED BY <1>4, <1>5, StepLoopOnly DEF RowsTyped

LEMMA StepEndShadowPass == ASSUME FidInv, EndShadowPass PROVE FidInv'
<1>1. loop' = LoopIdle BY DEF EndShadowPass
<1>2. LoopTyped' /\ loop'.pc = "idle" BY <1>1, IdleTyped DEF LoopTyped, LoopIdle
<1> QED BY <1>2, StepLoopOnly DEF EndShadowPass, fidHistory, FidInv, RowsTyped

LEMMA StepLoopDies == ASSUME FidInv, LoopDies PROVE FidInv'
<1>1. loop' = LoopIdle BY DEF LoopDies
<1>2. LoopTyped' /\ loop'.pc = "idle" BY <1>1, IdleTyped DEF LoopTyped, LoopIdle
<1>3. failures' \in 0..MaxFaults BY FidelityConstants DEF LoopDies, Failing, FidInv, RowsTyped
<1> QED BY <1>2, <1>3, StepLoopOnly DEF LoopDies, FidInv, RowsTyped

\* SaveTwin: the loop saves what it made of the row that is still in the table.
LEMMA StepSaveTwin == ASSUME FidInv, NEW out \in PostOutcomes, SaveTwin(out) PROVE FidInv'
<1> USE DEF FidInv, SaveTwin
<1> DEFINE o == Head(loop.todo)
           bump == IF loop.new.maturity # loop.twin.maturity THEN 1 ELSE 0
<1>1. loop.todo \in Seq(Owners) /\ loop.todo # <<>> /\ loop.twin \in Twin /\ loop.new \in Twin BY DEF LoopTyped
<1>2. o \in Owners /\ row[o] \in Twin \cup {NoTwin} BY <1>1 DEF RowsTyped
<1>3. loop.twin = IF row[o] = NoTwin THEN SEED ELSE row[o] BY DEF LoadFresh
<1>4. loop.new.text = loop.twin.text /\ loop.new.version = loop.twin.version + bump BY DEF CurateFresh
<1>5. failures' \in 0..MaxFaults BY FidelityConstants DEF Failing, RowsTyped
<1>6. LoopTyped' /\ loop'.pc \in {"idle", "score"}
  <2>1. CASE Raises(out)
    <3>1. loop' = LoopIdle BY <2>1
    <3> QED BY <3>1, IdleTyped DEF LoopTyped, LoopIdle
  <2>2. CASE ~Raises(out)
    <3>1. loop' = [loop EXCEPT !.pc = "score"] BY <2>2
    <3> QED BY <1>1, <3>1 DEF LoopTyped
  <2> QED BY <2>1, <2>2
<1>7. EventsTyped' /\ WriterTyped' BY DEF EventsTyped, WriterTyped
<1>8. OneWriter' /\ LoadFresh' /\ CurateFresh' BY <1>6 DEF OneWriter, LoopHolds, LoadFresh, CurateFresh
<1>9. CASE ~Performed(out)
  <2>1. row' = row /\ bumps' = bumps /\ born' = born BY <1>9
  <2>2. RowsTyped' BY <1>5, <2>1 DEF RowsTyped
  <2>3. RowsCounted' /\ VersionCountsChanges' /\ DraftFresh' BY <2>1 DEF RowsCounted, VersionCountsChanges, DraftFresh
  <2> QED BY <1>6, <1>7, <1>8, <2>2, <2>3
<1>10. CASE Performed(out)
  <2>1. /\ row' = [row EXCEPT ![o] = loop.new]
        /\ bumps' = IF loop.new.maturity # loop.twin.maturity THEN [bumps EXCEPT ![o] = @ + 1] ELSE bumps
        /\ born' = IF born[o] = "nobody" THEN [born EXCEPT ![o] = "loop"] ELSE born
    BY <1>10
  <2>2. RowsTyped'
    <3>1. row' \in [Owners -> Twin \cup {NoTwin}] BY <1>1, <2>1 DEF RowsTyped
    <3>2. bumps' \in [Owners -> Nat]
      <4>1. bumps \in [Owners -> Nat] /\ bumps[o] + 1 \in Nat BY <1>2 DEF RowsTyped
      <4> QED BY <2>1, <4>1
    <3>3. born' \in [Owners -> {"nobody", "run", "loop"}] BY <2>1 DEF RowsTyped
    <3> QED BY <1>5, <3>1, <3>2, <3>3 DEF RowsTyped
  <2>3. puts[o] \in Nat /\ bumps[o] \in Nat BY <1>2 DEF RowsTyped
  <2>4. /\ row'[o] = loop.new /\ bumps'[o] = bumps[o] + bump
        /\ born'[o] = IF born[o] = "nobody" THEN "loop" ELSE born[o]
        /\ \A p \in Owners : p # o => row'[p] = row[p] /\ bumps'[p] = bumps[p] /\ born'[p] = born[p]
        /\ puts' = puts
    <3>1. bumps'[o] = bumps[o] + bump BY <1>2, <2>1, <2>3 DEF RowsTyped
    <3> QED BY <1>2, <2>1, <3>1 DEF RowsTyped
  <2>5. row'[o] # NoTwin /\ born'[o] # "nobody" BY <1>1, <2>4, SeedTyped
  <2>6. bump \in Nat OBVIOUS
  <2> HIDE DEF bump
  <2>7. RowsCounted'
    <3> SUFFICES ASSUME NEW p \in Owners
                 PROVE  /\ row'[p] = NoTwin <=> born'[p] = "nobody"
                        /\ row'[p] = NoTwin => puts'[p] = 0 /\ bumps'[p] = 0
                        /\ row'[p] # NoTwin => (row'[p].text = 0 <=> puts'[p] = 0)
      BY DEF RowsCounted
    <3>1. CASE p = o
      <4>1. loop.twin.text = 0 <=> puts[o] = 0 BY <1>2, <1>3 DEF RowsCounted, SEED
      <4> QED BY <1>4, <2>4, <2>5, <3>1, <4>1
    <3>2. CASE p # o BY <2>4, <3>2 DEF RowsCounted
    <3> QED BY <3>1, <3>2
  <2>8. VersionCountsChanges'
    <3> SUFFICES ASSUME NEW p \in Owners, row'[p] # NoTwin
                 PROVE  row'[p].version + (IF born'[p] = "run" THEN 1 ELSE 0) = puts'[p] + bumps'[p]
      BY DEF VersionCountsChanges
    <3>1. CASE p = o /\ row[o] = NoTwin
      <4>1. born'[o] = "loop" /\ puts[o] = 0 /\ bumps[o] = 0 BY <1>2, <2>4, <3>1 DEF RowsCounted
      <4>2. loop.twin.version = 0 BY <1>3, <3>1 DEF SEED
      <4> QED BY <1>4, <2>4, <2>6, <3>1, <4>1, <4>2
    <3>2. CASE p = o /\ row[o] # NoTwin
      <4>1. born'[o] = born[o] BY <1>2, <2>4, <3>2 DEF RowsCounted
      <4>2. row[o].version \in Nat BY <1>2, <3>2 DEF Twin
      <4>3. row[o].version + (IF born[o] = "run" THEN 1 ELSE 0) = puts[o] + bumps[o]
        BY <1>2, <3>2 DEF VersionCountsChanges
      <4>4. row'[o].version = row[o].version + bump BY <1>3, <1>4, <2>4, <3>2
      <4> QED BY <2>3, <2>4, <2>6, <3>2, <4>1, <4>2, <4>3, <4>4
    <3>3. CASE p # o BY <2>4, <3>3 DEF VersionCountsChanges
    <3> QED BY <3>1, <3>2, <3>3
  <2>9. DraftFresh'
    <3> SUFFICES ASSUME writer.pc = "put"
                 PROVE  /\ writer.draft.maturity # "bogus"
                        /\ writer.twin = PutTwin(writer.draft, row'[writer.owner])
      BY DEF DraftFresh
    <3>1. writer.owner \in Owners BY DEF WriterTyped, WriterIdle
    <3>2. writer.owner # o BY <1>2 DEF OneWriter, LoopHolds, WriterHolds
    <3>3. row'[writer.owner] = row[writer.owner] BY <2>4, <3>1, <3>2
    <3> QED BY <3>3 DEF DraftFresh
  <2> QED BY <1>6, <1>7, <1>8, <2>2, <2>7, <2>8, <2>9
<1> QED BY <1>9, <1>10

LEMMA FidStep == ASSUME Serial, FidInv, [FidelityNext]_fidVars PROVE FidInv'
<1>1. CASE UNCHANGED fidVars
  BY <1>1 DEF fidVars, fidHistory, FidInv, RowsTyped, EventsTyped, WriterTyped, LoopTyped, RowsCounted,
              OneWriter, LoopHolds, WriterHolds, DraftFresh, LoadFresh, CurateFresh, VersionCountsChanges
<1>2. CASE \E o \in Owners : (\E d \in Drafts : Interview(o, d)) \/ \E ev \in EventPool[o] : RecordEvent(o, ev)
  BY <1>2, StepInterview, StepRecordEvent
<1>3. CASE WriterStep BY <1>3, StepReadPrev, StepWriteTwin DEF WriterStep
<1>4. CASE \E days \in Sustained : StartPass(days) BY <1>4, StepStartPass
<1>5. CASE LoopStep
  BY <1>5, StepLoadTwin, StepGradeSeat, StepSaveTwin, StepWriteScore, StepEndShadowPass DEF LoopStep
<1>6. CASE LoopDies BY <1>6, StepLoopDies
<1> QED BY <1>1, <1>2, <1>3, <1>4, <1>5, <1>6 DEF FidelityNext

LEMMA FidAlways == ASSUME Serial PROVE FidelitySpec => []FidInv
<1>1. FidelityInit => FidInv BY FidInit
<1>2. FidInv /\ [FidelityNext]_fidVars => FidInv' BY FidStep
<1> QED BY <1>1, <1>2, PTL DEF FidelitySpec

-----------------------------------------------------------------------------
(* What it means for the twins.                                             *)

\* With one writer at a time every state of the tables and of both writers is well formed,
\* and a twin without a text is one that no run has written.
THEOREM TwinsTypeCorrect == ASSUME Serial PROVE FidelitySpec => []FidelityTypeOK
<1>1. FidInv => FidelityTypeOK
  <2> SUFFICES ASSUME FidInv PROVE FidelityTypeOK OBVIOUS
  <2> USE DEF FidInv
  <2>1. \A o \in Owners : Len(events[o]) <= LogCap /\ \A i \in DOMAIN events[o] : events[o][i] \in EventPool[o]
    BY DEF EventsTyped
  <2>2. \A o \in Owners : row[o] # NoTwin => (row[o].text = 0 <=> puts[o] = 0) BY DEF RowsCounted
  <2>3. writer = WriterIdle \/ writer \in
          [pc : {"prev", "put"}, owner : Owners, draft : Drafts, base : Int, twin : Twin \cup {NoTwin}]
    BY DEF WriterTyped
  <2>4. loop \in [pc : {"idle", "load", "events", "save", "score"}, todo : Seq(Owners),
                  days : Sustained \cup {0}, twin : Twin \cup {NoTwin}, new : Twin \cup {NoTwin}]
    BY DEF LoopTyped
  <2>5. RowsTyped OBVIOUS
  <2> HIDE DEF FidInv
  <2> QED BY <2>1, <2>2, <2>3, <2>4, <2>5 DEF FidelityTypeOK, RowsTyped
<1> QED BY <1>1, FidAlways, PTL

\* With one writer at a time the version of a twin is the number of drafts written and of
\* maturity changes, less the first draft: put_twin and curate, which number the versions
\* apart, count nothing twice and nothing never, whatever gets lost or dies in between.
THEOREM VersionsAlwaysCount == ASSUME Serial PROVE FidelitySpec => []VersionCountsChanges
<1>1. FidInv => VersionCountsChanges BY DEF FidInv
<1> QED BY <1>1, FidAlways, PTL

\* A run's write replaces the row by one with the same signals, or with those of its draft.
LEMMA RunWrites ==
  ASSUME FidInv, [FidelityNext]_fidVars, NEW o \in Owners, row[o] # NoTwin, puts'[o] # puts[o]
  PROVE  row'[o].signals = IF writer.draft.brings THEN writer.draft.signals ELSE row[o].signals
<1>1. PICK out \in PostOutcomes : WriteTwin(out)
  <2>1. puts' # puts OBVIOUS
  <2> QED BY <2>1 DEF FidelityNext, WriterStep, LoopStep, Interview, ReadPrev, RecordEvent, StartPass, LoadTwin,
            GradeSeat, SaveTwin, WriteScore, EndShadowPass, LoopDies, fidVars, fidHistory
<1> USE DEF FidInv
<1>2. writer \in [pc : {"prev", "put"}, owner : Owners, draft : Drafts, base : Int, twin : Twin \cup {NoTwin}]
  BY <1>1 DEF WriterTyped, WriterIdle, WriteTwin
<1>3. /\ puts' = puts \/ (row' = [row EXCEPT ![writer.owner] = writer.twin]
                          /\ puts' = [puts EXCEPT ![writer.owner] = @ + 1])
  BY <1>1 DEF WriteTwin
<1>4. writer.owner = o /\ row' = [row EXCEPT ![o] = writer.twin] BY <1>2, <1>3 DEF RowsTyped
<1>5. row'[o] = writer.twin BY <1>4 DEF RowsTyped
<1>6. writer.draft \in Draft /\ row[o] \in Twin \cup {NoTwin} BY <1>2, FidelityConstants DEF RowsTyped
<1>7. writer.draft.maturity # "bogus" /\ writer.twin = PutTwin(writer.draft, row[o])
  BY <1>1, <1>4 DEF DraftFresh, WriteTwin
<1>8. writer.twin.signals = IF writer.draft.brings THEN writer.draft.signals ELSE row[o].signals
  BY <1>6, <1>7, PutTyped
<1> QED BY <1>5, <1>8

\* With one writer at a time a draft without signals leaves the measured ones alone (INT-8):
\* the signals put_twin read two remote calls ago are those in the table when it lands.
THEOREM SignalsAlwaysSurvive == ASSUME Serial PROVE FidelitySpec => SignalsSurvive
<1>1. FidInv /\ [FidelityNext]_fidVars =>
        [\A o \in Owners : row[o] # NoTwin /\ puts'[o] # puts[o] =>
           row'[o].signals = IF writer.draft.brings THEN writer.draft.signals ELSE row[o].signals]_fidVars
  BY RunWrites
<1> QED BY <1>1, FidAlways, PTL DEF FidelitySpec, SignalsSurvive

\* With one writer at a time the version of a twin never falls; without, the run TwinRegress
\* shows it falling.
THEOREM VersionsNeverFall == ASSUME Serial PROVE FidelitySpec => VersionNeverFalls
<1>1. ASSUME FidInv, [FidelityNext]_fidVars, NEW o \in Owners, row[o] # NoTwin
      PROVE  row'[o].version >= row[o].version
  <2> USE <1>1 DEF FidInv
  <2>1. row \in [Owners -> Twin \cup {NoTwin}] /\ row[o] \in Twin /\ row[o].version \in Nat
    BY DEF RowsTyped, Twin
  <2>2. CASE row'[o] = row[o] BY <2>1, <2>2
  <2>3. ASSUME NEW out \in PostOutcomes, WriteTwin(out), row'[o] # row[o] PROVE row'[o].version >= row[o].version
    <3>1. writer \in [pc : {"prev", "put"}, owner : Owners, draft : Drafts, base : Int, twin : Twin \cup {NoTwin}]
      BY <2>3 DEF WriterTyped, WriterIdle, WriteTwin
    <3>2. row' = row \/ row' = [row EXCEPT ![writer.owner] = writer.twin] BY <2>3 DEF WriteTwin
    <3>3. writer.owner = o /\ row'[o] = writer.twin BY <2>1, <2>3, <3>1, <3>2
    <3>4. writer.draft \in Draft /\ row[o] \in Twin \cup {NoTwin} BY <2>1, <3>1, FidelityConstants
    <3>5. writer.draft.maturity # "bogus" /\ writer.twin = PutTwin(writer.draft, row[o])
      BY <2>3, <3>3 DEF DraftFresh, WriteTwin
    <3>6. writer.twin.version = row[o].version + 1 BY <3>4, <3>5, PutTyped
    <3> QED BY <2>1, <3>3, <3>6
  <2>4. ASSUME NEW out \in PostOutcomes, SaveTwin(out), row'[o] # row[o] PROVE row'[o].version >= row[o].version
    <3>1. row' = row \/ row' = [row EXCEPT ![Head(loop.todo)] = loop.new] BY <2>4 DEF SaveTwin
    <3>2. Head(loop.todo) = o /\ row'[o] = loop.new BY <2>1, <2>4, <3>1
    <3>3. loop.pc = "save" BY <2>4 DEF SaveTwin
    <3>4. loop.twin = row[o] BY <3>2, <3>3 DEF LoadFresh
    <3>5. loop.new.version = row[o].version + (IF loop.new.maturity # loop.twin.maturity THEN 1 ELSE 0)
      BY <3>3, <3>4 DEF CurateFresh
    <3> QED BY <2>1, <3>2, <3>5
  <2>5. row'[o] # row[o] => \E out \in PostOutcomes : WriteTwin(out) \/ SaveTwin(out)
    BY DEF FidelityNext, WriterStep, LoopStep, Interview, ReadPrev, RecordEvent, StartPass, LoadTwin,
           GradeSeat, WriteScore, EndShadowPass, LoopDies, fidVars, fidHistory
  <2> QED BY <2>2, <2>3, <2>4, <2>5
<1>2. FidInv /\ [FidelityNext]_fidVars =>
        [\A o \in Owners : row[o] # NoTwin => row'[o].version >= row[o].version]_fidVars
  BY <1>1
<1> QED BY <1>2, FidAlways, PTL DEF FidelitySpec, VersionNeverFalls
==============================================================================
