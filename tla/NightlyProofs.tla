---------------------------- MODULE NightlyProofs ----------------------------
(***************************************************************************)
(* The two nightly passes that emit, for any records, verdicts, shapes and *)
(* faults.  The Vault stores only what was cleared (LandedIsCleared), keeps*)
(* out what was rejected first (RejectedStaysOut) and forgets no record it *)
(* has marked (MarkedIsStored); the flywheel's scaffolds rest on evidence  *)
(* and consent (ShapesEarned); both implement AtMostOnce.                  *)
(*                                                                         *)
(* Both invariants carry what a pass has read, each part at a moment of    *)
(* its own, to the marker it sets.  The Vault's also follows a verdict:    *)
(* what the store holds was spoken, and until it drops a row the oldest    *)
(* verdict it holds on a key is the first that was spoken, which is the    *)
(* one load_approvals keeps.                                               *)
(***************************************************************************)
EXTENDS Vault, Flywheel, RunEventsProofs, TLAPS

Row == [kind : {"memory_candidate"}, key : Keys, rec : Records]
       \cup [kind : {"human_verdict"}, key : Keys, verdict : Verdicts]

\* A human has approved the key, and the seat has recorded it.
Heard(words, k) == \E n \in 1..Len(words[k]) : words[k][n] = "approve"
IsVerdict(i, k) == log[i].kind = "human_verdict" /\ log[i].key = k
Recorded(v) == IF v = "approve" THEN "promote" ELSE "reject"

\* A recorded approval was spoken; until the store drops a row, the oldest verdict it holds
\* on a key is the first that was spoken.
LogInv ==
  /\ \A i \in 1..Len(log) : log[i].kind = "human_verdict" =>
       spoken[log[i].key] # <<>> /\ (log[i].verdict = "promote" => Heard(spoken, log[i].key))
  /\ ~trimmed => \A k \in Keys : spoken[k] # <<>> =>
       \E i \in 1..Len(log) :
         /\ IsVerdict(i, k) /\ log[i].verdict = Recorded(Head(spoken[k]))
         /\ \A j \in 1..Len(log) : IsVerdict(j, k) => j <= i

Cleared(r, said) ==
  /\ r.conf >= CONFIDENCE_FLOORS(r.category) /\ r.provenance
  /\ (IF said[r.key] # "none" THEN said[r.key] ELSE r.approval) = "promote"

\* What the pass has read is still true when it acts on it: approvals stand, a key that was
\* refused is said to be, the record in hand has cleared the gates and is not yet marked.
PassInv ==
  /\ \A k \in Keys : pass.said[k] = "promote" => Heard(spoken, k)
  /\ pass.pc \in {"gate", "mark", "emit"} /\ ~trimmed => \A k \in refused : pass.said[k] = "reject"
  /\ Busy => Cleared(Current, pass.said)
  /\ pass.pc = "mark" => Current.key \notin marks

VaultInv == TypeOK /\ LogInv /\ PassInv /\ LandedIsCleared /\ MarkedIsStored

-----------------------------------------------------------------------------
(* Operators.                                                               *)

\* load_approvals over get_run_events: a word on a key is some row's, and it is the oldest
\* row's.
LEMMA Folded ==
  ASSUME TypeOK, NEW said, said = LoadApprovals(GetRunEvents(log, "human_verdict"))
  PROVE  /\ said \in [Keys -> Verdicts]
         /\ \A k \in Keys : said[k] # "none" =>
              \E i \in 1..Len(log) : IsVerdict(i, k) /\ log[i].verdict = said[k]
         /\ \A k \in Keys, i \in 1..Len(log) :
              IsVerdict(i, k) /\ (\A j \in 1..Len(log) : IsVerdict(j, k) => j <= i) => said[k] = log[i].verdict
<1> DEFINE rows == GetRunEvents(log, "human_verdict")
<1>1. log \in Seq(Row) /\ Len(log) \in Nat BY DEF TypeOK, Row
<1>2. rows = RowsOf(log, {"human_verdict"}) BY DEF GetRunEvents
<1>3. rows \in Seq(Row) /\ Len(rows) \in Nat BY <1>1, <1>2, RowsSelected
<1>4. PICK f : Selects(f, rows, Len(log), log, {"human_verdict"}) BY <1>1, <1>2, RowsSelected
<1>5. \A m \in 1..Len(rows) : /\ f[m] \in 1..Len(log) /\ rows[m] = log[f[m]] /\ rows[m].kind = "human_verdict"
                              /\ rows[m] \in Row
  BY <1>1, <1>3, <1>4 DEF Selects
<1> DEFINE about(k) == {i \in 1..Len(rows) : rows[i].key = k}
           oldest(k) == CHOOSE i \in about(k) : \A j \in about(k) : j <= i
<1>6. \A k \in Keys : said[k] = IF about(k) = {} THEN "none" ELSE rows[oldest(k)].verdict
  BY DEF LoadApprovals
<1>7. said = [k \in Keys |-> said[k]] BY DEF LoadApprovals
<1> HIDE DEF rows
<1>8. ASSUME NEW k \in Keys, about(k) # {}
      PROVE  oldest(k) \in about(k) /\ \A j \in about(k) : j <= oldest(k)
  <2>1. about(k) \subseteq 1..Len(rows) OBVIOUS
  <2>2. \E i \in about(k) : \A j \in about(k) : j <= i BY <1>3, <1>8, <2>1, LastIn
  <2> HIDE DEF about
  <2> QED BY <2>2
<1> HIDE DEF oldest
<1>9. ASSUME NEW k \in Keys, said[k] # "none"
      PROVE  \E i \in 1..Len(log) : IsVerdict(i, k) /\ log[i].verdict = said[k]
  <2>1. about(k) # {} /\ said[k] = rows[oldest(k)].verdict BY <1>6, <1>9
  <2>2. oldest(k) \in about(k) BY <1>8, <2>1
  <2>3. oldest(k) \in 1..Len(rows) /\ rows[oldest(k)].key = k BY <2>2
  <2>4. /\ f[oldest(k)] \in 1..Len(log) /\ rows[oldest(k)] = log[f[oldest(k)]]
        /\ rows[oldest(k)].kind = "human_verdict"
    BY <1>5, <2>3
  <2>5. IsVerdict(f[oldest(k)], k) /\ log[f[oldest(k)]].verdict = said[k]
    BY <2>1, <2>3, <2>4 DEF IsVerdict
  <2> QED BY <2>4, <2>5
<1>10. ASSUME NEW k \in Keys PROVE said[k] \in Verdicts
  <2>1. CASE said[k] = "none" BY <2>1 DEF Verdicts
  <2>2. CASE said[k] # "none"
    <3>1. PICK i \in 1..Len(log) : IsVerdict(i, k) /\ log[i].verdict = said[k] BY <1>9, <2>2
    <3>2. log[i] \in Row BY <1>1
    <3>3. log[i] \in [kind : {"human_verdict"}, key : Keys, verdict : Verdicts]
      BY <3>1, <3>2 DEF Row, IsVerdict
    <3> QED BY <3>1, <3>3
  <2> QED BY <2>1, <2>2
<1>11. ASSUME NEW k \in Keys, NEW i \in 1..Len(log), IsVerdict(i, k),
              \A j \in 1..Len(log) : IsVerdict(j, k) => j <= i
       PROVE  said[k] = log[i].verdict
  <2>1. PICK m \in 1..Len(rows) : f[m] = i BY <1>4, <1>11 DEF Selects, IsVerdict
  <2>2. rows[m].key = k BY <1>5, <1>11, <2>1 DEF IsVerdict
  <2>3. m \in about(k) BY <2>2
  <2>4. oldest(k) \in about(k) /\ m <= oldest(k) BY <1>8, <2>3
  <2>5. oldest(k) \in 1..Len(rows) /\ rows[oldest(k)].key = k BY <2>4
  <2>6. IsVerdict(f[oldest(k)], k) /\ f[oldest(k)] \in 1..Len(log) BY <1>5, <2>5 DEF IsVerdict
  <2>7. f[oldest(k)] <= f[m] BY <1>11, <2>1, <2>6
  <2>8. ~(m < oldest(k))
    <3>1. m < oldest(k) => f[m] < f[oldest(k)] BY <1>4, <2>5 DEF Selects
    <3>2. f[m] \in 1..Len(log) BY <2>1
    <3> QED BY <1>1, <2>6, <2>7, <3>1, <3>2
  <2>9. oldest(k) = m BY <1>3, <2>4, <2>5, <2>8
  <2>10. said[k] = rows[m].verdict BY <1>6, <2>3, <2>9
  <2> QED BY <1>5, <2>1, <2>10
<1>12. said \in [Keys -> Verdicts] BY <1>7, <1>10
<1> QED BY <1>9, <1>11, <1>12

\* The candidates a pass reads are records.
LEMMA CandidatesTyped ==
  ASSUME TypeOK, NEW rows, rows = GetRunEvents(log, "memory_candidate")
  PROVE  [i \in DOMAIN rows |-> rows[i].rec] \in Seq(Records)
<1>1. log \in Seq(Row) /\ Len(log) \in Nat BY DEF TypeOK, Row
<1>2. rows = RowsOf(log, {"memory_candidate"}) BY DEF GetRunEvents
<1>3. rows \in Seq(Row) /\ Len(rows) \in Nat BY <1>1, <1>2, RowsSelected
<1>4. PICK f : Selects(f, rows, Len(log), log, {"memory_candidate"}) BY <1>1, <1>2, RowsSelected
<1>5. ASSUME NEW i \in 1..Len(rows) PROVE rows[i].rec \in Records
  <2>1. rows[i] \in Row /\ rows[i].kind = "memory_candidate" BY <1>3, <1>4 DEF Selects
  <2>2. rows[i] \in [kind : {"memory_candidate"}, key : Keys, rec : Records] BY <2>1 DEF Row
  <2> QED BY <2>2
<1>6. DOMAIN rows = 1..Len(rows) BY <1>3
<1> QED BY <1>3, <1>5, <1>6

LEMMA FloorsTyped == \A c : CONFIDENCE_FLOORS(c) \in Nat
BY DEF CONFIDENCE_FLOORS

LEMMA RecordTyped ==
  ASSUME NEW r \in Records
  PROVE  /\ r.key \in Keys /\ r.ver \in Nat /\ r.conf \in 0..10 /\ r.provenance \in BOOLEAN
         /\ r.approval \in {"none", "promote", "reject"}
         /\ Redact(r).key = r.key /\ Redact(r).conf = r.conf /\ Redact(r).category = r.category
         /\ Redact(r).provenance = r.provenance /\ Redact(r).approval = r.approval /\ Redact(r).pii = {}
<1>1. r \in Record BY VaultConstants
<1> QED BY <1>1 DEF Record, Redact

\* promote lets through what has cleared every gate, and no marked key.
LEMMA Gates ==
  ASSUME NEW r \in Records, NEW said, Promote(r, r.key \in marks, said) = "promote"
  PROVE  r.key \notin marks /\ Cleared(r, said)
<1>1. r.key \notin marks BY DEF Promote
<1>2. ~(r.conf < CONFIDENCE_FLOORS(r.category)) BY <1>1 DEF Promote
<1>3. r.provenance /\ (IF said[r.key] # "none" THEN said[r.key] ELSE r.approval) = "promote"
  BY <1>1, <1>2 DEF Promote
<1> QED BY <1>1, <1>2, <1>3, RecordTyped, FloorsTyped DEF Cleared

-----------------------------------------------------------------------------
(* The types, by who writes the variables.                                  *)

StoreOK == log \in Seq(Row) /\ Len(log) <= StoreCap /\ proposed \subseteq Records /\ trimmed \in BOOLEAN
PassRec == [pc : {"idle", "approvals", "gate", "mark", "emit"}, work : Seq(Records),
            said : [Keys -> Verdicts], landed : SUBSET Records]
PassOK ==
  /\ pass \in PassRec /\ (Busy => pass.work # <<>>)
  /\ forgone \subseteq Keys /\ refused \subseteq Keys
DurableOK ==
  /\ marks \subseteq Keys /\ closet \subseteq {Redact(r) : r \in Records} /\ landings \in [Keys -> Nat]
  /\ receipts \subseteq [key : Keys, ver : {r.ver : r \in Records}, at : Days]
ClientOK ==
  /\ seatless \subseteq Keys /\ page \in [Keys -> {"none", "approve", "reject"}]
  /\ sending \subseteq [n : 0..MaxDecisions, key : Keys, verdict : {"approve", "reject"}, open : BOOLEAN]
  /\ room \in Seq([key : Keys, verdict : {"approve", "reject"}])
  /\ decisions \in 0..MaxDecisions /\ spoken \in [Keys -> Seq({"approve", "reject"})]
CountOK == rollbacks \in 0..MaxRollbacks /\ faults \in 0..MaxFaults

LEMMA TypeParts == TypeOK <=> StoreOK /\ PassOK /\ DurableOK /\ ClientOK /\ CountOK
BY DEF TypeOK, StoreOK, PassOK, PassRec, DurableOK, ClientOK, CountOK, Row

LEMMA TypeAfter == ASSUME StoreOK', PassOK', DurableOK', ClientOK', CountOK' PROVE TypeOK'
<1>1. (TypeOK <=> StoreOK /\ PassOK /\ DurableOK /\ ClientOK /\ CountOK)' BY TypeParts, PTL
<1> QED BY <1>1

LEMMA KeepStore == ASSUME StoreOK, UNCHANGED <<log, proposed, trimmed>> PROVE StoreOK'
BY DEF StoreOK, Row
LEMMA KeepPass == ASSUME PassOK, UNCHANGED <<pass, forgone, refused>> PROVE PassOK'
BY DEF PassOK, PassRec, Busy
LEMMA KeepDurable == ASSUME DurableOK, UNCHANGED <<marks, closet, landings, receipts>> PROVE DurableOK'
BY DEF DurableOK
LEMMA KeepClient == ASSUME ClientOK, UNCHANGED <<clientVars, decisions, spoken>> PROVE ClientOK'
BY DEF ClientOK, clientVars
LEMMA KeepCount == ASSUME CountOK, UNCHANGED rollbacks, UNCHANGED faults PROVE CountOK'
BY DEF CountOK

LEMMA FaultCounted == ASSUME CountOK, NEW out, Fault(out) PROVE faults' \in 0..MaxFaults
<1>1. MaxFaults \in Nat /\ faults \in 0..MaxFaults BY VaultConstants DEF CountOK
<1>2. CASE Raises(out) BY <1>1, <1>2 DEF Fault
<1>3. CASE ~Raises(out) BY <1>1, <1>3 DEF Fault
<1> QED BY <1>2, <1>3

\* A row is appended: what was there moves down by one, and what has not been trimmed
\* before may be trimmed now.
LEMMA PutStep ==
  ASSUME StoreOK, NEW ev \in Row, Put(ev)
  PROVE  /\ log' \in Seq(Row) /\ Len(log') <= StoreCap /\ Len(log') >= 1 /\ trimmed' \in BOOLEAN
         /\ log'[1] = ev /\ \A i \in 2..Len(log') : i - 1 \in 1..Len(log) /\ log'[i] = log[i - 1]
         /\ (trimmed => trimmed') /\ (~trimmed' => ~trimmed /\ Len(log') = Len(log) + 1)
<1> DEFINE new == PutRunEvent(log, ev, StoreCap)
<1>1. StoreCap \in Nat \ {0} /\ log \in Seq(Row) /\ Len(log) <= StoreCap /\ Len(log) \in Nat /\ trimmed \in BOOLEAN
  BY VaultConstants DEF StoreOK
<1>2. log' = new /\ trimmed' = (trimmed \/ Len(log) = StoreCap) BY DEF Put
<1>3. /\ new \in Seq(Row) /\ Len(new) <= StoreCap /\ Len(new) >= 1 /\ new[1] = ev
      /\ Len(new) = IF Len(log) < StoreCap THEN Len(log) + 1 ELSE Len(log)
      /\ \A i \in 2..Len(new) : new[i] = log[i - 1]
  BY <1>1, PutKept
<1>4. Len(new) \in Nat BY <1>3
<1> HIDE DEF new
<1>5. \A i \in 2..Len(log') : i - 1 \in 1..Len(log) /\ log'[i] = log[i - 1]
  BY <1>1, <1>2, <1>3, <1>4
<1>6. trimmed' \in BOOLEAN /\ (trimmed => trimmed') BY <1>1, <1>2
<1>7. ~trimmed' => ~trimmed /\ Len(log) # StoreCap BY <1>1, <1>2
<1>8. ~trimmed' => Len(log') = Len(log) + 1 BY <1>1, <1>2, <1>3, <1>7
<1> QED BY <1>2, <1>3, <1>5, <1>6, <1>7, <1>8

\* A verdict that was heard stays heard.
LEMMA SpokeStays ==
  ASSUME ClientOK, UNCHANGED spoken \/ \E k \in Keys, v \in {"approve", "reject"} :
                                          spoken' = [spoken EXCEPT ![k] = Append(@, v)]
  PROVE  \A k \in Keys : /\ Heard(spoken, k) => Heard(spoken', k)
                         /\ spoken[k] # <<>> => spoken'[k] # <<>> /\ Head(spoken'[k]) = Head(spoken[k])
<1>1. CASE UNCHANGED spoken BY <1>1 DEF Heard
<1>2. ASSUME NEW q \in Keys, NEW v \in {"approve", "reject"}, spoken' = [spoken EXCEPT ![q] = Append(@, v)],
             NEW k \in Keys
      PROVE  /\ Heard(spoken, k) => Heard(spoken', k)
             /\ spoken[k] # <<>> => spoken'[k] # <<>> /\ Head(spoken'[k]) = Head(spoken[k])
  <2>1. spoken[k] \in Seq({"approve", "reject"}) /\ spoken \in [Keys -> Seq({"approve", "reject"})] BY DEF ClientOK
  <2>2. CASE k # q
    <3>1. spoken'[k] = spoken[k] BY <1>2, <2>1, <2>2
    <3> QED BY <3>1 DEF Heard
  <2>3. CASE k = q
    <3>1. spoken'[k] = Append(spoken[k], v) BY <1>2, <2>1, <2>3
    <3>2. /\ Len(spoken'[k]) = Len(spoken[k]) + 1 /\ Len(spoken[k]) \in Nat
          /\ \A n \in 1..Len(spoken[k]) : spoken'[k][n] = spoken[k][n]
      BY <2>1, <3>1
    <3>3. Heard(spoken, k) => Heard(spoken', k)
      <4> SUFFICES ASSUME Heard(spoken, k) PROVE Heard(spoken', k) OBVIOUS
      <4>1. PICK n \in 1..Len(spoken[k]) : spoken[k][n] = "approve" BY DEF Heard
      <4>2. n \in 1..Len(spoken'[k]) /\ spoken'[k][n] = "approve" BY <3>2, <4>1
      <4> QED BY <4>2 DEF Heard
    <3>4. spoken[k] # <<>> => spoken'[k] # <<>> /\ Head(spoken'[k]) = Head(spoken[k])
      BY <2>1, <3>1
    <3> QED BY <3>3, <3>4
  <2> QED BY <2>2, <2>3
<1> QED BY <1>1, <1>2

-----------------------------------------------------------------------------
(* What a step of somebody else leaves true.                                *)

LEMMA LogStays == ASSUME LogInv, UNCHANGED <<log, trimmed, spoken>> PROVE LogInv'
BY DEF LogInv, Heard, IsVerdict

LEMMA PassStays ==
  ASSUME PassInv, \A k \in Keys : Heard(spoken, k) => Heard(spoken', k), marks' \subseteq marks, trimmed => trimmed',
         UNCHANGED <<pass, refused>>
  PROVE  PassInv'
BY DEF PassInv, Busy, Current

LEMMA LandedStays ==
  ASSUME TypeOK, LandedIsCleared, \A k \in Keys : Heard(spoken, k) => Heard(spoken', k), UNCHANGED closet,
         spoken' \in [Keys -> Seq({"approve", "reject"})]
  PROVE  LandedIsCleared'
<1> SUFFICES ASSUME NEW c \in closet PROVE
      /\ c.pii = {} /\ c.provenance /\ c.conf >= CONFIDENCE_FLOORS(c.category)
      /\ c.approval = "promote" \/ \E i \in DOMAIN spoken'[c.key] : spoken'[c.key][i] = "approve"
  BY DEF LandedIsCleared
<1>1. PICK r \in Records : c = Redact(r) BY DEF TypeOK
<1>2. c.key \in Keys BY <1>1, RecordTyped
<1>3. /\ spoken[c.key] \in Seq({"approve", "reject"}) /\ spoken'[c.key] \in Seq({"approve", "reject"})
  BY <1>2 DEF TypeOK
<1>4. DOMAIN spoken[c.key] = 1..Len(spoken[c.key]) /\ DOMAIN spoken'[c.key] = 1..Len(spoken'[c.key])
  BY <1>3
<1>5. Heard(spoken, c.key) => Heard(spoken', c.key) BY <1>2
<1> QED BY <1>4, <1>5 DEF LandedIsCleared, Heard

LEMMA MarkedStays ==
  ASSUME MarkedIsStored, marks' \subseteq marks, UNCHANGED <<closet, pass, forgone>>
  PROVE  MarkedIsStored'
BY DEF MarkedIsStored, Current

-----------------------------------------------------------------------------
(* The panel and the way of a verdict.                                      *)

\* A step of the panel: the store, the pass and the memory are as they were.
LEMMA ClientStep ==
  ASSUME VaultInv, ClientOK', CountOK', UNCHANGED <<log, proposed, marks, closet, pass, receipts, landings,
                                                   spoken, trimmed, forgone, refused>>
  PROVE  VaultInv'
<1>1. StoreOK /\ PassOK /\ DurableOK /\ ClientOK BY TypeParts DEF VaultInv
<1>2. TypeOK' BY <1>1, KeepStore, KeepPass, KeepDurable, TypeAfter
<1>3. \A k \in Keys : Heard(spoken, k) => Heard(spoken', k) BY DEF Heard
<1>4. spoken' \in [Keys -> Seq({"approve", "reject"})] BY <1>1 DEF ClientOK
<1> QED BY <1>2, <1>3, <1>4, LogStays, PassStays, LandedStays, MarkedStays DEF VaultInv

LEMMA ClickInv ==
  ASSUME VaultInv, NEW k \in Keys, NEW v \in {"approve", "reject"}, ClickVerdict(k, v) PROVE VaultInv'
<1>1. ClientOK /\ CountOK /\ MaxDecisions \in Nat BY TypeParts, VaultConstants DEF VaultInv
<1>2. decisions \in 0..MaxDecisions /\ decisions < MaxDecisions /\ decisions' = decisions + 1
  BY <1>1 DEF ClickVerdict, ClientOK
<1>3. [n |-> decisions, key |-> k, verdict |-> v, open |-> TRUE]
        \in [n : 0..MaxDecisions, key : Keys, verdict : {"approve", "reject"}, open : BOOLEAN]
  BY <1>2
<1>4. ClientOK'
  <2>1. decisions' \in 0..MaxDecisions BY <1>1, <1>2
  <2>2. page' \in [Keys -> {"none", "approve", "reject"}] BY <1>1 DEF ClickVerdict, ClientOK
  <2> QED BY <1>1, <1>3, <2>1, <2>2 DEF ClickVerdict, ClientOK
<1>5. CountOK' BY <1>1, KeepCount DEF ClickVerdict
<1> QED BY <1>4, <1>5, ClientStep DEF ClickVerdict

LEMMA SentInv ==
  ASSUME VaultInv, NEW s \in sending, NEW out \in PostOutcomes, Sent(s, out) PROVE VaultInv'
<1>1. ClientOK /\ CountOK BY TypeParts DEF VaultInv
<1>2. s \in [n : 0..MaxDecisions, key : Keys, verdict : {"approve", "reject"}, open : BOOLEAN]
  BY <1>1 DEF ClientOK
<1>3. [key |-> s.key, verdict |-> s.verdict] \in [key : Keys, verdict : {"approve", "reject"}] /\ s.key \in Keys
  BY <1>2
<1>4. room' \in Seq([key : Keys, verdict : {"approve", "reject"}])
  <2>1. room \in Seq([key : Keys, verdict : {"approve", "reject"}]) BY <1>1 DEF ClientOK
  <2>2. room' = Append(room, [key |-> s.key, verdict |-> s.verdict]) \/ room' = room BY DEF Sent
  <2>3. Append(room, [key |-> s.key, verdict |-> s.verdict]) \in Seq([key : Keys, verdict : {"approve", "reject"}])
    BY <1>3, <2>1
  <2> QED BY <2>1, <2>2, <2>3
<1>5. page' \in [Keys -> {"none", "approve", "reject"}] BY <1>1, <1>3 DEF Sent, ClientOK
<1>6. ClientOK' BY <1>1, <1>4, <1>5 DEF Sent, ClientOK
<1>7. CountOK' BY <1>1, FaultCounted DEF Sent, CountOK
<1> QED BY <1>6, <1>7, ClientStep DEF Sent

LEMMA ReloadInv == ASSUME VaultInv, Reload PROVE VaultInv'
<1>1. ClientOK /\ CountOK BY TypeParts DEF VaultInv
<1>2. sending' \subseteq [n : 0..MaxDecisions, key : Keys, verdict : {"approve", "reject"}, open : BOOLEAN]
  <2>1. ASSUME NEW s \in sending
        PROVE  [s EXCEPT !.open = FALSE]
                 \in [n : 0..MaxDecisions, key : Keys, verdict : {"approve", "reject"}, open : BOOLEAN]
    BY <1>1 DEF ClientOK
  <2> QED BY <2>1 DEF Reload
<1>3. ClientOK' BY <1>1, <1>2 DEF Reload, ClientOK, history
<1>4. CountOK' BY <1>1, KeepCount DEF Reload, history
<1> QED BY <1>3, <1>4, ClientStep DEF Reload, history

\* A candidate is no verdict: the verdicts move down together.
LEMMA ProposeInv == ASSUME VaultInv, NEW r \in Records, ProposeRecord(r) PROVE VaultInv'
<1> DEFINE ev == [kind |-> "memory_candidate", key |-> r.key, rec |-> r]
<1>1. StoreOK /\ PassOK /\ DurableOK /\ ClientOK /\ CountOK BY TypeParts DEF VaultInv
<1>2. ev \in Row BY RecordTyped DEF Row
<1>3. Put(ev) /\ UNCHANGED spoken BY DEF ProposeRecord
<1>4. /\ log' \in Seq(Row) /\ Len(log') <= StoreCap /\ Len(log') >= 1 /\ trimmed' \in BOOLEAN
      /\ log'[1] = ev /\ \A i \in 2..Len(log') : i - 1 \in 1..Len(log) /\ log'[i] = log[i - 1]
      /\ (trimmed => trimmed') /\ (~trimmed' => ~trimmed /\ Len(log') = Len(log) + 1)
  BY <1>1, <1>2, <1>3, PutStep
<1>5. Len(log) \in Nat /\ Len(log') \in Nat /\ log \in Seq(Row) BY <1>1, <1>4 DEF StoreOK
<1>6. StoreOK' BY <1>1, <1>4 DEF StoreOK, ProposeRecord, Row
<1>7. TypeOK' BY <1>1, <1>6, KeepPass, KeepDurable, KeepClient, KeepCount, TypeAfter DEF ProposeRecord
<1>8. \A k \in Keys : Heard(spoken, k) => Heard(spoken', k) BY <1>3 DEF Heard
<1>9. LogInv'
  <2>1. ASSUME NEW i \in 1..Len(log'), log'[i].kind = "human_verdict"
        PROVE  spoken'[log'[i].key] # <<>> /\ (log'[i].verdict = "promote" => Heard(spoken', log'[i].key))
    <3>1. i # 1 BY <1>4, <2>1
    <3>2. i - 1 \in 1..Len(log) /\ log'[i] = log[i - 1] BY <1>4, <1>5, <3>1
    <3>3. spoken[log[i - 1].key] # <<>> /\ (log[i - 1].verdict = "promote" => Heard(spoken, log[i - 1].key)) BY <2>1, <3>2 DEF VaultInv, LogInv
    <3> QED BY <1>3, <3>2, <3>3 DEF Heard
  <2>2. ASSUME ~trimmed', NEW k \in Keys, spoken'[k] # <<>>
        PROVE  \E i \in 1..Len(log') :
                 /\ IsVerdict(i, k)' /\ log'[i].verdict = Recorded(Head(spoken'[k]))
                 /\ \A j \in 1..Len(log') : IsVerdict(j, k)' => j <= i
    <3>1. PICK i \in 1..Len(log) : /\ IsVerdict(i, k) /\ log[i].verdict = Recorded(Head(spoken[k]))
                                   /\ \A j \in 1..Len(log) : IsVerdict(j, k) => j <= i
      BY <1>3, <1>4, <2>2 DEF VaultInv, LogInv
    <3>2. i + 1 \in 2..Len(log') /\ log'[i + 1] = log[i]
      <4>1. i + 1 \in 2..Len(log') /\ (i + 1) - 1 = i BY <1>4, <1>5, <2>2
      <4>2. log'[i + 1] = log[(i + 1) - 1] BY <1>4, <4>1
      <4> QED BY <4>1, <4>2
    <3>3. IsVerdict(i + 1, k)' /\ log'[i + 1].verdict = Recorded(Head(spoken'[k]))
      BY <1>3, <3>1, <3>2 DEF IsVerdict
    <3>4. ASSUME NEW j \in 1..Len(log'), IsVerdict(j, k)' PROVE j <= i + 1
      <4>1. j # 1 BY <1>4, <3>4 DEF IsVerdict
      <4>2. j - 1 \in 1..Len(log) /\ log'[j] = log[j - 1] BY <1>4, <1>5, <4>1
      <4>3. j - 1 <= i BY <3>1, <3>4, <4>2 DEF IsVerdict
      <4> QED BY <1>5, <4>2, <4>3
    <3> QED BY <1>5, <3>2, <3>3, <3>4
  <2> QED BY <2>1, <2>2 DEF LogInv
<1>10. PassInv' BY <1>4, <1>8, PassStays DEF ProposeRecord, VaultInv
<1>11. LandedIsCleared' BY <1>1, <1>3, <1>8, LandedStays DEF ProposeRecord, VaultInv, ClientOK
<1>12. MarkedIsStored' BY MarkedStays DEF ProposeRecord, VaultInv
<1> QED BY <1>7, <1>9, <1>10, <1>11, <1>12 DEF VaultInv

\* A verdict reaches the store: it becomes the newest, and the oldest one unless there was one.
LEMMA RecordedInv ==
  ASSUME VaultInv, NEW k \in Keys, NEW v \in {"approve", "reject"},
         Put([kind |-> "human_verdict", key |-> k, verdict |-> Recorded(v)]),
         spoken' = [spoken EXCEPT ![k] = Append(@, v)], UNCHANGED proposed
  PROVE  StoreOK' /\ LogInv' /\ (trimmed => trimmed') /\ \A q \in Keys : Heard(spoken, q) => Heard(spoken', q)
<1> DEFINE ev == [kind |-> "human_verdict", key |-> k, verdict |-> Recorded(v)]
<1>1. StoreOK /\ ClientOK BY TypeParts DEF VaultInv
<1>2. ev \in Row /\ (ev.verdict = "promote" => v = "approve") BY DEF Row, Recorded, Verdicts
<1>3. /\ log' \in Seq(Row) /\ Len(log') <= StoreCap /\ Len(log') >= 1 /\ trimmed' \in BOOLEAN
      /\ log'[1] = ev /\ \A i \in 2..Len(log') : i - 1 \in 1..Len(log) /\ log'[i] = log[i - 1]
      /\ (trimmed => trimmed') /\ (~trimmed' => ~trimmed /\ Len(log') = Len(log) + 1)
  BY <1>1, <1>2, PutStep
<1>4. Len(log) \in Nat /\ Len(log') \in Nat /\ log \in Seq(Row) BY <1>1, <1>3 DEF StoreOK
<1>5. StoreOK' BY <1>1, <1>3 DEF StoreOK, Row
<1>6. \A q \in Keys : /\ Heard(spoken, q) => Heard(spoken', q)
                      /\ spoken[q] # <<>> => spoken'[q] # <<>> /\ Head(spoken'[q]) = Head(spoken[q])
  BY <1>1, SpokeStays
<1>7. /\ spoken[k] \in Seq({"approve", "reject"}) /\ spoken'[k] = Append(spoken[k], v)
      /\ \A q \in Keys : q # k => spoken'[q] = spoken[q]
  BY <1>1 DEF ClientOK
<1>8. v = "approve" => Heard(spoken', k)
  <2>1. Len(spoken'[k]) \in 1..Len(spoken'[k]) /\ spoken'[k][Len(spoken'[k])] = v BY <1>7
  <2> QED BY <2>1 DEF Heard
<1>9. ASSUME NEW i \in 1..Len(log'), log'[i].kind = "human_verdict"
      PROVE  spoken'[log'[i].key] # <<>> /\ (log'[i].verdict = "promote" => Heard(spoken', log'[i].key))
  <2>1. CASE i = 1
    <3>1. log'[i].key = k /\ log'[i].verdict = Recorded(v) BY <1>3, <2>1
    <3>2. spoken'[k] # <<>> BY <1>7
    <3> QED BY <1>2, <1>8, <3>1, <3>2
  <2>2. CASE i # 1
    <3>1. i - 1 \in 1..Len(log) /\ log'[i] = log[i - 1] BY <1>3, <1>4, <2>2
    <3>2. spoken[log[i - 1].key] # <<>> /\ (log[i - 1].verdict = "promote" => Heard(spoken, log[i - 1].key)) BY <1>9, <3>1 DEF VaultInv, LogInv
    <3>3. log[i - 1] \in Row BY <1>4, <3>1
    <3>4. log[i - 1].key \in Keys BY <3>3 DEF Row
    <3> QED BY <1>6, <3>1, <3>2, <3>4
  <2> QED BY <2>1, <2>2
<1>10. ASSUME ~trimmed', NEW q \in Keys, spoken'[q] # <<>>
       PROVE  \E i \in 1..Len(log') :
                /\ IsVerdict(i, q)' /\ log'[i].verdict = Recorded(Head(spoken'[q]))
                /\ \A j \in 1..Len(log') : IsVerdict(j, q)' => j <= i
  <2>1. CASE spoken[q] # <<>>
    <3>1. PICK i \in 1..Len(log) : /\ IsVerdict(i, q) /\ log[i].verdict = Recorded(Head(spoken[q]))
                                   /\ \A j \in 1..Len(log) : IsVerdict(j, q) => j <= i
      BY <1>3, <1>10, <2>1 DEF VaultInv, LogInv
    <3>2. i + 1 \in 2..Len(log') /\ log'[i + 1] = log[i]
      <4>1. i + 1 \in 2..Len(log') /\ (i + 1) - 1 = i BY <1>3, <1>4, <1>10
      <4>2. log'[i + 1] = log[(i + 1) - 1] BY <1>3, <4>1
      <4> QED BY <4>1, <4>2
    <3>3. IsVerdict(i + 1, q)' /\ log'[i + 1].verdict = Recorded(Head(spoken'[q]))
      BY <1>6, <2>1, <3>1, <3>2 DEF IsVerdict
    <3>4. ASSUME NEW j \in 1..Len(log'), IsVerdict(j, q)' PROVE j <= i + 1
      <4>1. CASE j = 1 BY <1>4, <3>1, <4>1
      <4>2. CASE j # 1
        <5>1. j - 1 \in 1..Len(log) /\ log'[j] = log[j - 1] BY <1>3, <1>4, <4>2
        <5>2. j - 1 <= i BY <3>1, <3>4, <5>1 DEF IsVerdict
        <5> QED BY <1>4, <5>1, <5>2
      <4> QED BY <4>1, <4>2
    <3> QED BY <1>4, <3>2, <3>3, <3>4
  <2>2. CASE spoken[q] = <<>>
    <3>1. q = k BY <1>7, <1>10, <2>2
    <3>2. Head(spoken'[q]) = v BY <1>7, <2>2, <3>1
    <3>3. IsVerdict(1, q)' /\ log'[1].verdict = Recorded(Head(spoken'[q])) BY <1>3, <3>1, <3>2 DEF IsVerdict
    <3>4. ASSUME NEW j \in 1..Len(log'), IsVerdict(j, q)', j # 1 PROVE FALSE
      <4>1. j - 1 \in 1..Len(log) /\ log'[j] = log[j - 1] BY <1>3, <1>4, <3>4
      <4>2. IsVerdict(j - 1, q) BY <3>4, <4>1 DEF IsVerdict
      <4> QED BY <2>2, <4>1, <4>2 DEF VaultInv, LogInv, IsVerdict
    <3> QED BY <1>3, <1>4, <3>3, <3>4
  <2> QED BY <2>1, <2>2
<1> QED BY <1>3, <1>5, <1>6, <1>9, <1>10 DEF LogInv

LEMMA RecordVerdictInv == ASSUME VaultInv, NEW out \in PostOutcomes, RecordVerdict(out) PROVE VaultInv'
<1> DEFINE v == Head(room)
           Word == [key : Keys, verdict : {"approve", "reject"}]
<1>1. StoreOK /\ PassOK /\ DurableOK /\ ClientOK /\ CountOK BY TypeParts DEF VaultInv
<1>2. room \in Seq(Word) /\ room # <<>> BY <1>1 DEF RecordVerdict, ClientOK
<1>3. v \in Word /\ Tail(room) \in Seq(Word)
  <2> HIDE DEF Word
  <2> QED BY <1>2
<1>4. v.key \in Keys /\ v.verdict \in {"approve", "reject"} BY <1>3
<1>5. /\ room' \in {room, Tail(room)}
      /\ UNCHANGED <<seatless, proposed, marks, closet, pass, receipts, page, sending, decisions, landings,
                     rollbacks, forgone, refused>>
  BY DEF RecordVerdict
<1>6. CountOK' BY <1>1, <1>5, FaultCounted DEF RecordVerdict, CountOK
<1>7. CASE UNCHANGED <<log, trimmed, spoken>>
  <2>1. ClientOK' BY <1>1, <1>2, <1>3, <1>5, <1>7 DEF ClientOK
  <2> QED BY <1>5, <1>6, <1>7, <2>1, ClientStep
<1>8. CASE /\ Put([kind |-> "human_verdict", key |-> v.key, verdict |-> Recorded(v.verdict)])
           /\ spoken' = [spoken EXCEPT ![v.key] = Append(@, v.verdict)]
  <2>1. StoreOK' /\ LogInv' /\ (trimmed => trimmed') /\ \A q \in Keys : Heard(spoken, q) => Heard(spoken', q)
    <3> HIDE DEF v
    <3> QED BY <1>4, <1>5, <1>8, RecordedInv
  <2>2. spoken' \in [Keys -> Seq({"approve", "reject"})]
    <3> HIDE DEF v
    <3>1. spoken[v.key] \in Seq({"approve", "reject"}) BY <1>1, <1>4 DEF ClientOK
    <3>2. Append(spoken[v.key], v.verdict) \in Seq({"approve", "reject"}) BY <1>4, <3>1
    <3> QED BY <1>1, <1>8, <3>2 DEF ClientOK
  <2>3. ClientOK' BY <1>1, <1>2, <1>3, <1>5, <2>2 DEF ClientOK
  <2>4. TypeOK' BY <1>1, <1>5, <1>6, <2>1, <2>3, KeepPass, KeepDurable, TypeAfter
  <2>5. PassInv' BY <1>5, <2>1, PassStays DEF VaultInv
  <2>6. LandedIsCleared' BY <1>5, <2>1, <2>2, LandedStays DEF VaultInv
  <2>7. MarkedIsStored' BY <1>5, MarkedStays DEF VaultInv
  <2> QED BY <2>1, <2>4, <2>5, <2>6, <2>7 DEF VaultInv
<1> QED BY <1>7, <1>8 DEF RecordVerdict, Recorded

-----------------------------------------------------------------------------
(* The pass.                                                                *)

LEMMA PassTyped ==
  ASSUME PassOK
  PROVE  /\ pass.pc \in {"idle", "approvals", "gate", "mark", "emit"} /\ pass.work \in Seq(Records)
         /\ pass.said \in [Keys -> Verdicts] /\ pass.landed \subseteq Records
         /\ pass.work # <<>> => Head(pass.work) \in Records /\ Tail(pass.work) \in Seq(Records)
<1>1. pass.work \in Seq(Records) BY DEF PassOK, PassRec
<1>2. pass.work # <<>> => Head(pass.work) \in Records /\ Tail(pass.work) \in Seq(Records) BY <1>1
<1> QED BY <1>1, <1>2 DEF PassOK, PassRec

LEMMA IdleTyped ==
  /\ Idle \in PassRec /\ Idle.pc = "idle" /\ Idle.work = <<>> /\ Idle.landed = {}
  /\ \A k \in Keys : Idle.said[k] = "none"
<1>1. Idle.work \in Seq(Records) BY DEF Idle
<1> QED BY <1>1 DEF Idle, PassRec, Verdicts

\* A step of the pass that stores and marks nothing.
LEMMA PassOnly ==
  ASSUME VaultInv, PassOK', PassInv', CountOK', forgone \subseteq forgone',
         \A k : (pass.pc = "emit" /\ Current.key = k) =>
                  (pass.pc = "emit" /\ Current.key = k)' \/ k \in forgone',
         UNCHANGED <<log, proposed, trimmed, marks, closet, landings, clientVars, decisions, spoken>>,
         DurableOK'
  PROVE  VaultInv'
<1>1. StoreOK /\ ClientOK BY TypeParts DEF VaultInv
<1>2. TypeOK' BY <1>1, KeepStore, KeepClient, TypeAfter
<1>3. \A k \in Keys : Heard(spoken, k) => Heard(spoken', k) OBVIOUS
<1>4. spoken' \in [Keys -> Seq({"approve", "reject"})] BY <1>1 DEF ClientOK
<1>5. LandedIsCleared' BY <1>3, <1>4, LandedStays DEF VaultInv
<1>6. MarkedIsStored' BY DEF VaultInv, MarkedIsStored
<1> QED BY <1>2, <1>5, <1>6, LogStays DEF VaultInv

LEMMA TickInv == ASSUME VaultInv, TickVault PROVE VaultInv'
<1> DEFINE rows == GetRunEvents(log, "memory_candidate")
           found == [i \in DOMAIN rows |-> rows[i].rec]
<1>1. PassOK /\ DurableOK /\ CountOK BY TypeParts DEF VaultInv
<1>2. found \in Seq(Records) BY CandidatesTyped DEF VaultInv
<1>3. pass' = [Idle EXCEPT !.pc = "approvals", !.work = found] /\ pass.pc = "idle" BY DEF TickVault
<1> HIDE DEF found
<1>4. pass'.pc = "approvals" /\ pass'.said = Idle.said /\ pass' \in PassRec BY <1>2, <1>3, IdleTyped DEF PassRec
<1>5. PassOK' BY <1>1, <1>4 DEF PassOK, PassRec, Busy, TickVault, history
<1>6. PassInv' BY <1>4, IdleTyped DEF PassInv, Busy
<1>7. DurableOK' /\ CountOK' BY <1>1, KeepDurable, KeepCount DEF TickVault, history
<1> QED BY <1>3, <1>5, <1>6, <1>7, PassOnly DEF TickVault, history

LEMMA ReadInv == ASSUME VaultInv, ReadApprovals PROVE VaultInv'
<1> DEFINE said == LoadApprovals(GetRunEvents(log, "human_verdict"))
<1>1. StoreOK /\ PassOK /\ DurableOK /\ CountOK /\ ClientOK BY TypeParts DEF VaultInv
<1>2. /\ said \in [Keys -> Verdicts]
      /\ \A k \in Keys : said[k] # "none" =>
           \E i \in 1..Len(log) : IsVerdict(i, k) /\ log[i].verdict = said[k]
      /\ \A k \in Keys, i \in 1..Len(log) :
           IsVerdict(i, k) /\ (\A j \in 1..Len(log) : IsVerdict(j, k) => j <= i) => said[k] = log[i].verdict
  BY Folded DEF VaultInv
<1>3. /\ pass.pc = "approvals" /\ pass' = [pass EXCEPT !.pc = "gate", !.said = said]
      /\ refused' = {k \in Keys : spoken[k] # <<>> /\ Head(spoken[k]) = "reject"}
  BY DEF ReadApprovals
<1> HIDE DEF said
<1>4. pass'.pc = "gate" /\ pass'.said = said /\ pass' \in PassRec BY <1>1, <1>2, <1>3 DEF PassOK, PassRec
<1>5. PassOK' BY <1>1, <1>3, <1>4 DEF PassOK, PassRec, Busy, ReadApprovals
<1>6. ASSUME NEW k \in Keys, said[k] = "promote" PROVE Heard(spoken, k)
  <2>1. PICK i \in 1..Len(log) : IsVerdict(i, k) /\ log[i].verdict = "promote" BY <1>2, <1>6
  <2> QED BY <2>1 DEF VaultInv, LogInv, IsVerdict
<1>7. ASSUME NEW k \in refused', ~trimmed PROVE said[k] = "reject"
  <2>1. k \in Keys /\ spoken[k] # <<>> /\ Head(spoken[k]) = "reject" BY <1>3, <1>7
  <2>2. PICK i \in 1..Len(log) : /\ IsVerdict(i, k) /\ log[i].verdict = Recorded(Head(spoken[k]))
                                 /\ \A j \in 1..Len(log) : IsVerdict(j, k) => j <= i
    BY <1>7, <2>1 DEF VaultInv, LogInv
  <2> QED BY <1>2, <2>1, <2>2 DEF Recorded
<1>8. PassInv' BY <1>4, <1>6, <1>7 DEF PassInv, Busy, ReadApprovals
<1>9. DurableOK' /\ CountOK' BY <1>1, KeepDurable, KeepCount DEF ReadApprovals
<1> QED BY <1>3, <1>5, <1>8, <1>9, PassOnly DEF ReadApprovals

LEMMA GateInv == ASSUME VaultInv, GateRecord PROVE VaultInv'
<1> DEFINE r == Head(pass.work)
<1>1. PassOK /\ DurableOK /\ CountOK BY TypeParts DEF VaultInv
<1>2. pass.pc = "gate" /\ pass.work # <<>> BY DEF GateRecord
<1>3. r \in Records /\ Tail(pass.work) \in Seq(Records) BY <1>1, <1>2, PassTyped
<1>4. PassOK' /\ PassInv'
  <2>1. CASE Promote(r, r.key \in marks, pass.said) = "promote"
    <3>1. pass' = [pass EXCEPT !.pc = "mark"] BY <2>1 DEF GateRecord
    <3>2. pass'.pc = "mark" /\ pass'.work = pass.work /\ pass'.said = pass.said /\ pass' \in PassRec
      BY <1>1, <3>1 DEF PassOK, PassRec
    <3>3. r.key \notin marks /\ Cleared(r, pass.said) BY <1>3, <2>1, Gates
    <3>4. PassOK' BY <1>1, <1>2, <3>2 DEF PassOK, PassRec, Busy, GateRecord, history
    <3>5. PassInv' BY <1>2, <3>2, <3>3 DEF VaultInv, PassInv, Busy, Current, GateRecord, history
    <3> QED BY <3>4, <3>5
  <2>2. CASE Promote(r, r.key \in marks, pass.said) # "promote"
    <3>1. pass' = [pass EXCEPT !.work = Tail(pass.work)] BY <2>2 DEF GateRecord
    <3>2. pass'.pc = "gate" /\ pass'.said = pass.said /\ pass' \in PassRec
      BY <1>1, <1>2, <1>3, <3>1 DEF PassOK, PassRec
    <3>4. PassOK' BY <1>1, <3>2 DEF PassOK, PassRec, Busy, GateRecord, history
    <3>5. PassInv' BY <1>2, <3>2 DEF VaultInv, PassInv, Busy, GateRecord, history
    <3> QED BY <3>4, <3>5
  <2> QED BY <2>1, <2>2
<1>5. DurableOK' /\ CountOK' BY <1>1, KeepDurable, KeepCount DEF GateRecord, history
<1> QED BY <1>2, <1>4, <1>5, PassOnly DEF GateRecord, history

LEMMA EndPassInv == ASSUME VaultInv, NEW at \in Days, EndPass(at) PROVE VaultInv'
<1>1. PassOK /\ DurableOK /\ CountOK BY TypeParts DEF VaultInv
<1>2. pass' = Idle /\ pass.pc = "gate" /\ UNCHANGED <<forgone, refused>> BY DEF EndPass, history
<1>3. ASSUME NEW r \in pass.landed
      PROVE  [key |-> r.key, ver |-> r.ver, at |-> at] \in [key : Keys, ver : {q.ver : q \in Records}, at : Days]
  <2>1. r \in Records BY <1>1, PassTyped
  <2> QED BY <2>1, RecordTyped
<1>4. DurableOK' BY <1>1, <1>3 DEF DurableOK, EndPass, history
<1>5. PassOK' BY <1>1, <1>2, IdleTyped DEF PassOK, Busy, PassRec
<1>6. PassInv' BY <1>2, IdleTyped DEF PassInv, Busy
<1>7. CountOK' BY <1>1, KeepCount DEF EndPass, history
<1> QED BY <1>2, <1>4, <1>5, <1>6, <1>7, PassOnly DEF EndPass, history

\* The pass is gone: a record that was marked and not emitted is forgone.
LEMMA DiesInv == ASSUME VaultInv, PassDies PROVE VaultInv'
<1>1. PassOK /\ DurableOK /\ CountOK BY TypeParts DEF VaultInv
<1>2. /\ pass' = Idle /\ refused' = refused
      /\ forgone' = IF pass.pc = "emit" THEN forgone \cup {Current.key} ELSE forgone
  BY DEF PassDies, Current
<1>3. pass.pc = "emit" => Current.key \in Keys
  BY <1>1, PassTyped, RecordTyped DEF PassOK, Busy, Current
<1>4. PassOK' BY <1>1, <1>2, <1>3, IdleTyped DEF PassOK, Busy, PassRec
<1>5. PassInv' BY <1>2, IdleTyped DEF PassInv, Busy
<1>6. CountOK' BY <1>1, FaultCounted DEF PassDies, CountOK
<1>7. DurableOK' BY <1>1, KeepDurable DEF PassDies
<1>8. \A k : (pass.pc = "emit" /\ Current.key = k) => k \in forgone' BY <1>2
<1> QED BY <1>2, <1>4, <1>5, <1>6, <1>7, <1>8, PassOnly DEF PassDies

\* The mark comes before the emit; one whose answer is lost is set, and the record forgone.
LEMMA MarkInv == ASSUME VaultInv, NEW out \in PostOutcomes, MarkRecord(out) PROVE VaultInv'
<1> DEFINE r == Head(pass.work)
<1>1. StoreOK /\ PassOK /\ DurableOK /\ CountOK /\ ClientOK BY TypeParts DEF VaultInv
<1>2. /\ pass.pc = "mark" /\ marks' = (IF Performed(out) THEN marks \cup {r.key} ELSE marks)
      /\ forgone' = (IF out = "lost" THEN forgone \cup {r.key} ELSE forgone)
      /\ pass' = (IF Raises(out) THEN Idle ELSE [pass EXCEPT !.pc = "emit", !.landed = @ \cup {r}])
      /\ UNCHANGED <<log, proposed, closet, receipts, clientVars, decisions, landings, rollbacks,
                     spoken, trimmed, refused>>
  BY DEF MarkRecord
<1>3. pass.work # <<>> /\ r \in Records /\ r.key \in Keys
  BY <1>1, <1>2, PassTyped, RecordTyped DEF PassOK, Busy
<1> HIDE DEF r
<1>4. CountOK' BY <1>1, <1>2, FaultCounted DEF MarkRecord, CountOK
<1>5. DurableOK' BY <1>1, <1>2, <1>3 DEF DurableOK
<1>6. \A k \in Keys : Heard(spoken, k) => Heard(spoken', k) BY <1>2
<1>7. spoken' \in [Keys -> Seq({"approve", "reject"})] BY <1>1, <1>2 DEF ClientOK
<1>8. LandedIsCleared' BY <1>2, <1>6, <1>7, LandedStays DEF VaultInv
<1>9. PassOK' /\ PassInv' /\ MarkedIsStored'
  <2>1. CASE out = "done"
    <3>1. marks' = marks \cup {r.key} /\ forgone' = forgone /\ pass' = [pass EXCEPT !.pc = "emit", !.landed = @ \cup {r}]
      BY <1>2, <2>1 DEF Performed, Raises
    <3>2. pass'.pc = "emit" /\ pass'.work = pass.work /\ pass'.said = pass.said /\ pass' \in PassRec
      BY <1>1, <1>3, <3>1 DEF PassOK, PassRec
    <3>3. PassOK' BY <1>1, <1>2, <1>3, <3>1, <3>2 DEF PassOK, PassRec, Busy
    <3>4. PassInv' BY <1>2, <3>2 DEF VaultInv, PassInv, Busy, Current
    <3>5. MarkedIsStored' BY <1>2, <3>1, <3>2 DEF VaultInv, MarkedIsStored, Current, r
    <3> QED BY <3>3, <3>4, <3>5
  <2>2. CASE out # "done"
    <3>1. pass' = Idle BY <1>2, <2>2 DEF Raises
    <3>2. PassOK' BY <1>1, <1>2, <1>3, <3>1, IdleTyped DEF PassOK, Busy, PassRec
    <3>3. PassInv' BY <3>1, IdleTyped DEF PassInv, Busy
    <3>4. marks' \ forgone' \subseteq marks \ forgone
      BY <1>2, <2>2 DEF PostOutcomes, Performed
    <3>5. MarkedIsStored' BY <1>2, <3>4 DEF VaultInv, MarkedIsStored
    <3> QED BY <3>2, <3>3, <3>5
  <2> QED BY <2>1, <2>2
<1>10. TypeOK' BY <1>1, <1>2, <1>4, <1>5, <1>9, KeepStore, KeepClient, TypeAfter
<1>11. LogInv' BY <1>2, LogStays DEF VaultInv
<1> QED BY <1>8, <1>9, <1>10, <1>11 DEF VaultInv

\* The record in hand has cleared the gates under what was said, and what was said was heard.
LEMMA EmitInv == ASSUME VaultInv, NEW out \in PostOutcomes, EmitRecord(out) PROVE VaultInv'
<1> DEFINE r == Head(pass.work)
<1>1. StoreOK /\ PassOK /\ DurableOK /\ CountOK /\ ClientOK BY TypeParts DEF VaultInv
<1>2. /\ pass.pc = "emit" /\ pass' = [pass EXCEPT !.pc = "gate", !.work = Tail(pass.work)]
      /\ UNCHANGED <<log, proposed, marks, receipts, clientVars, decisions, rollbacks, spoken, trimmed,
                     refused>>
  BY DEF EmitRecord
<1>3. IF Performed(out)
      THEN /\ closet' = closet \cup {Redact(r)} /\ landings' = [landings EXCEPT ![r.key] = @ + 1]
           /\ forgone' = forgone
      ELSE forgone' = forgone \cup {r.key} /\ UNCHANGED <<closet, landings>>
  BY DEF EmitRecord
<1>4. pass.work # <<>> /\ r \in Records /\ Tail(pass.work) \in Seq(Records)
  BY <1>1, <1>2, PassTyped DEF PassOK, Busy
<1>5. Cleared(r, pass.said) BY <1>2 DEF VaultInv, PassInv, Busy, Current
<1>6. MarkedIsStored /\ \A k \in marks \ forgone : (\E c \in closet : c.key = k) \/ r.key = k
  BY DEF VaultInv, MarkedIsStored, Current
<1>7. /\ r.key \in Keys /\ Redact(r).key = r.key /\ Redact(r).pii = {} /\ Redact(r).provenance = r.provenance
      /\ Redact(r).conf = r.conf /\ Redact(r).category = r.category /\ Redact(r).approval = r.approval
  BY <1>4, RecordTyped
<1> HIDE DEF r
<1>8. CountOK' BY <1>1, <1>2, FaultCounted DEF EmitRecord, CountOK
<1>9. DurableOK' BY <1>1, <1>2, <1>3, <1>4, <1>7 DEF DurableOK
<1>10. pass'.pc = "gate" /\ pass'.said = pass.said /\ pass' \in PassRec
  BY <1>1, <1>2, <1>4 DEF PassOK, PassRec
<1>11. PassOK' BY <1>1, <1>2, <1>3, <1>7, <1>10 DEF PassOK, PassRec, Busy
<1>12. PassInv' BY <1>2, <1>10 DEF VaultInv, PassInv, Busy
<1>13. MarkedIsStored' BY <1>2, <1>3, <1>6, <1>7 DEF MarkedIsStored
<1>14. LandedIsCleared'
  <2>1. ASSUME NEW c \in closet'
        PROVE  /\ c.pii = {} /\ c.provenance /\ c.conf >= CONFIDENCE_FLOORS(c.category)
               /\ c.approval = "promote" \/ \E i \in DOMAIN spoken[c.key] : spoken[c.key][i] = "approve"
    <3>1. CASE c \in closet BY <3>1 DEF VaultInv, LandedIsCleared
    <3>2. CASE c = Redact(r)
      <4>1. c.pii = {} /\ c.provenance /\ c.conf >= CONFIDENCE_FLOORS(c.category) /\ c.key = r.key
        BY <1>5, <1>7, <3>2 DEF Cleared
      <4>2. spoken[r.key] \in Seq({"approve", "reject"}) BY <1>1, <1>7 DEF ClientOK
      <4>3. DOMAIN spoken[r.key] = 1..Len(spoken[r.key]) BY <4>2
      <4>4. c.approval = "promote" \/ Heard(spoken, r.key)
        BY <1>5, <1>7, <3>2 DEF Cleared, VaultInv, PassInv
      <4> QED BY <4>1, <4>3, <4>4 DEF Heard
    <3> QED BY <1>3, <3>1, <3>2
  <2> QED BY <1>2, <2>1 DEF LandedIsCleared
<1>15. TypeOK' BY <1>1, <1>2, <1>8, <1>9, <1>11, KeepStore, KeepClient, TypeAfter
<1>16. LogInv' BY <1>2, LogStays DEF VaultInv
<1> QED BY <1>12, <1>13, <1>14, <1>15, <1>16 DEF VaultInv

LEMMA RollbackInv ==
  ASSUME VaultInv, NEW receipt \in receipts, NEW now \in Days, NEW out \in PostOutcomes,
         Rollback(receipt, now, out)
  PROVE  VaultInv'
<1>1. StoreOK /\ PassOK /\ DurableOK /\ CountOK /\ ClientOK /\ MaxRollbacks \in Nat
  BY TypeParts, VaultConstants DEF VaultInv
<1>2. /\ marks' \subseteq marks /\ rollbacks < MaxRollbacks
      /\ rollbacks' = rollbacks + 1 \/ rollbacks' = rollbacks
      /\ UNCHANGED <<log, proposed, closet, pass, receipts, clientVars, decisions, landings, spoken,
                     trimmed, forgone, refused>>
  BY DEF Rollback
<1>3. CountOK'
  <2>1. rollbacks' \in 0..MaxRollbacks BY <1>1, <1>2 DEF CountOK
  <2> QED BY <1>1, <2>1, FaultCounted DEF Rollback, CountOK
<1>4. DurableOK' BY <1>1, <1>2 DEF DurableOK
<1>5. TypeOK' BY <1>1, <1>2, <1>3, <1>4, KeepStore, KeepPass, KeepClient, TypeAfter
<1>6. \A k \in Keys : Heard(spoken, k) => Heard(spoken', k) BY <1>2
<1>7. spoken' \in [Keys -> Seq({"approve", "reject"})] BY <1>1, <1>2 DEF ClientOK
<1> QED BY <1>2, <1>5, <1>6, <1>7, LogStays, PassStays, LandedStays, MarkedStays DEF VaultInv

-----------------------------------------------------------------------------
LEMMA VaultInitInv == VaultInit => VaultInv
<1> SUFFICES ASSUME VaultInit PROVE VaultInv OBVIOUS
<1>1. CountOK /\ DurableOK BY VaultConstants DEF VaultInit, CountOK, DurableOK
<1>2. PassOK BY IdleTyped DEF VaultInit, PassOK, Busy
<1>3. StoreOK
  <2>1. log = <<>> /\ Len(log) = 0 /\ log \in Seq(Row) BY DEF VaultInit
  <2>2. 0 <= StoreCap BY VaultConstants
  <2> QED BY <2>1, <2>2 DEF VaultInit, StoreOK
<1>4. ClientOK
  <2>1. room \in Seq([key : Keys, verdict : {"approve", "reject"}]) BY DEF VaultInit
  <2>2. spoken \in [Keys -> Seq({"approve", "reject"})] BY DEF VaultInit
  <2> QED BY <2>1, <2>2, VaultConstants DEF VaultInit, ClientOK
<1>5. TypeOK BY <1>1, <1>2, <1>3, <1>4, TypeParts
<1>6. LogInv BY DEF VaultInit, LogInv
<1>7. PassInv BY IdleTyped DEF VaultInit, PassInv, Busy
<1>8. LandedIsCleared /\ MarkedIsStored BY DEF VaultInit, LandedIsCleared, MarkedIsStored
<1> QED BY <1>5, <1>6, <1>7, <1>8 DEF VaultInv

LEMMA VaultStep == VaultInv /\ [VaultNext]_vaultVars => VaultInv'
<1> SUFFICES ASSUME VaultInv, [VaultNext]_vaultVars PROVE VaultInv' OBVIOUS
<1>1. ASSUME NEW k \in Keys, NEW v \in {"approve", "reject"}, ClickVerdict(k, v) PROVE VaultInv'
  BY <1>1, ClickInv
<1>2. ASSUME NEW s \in sending, NEW out \in PostOutcomes, Sent(s, out) PROVE VaultInv'
  BY <1>2, SentInv
<1>3. CASE Reload BY <1>3, ReloadInv
<1>4. ASSUME NEW out \in PostOutcomes, RecordVerdict(out) PROVE VaultInv' BY <1>4, RecordVerdictInv
<1>5. ASSUME NEW r \in Records, ProposeRecord(r) PROVE VaultInv' BY <1>5, ProposeInv
<1>6. CASE TickVault BY <1>6, TickInv
<1>7. CASE ReadApprovals BY <1>7, ReadInv
<1>8. CASE GateRecord BY <1>8, GateInv
<1>9. ASSUME NEW out \in PostOutcomes, MarkRecord(out) PROVE VaultInv' BY <1>9, MarkInv
<1>10. ASSUME NEW out \in PostOutcomes, EmitRecord(out) PROVE VaultInv' BY <1>10, EmitInv
<1>11. ASSUME NEW at \in Days, EndPass(at) PROVE VaultInv' BY <1>11, EndPassInv
<1>12. CASE PassDies BY <1>12, DiesInv
<1>13. ASSUME NEW receipt \in receipts, NEW now \in Days, NEW out \in PostOutcomes, Rollback(receipt, now, out)
       PROVE  VaultInv'
  BY <1>13, RollbackInv
<1>14. CASE UNCHANGED vaultVars
  <2>1. ClientOK /\ CountOK BY TypeParts DEF VaultInv
  <2>2. ClientOK' /\ CountOK' BY <1>14, <2>1, KeepClient, KeepCount DEF vaultVars, history
  <2> QED BY <1>14, <2>2, ClientStep DEF vaultVars, history
<1> QED BY <1>1, <1>2, <1>3, <1>4, <1>5, <1>6, <1>7, <1>8, <1>9, <1>10, <1>11, <1>12, <1>13, <1>14
     DEF VaultNext, PassStep

LEMMA VaultInvariance == VaultSpec => []VaultInv
BY VaultInitInv, VaultStep, PTL DEF VaultSpec

\* Every variable of the Vault keeps its type, and the store its bound.
THEOREM VaultTypeCorrect == VaultSpec => []TypeOK
<1>1. VaultInv => TypeOK BY DEF VaultInv
<1> QED BY <1>1, VaultInvariance, PTL

\* vault.promote and the emit of the pass: for any records, verdicts and store size, what is
\* in durable memory cleared the floors, has provenance, is redacted, and was approved by
\* its own record or by a verdict a human spoke.
THEOREM OnlyClearedLands == VaultSpec => []LandedIsCleared
<1>1. VaultInv => LandedIsCleared BY DEF VaultInv
<1> QED BY <1>1, VaultInvariance, PTL

\* load_approvals: as long as the store has dropped nothing, a key whose first verdict was a
\* rejection is neither marked nor emitted by a pass that read the approvals after it.
THEOREM RejectionsStand == VaultSpec => []RejectedStaysOut
<1>1. VaultInv => RejectedStaysOut
  <2> SUFFICES ASSUME VaultInv, Busy, ~trimmed, Current.key \in refused PROVE FALSE BY DEF RejectedStaysOut
  <2>1. pass.said[Current.key] = "reject" BY DEF VaultInv, PassInv, Busy
  <2> QED BY <2>1 DEF VaultInv, PassInv, Cleared
<1> QED BY <1>1, VaultInvariance, PTL

\* The mark before the emit: a key is marked without a stored record only if its emission
\* failed, its marker's answer was lost, or the pass died in between.
THEOREM NoRecordForgotten == VaultSpec => []MarkedIsStored
<1>1. VaultInv => MarkedIsStored BY DEF VaultInv
<1> QED BY <1>1, VaultInvariance, PTL

-----------------------------------------------------------------------------
(* The refinement.                                                          *)

Held == [k \in Keys |-> IF pass.pc = "emit" /\ Current.key = k THEN 1 ELSE 0]

LEMMA VaultRefinesInit == VaultInit => Delivery!Init
BY DEF VaultInit, Idle, Delivery!Init

LEMMA HeldStutters ==
  ASSUME UNCHANGED <<marks, landings>>, Held' = Held PROVE [Delivery!Next]_(Delivery!vars)
BY DEF Delivery!vars, Held

LEMMA NothingHeld == (pass.pc # "emit" => Held = [k \in Keys |-> 0])
                     /\ (pass'.pc # "emit" => Held' = [k \in Keys |-> 0])
BY DEF Held

\* The key in hand when a pass marks or emits.
LEMMA InHand ==
  ASSUME VaultInv, Busy PROVE Current.key \in Keys /\ Current \in Records
<1>1. PassOK BY TypeParts DEF VaultInv
<1> QED BY <1>1, PassTyped, RecordTyped DEF PassOK, Current

LEMMA MarkingRefines ==
  ASSUME VaultInv, NEW out \in PostOutcomes, MarkRecord(out) PROVE [Delivery!Next]_(Delivery!vars)
<1>0. PICK k \in Keys : k = Current.key BY InHand DEF Busy, MarkRecord
<1>1. /\ pass.pc = "mark" /\ marks' = (IF Performed(out) THEN marks \cup {k} ELSE marks) /\ UNCHANGED landings
      /\ pass' = (IF Raises(out) THEN Idle ELSE [pass EXCEPT !.pc = "emit", !.landed = @ \cup {Current}])
  BY <1>0 DEF MarkRecord, Current
<1>2. k \notin marks BY <1>0, <1>1 DEF VaultInv, PassInv
<1>3. Held = [q \in Keys |-> 0] BY <1>1, NothingHeld
<1>4. CASE ~Performed(out)
  <2>1. marks' = marks /\ pass' = Idle BY <1>1, <1>4 DEF Performed, Raises
  <2>2. Held' = Held BY <1>3, <2>1, NothingHeld, IdleTyped
  <2> QED BY <1>1, <2>1, <2>2, HeldStutters
<1>5. CASE Performed(out)
  <2>1. marks' = marks \cup {k} BY <1>1, <1>5
  <2>2. Held' \in {Held, [Held EXCEPT ![k] = @ + 1]}
    <3>1. CASE Raises(out)
      <4>1. pass' = Idle BY <1>1, <3>1
      <4> QED BY <1>3, <4>1, NothingHeld, IdleTyped
    <3>2. CASE ~Raises(out)
      <4>1. pass' = [pass EXCEPT !.pc = "emit", !.landed = @ \cup {Current}] BY <1>1, <3>2
      <4>2. PassOK BY TypeParts DEF VaultInv
      <4>3. pass'.pc = "emit" /\ pass'.work = pass.work BY <4>1, <4>2 DEF PassOK, PassRec
      <4>4. Held' = [q \in Keys |-> IF k = q THEN 1 ELSE 0] BY <1>0, <4>3 DEF Held, Current
      <4> QED BY <1>2, <1>3, <4>4
    <3> QED BY <3>1, <3>2
  <2>3. Delivery!Claim(k) BY <1>1, <1>2, <2>1, <2>2 DEF Delivery!Claim, Held
  <2> QED BY <2>3 DEF Delivery!Next
<1> QED BY <1>4, <1>5

\* A claim that is used or lost is gone.
LEMMA HeldSpent ==
  ASSUME VaultInv, pass.pc = "emit", pass'.pc # "emit"
  PROVE  \E k \in Keys : k = Current.key /\ Held' = [Held EXCEPT ![k] = @ - 1] /\ Held[k] > 0
<1>1. PICK k \in Keys : k = Current.key BY InHand DEF Busy
<1>2. Held = [q \in Keys |-> IF k = q THEN 1 ELSE 0] BY <1>1 DEF Held
<1>3. Held' = [q \in Keys |-> 0] BY NothingHeld
<1>4. Held' = [Held EXCEPT ![k] = @ - 1] /\ Held[k] > 0 BY <1>2, <1>3
<1> QED BY <1>1, <1>4

LEMMA EmissionRefines ==
  ASSUME VaultInv, NEW out \in PostOutcomes, EmitRecord(out) PROVE [Delivery!Next]_(Delivery!vars)
<1>1. pass.pc = "emit" /\ UNCHANGED marks BY DEF EmitRecord
<1>2. pass'.pc = "gate"
  <2>1. PassOK BY TypeParts DEF VaultInv
  <2> QED BY <2>1 DEF EmitRecord, PassOK, PassRec
<1>3. PICK k \in Keys : k = Current.key /\ Held' = [Held EXCEPT ![k] = @ - 1] /\ Held[k] > 0
  BY <1>1, <1>2, HeldSpent
<1>4. IF Performed(out) THEN landings' = [landings EXCEPT ![k] = @ + 1] ELSE landings' = landings
  BY <1>3 DEF EmitRecord, Current
<1>5. CASE Performed(out)
  <2>1. Delivery!Emit(k) BY <1>1, <1>3, <1>4, <1>5 DEF Delivery!Emit, Held
  <2> QED BY <2>1 DEF Delivery!Next
<1>6. CASE ~Performed(out)
  <2>1. Delivery!Lose(k) BY <1>1, <1>3, <1>4, <1>6 DEF Delivery!Lose, Held
  <2> QED BY <2>1 DEF Delivery!Next
<1> QED BY <1>5, <1>6

LEMMA DyingRefines == ASSUME VaultInv, PassDies PROVE [Delivery!Next]_(Delivery!vars)
<1>1. pass' = Idle /\ pass'.pc # "emit" /\ UNCHANGED <<marks, landings>> BY IdleTyped DEF PassDies
<1>2. CASE pass.pc = "emit"
  <2>1. PICK k \in Keys : Held' = [Held EXCEPT ![k] = @ - 1] /\ Held[k] > 0 BY <1>1, <1>2, HeldSpent
  <2>2. Delivery!Lose(k) BY <1>1, <2>1 DEF Delivery!Lose, Held
  <2> QED BY <2>2 DEF Delivery!Next
<1>3. CASE pass.pc # "emit"
  <2>1. Held' = Held BY <1>1, <1>3, NothingHeld
  <2> QED BY <1>1, <2>1, HeldStutters
<1> QED BY <1>2, <1>3

LEMMA RollbackRefines ==
  ASSUME VaultInv, NEW receipt \in receipts, NEW now \in Days, NEW out \in PostOutcomes,
         Rollback(receipt, now, out)
  PROVE  [Delivery!Next]_(Delivery!vars)
<1>1. UNCHANGED <<pass, landings>> /\ marks' \in {marks, marks \ {receipt.key}} BY DEF Rollback
<1>2. Held' = Held BY <1>1 DEF Held, Current
<1>3. receipt.key \in Keys BY DEF VaultInv, TypeOK
<1>4. CASE marks' = marks BY <1>1, <1>2, <1>4, HeldStutters
<1>5. CASE marks' = marks \ {receipt.key}
  <2>1. Delivery!Clear(receipt.key) BY <1>1, <1>2, <1>5 DEF Delivery!Clear, Held
  <2> QED BY <1>3, <2>1 DEF Delivery!Next
<1> QED BY <1>1, <1>4, <1>5

LEMMA VaultRefinesNext == VaultInv /\ [VaultNext]_vaultVars => [Delivery!Next]_(Delivery!vars)
<1> SUFFICES ASSUME VaultInv, [VaultNext]_vaultVars PROVE [Delivery!Next]_(Delivery!vars) OBVIOUS
<1>1. ASSUME UNCHANGED <<pass, marks, landings>> PROVE [Delivery!Next]_(Delivery!vars)
  BY <1>1, HeldStutters DEF Held, Current
<1>2. ASSUME UNCHANGED <<marks, landings>>, pass.pc # "emit", pass'.pc # "emit"
      PROVE  [Delivery!Next]_(Delivery!vars)
  BY <1>2, HeldStutters, NothingHeld
<1>3. PassOK BY TypeParts DEF VaultInv
<1>4. ASSUME NEW k \in Keys, NEW v \in {"approve", "reject"}, ClickVerdict(k, v)
      PROVE  [Delivery!Next]_(Delivery!vars)
  BY <1>1, <1>4 DEF ClickVerdict
<1>5. ASSUME NEW s \in sending, NEW out \in PostOutcomes, Sent(s, out) PROVE [Delivery!Next]_(Delivery!vars)
  BY <1>1, <1>5 DEF Sent
<1>6. CASE Reload BY <1>1, <1>6 DEF Reload, history
<1>7. ASSUME NEW out \in PostOutcomes, RecordVerdict(out) PROVE [Delivery!Next]_(Delivery!vars)
  BY <1>1, <1>7 DEF RecordVerdict
<1>8. ASSUME NEW r \in Records, ProposeRecord(r) PROVE [Delivery!Next]_(Delivery!vars)
  BY <1>1, <1>8 DEF ProposeRecord
<1>9. CASE TickVault BY <1>2, <1>9 DEF TickVault, history, Idle
<1>10. CASE ReadApprovals BY <1>2, <1>3, <1>10 DEF ReadApprovals, PassOK, PassRec
<1>11. CASE GateRecord BY <1>2, <1>3, <1>11 DEF GateRecord, history, PassOK, PassRec
<1>12. ASSUME NEW out \in PostOutcomes, MarkRecord(out) PROVE [Delivery!Next]_(Delivery!vars)
  BY <1>12, MarkingRefines
<1>13. ASSUME NEW out \in PostOutcomes, EmitRecord(out) PROVE [Delivery!Next]_(Delivery!vars)
  BY <1>13, EmissionRefines
<1>14. ASSUME NEW at \in Days, EndPass(at) PROVE [Delivery!Next]_(Delivery!vars)
  BY <1>2, <1>14, IdleTyped DEF EndPass, history
<1>15. CASE PassDies BY <1>15, DyingRefines
<1>16. ASSUME NEW receipt \in receipts, NEW now \in Days, NEW out \in PostOutcomes, Rollback(receipt, now, out)
       PROVE  [Delivery!Next]_(Delivery!vars)
  BY <1>16, RollbackRefines
<1>17. CASE UNCHANGED vaultVars BY <1>1, <1>17 DEF vaultVars, history
<1> QED BY <1>4, <1>5, <1>6, <1>7, <1>8, <1>9, <1>10, <1>11, <1>12, <1>13, <1>14, <1>15, <1>16, <1>17
     DEF VaultNext, PassStep

\* vault_harness's pass implements AtMostOnce: one emission at most per clearance of a marker,
\* whatever fails or dies between mark and emit, and whenever a rollback comes.
THEOREM VaultImplements == VaultSpec => VaultDelivers
BY VaultRefinesInit, VaultRefinesNext, VaultInvariance, PTL DEF VaultSpec, VaultDelivers, Delivery!Spec

-----------------------------------------------------------------------------
(* The flywheel.                                                            *)

Tally == [n : Nat, ok : Nat]
FlyWord == {"none", "approve", "reject"}

FlyTypeOK ==
  /\ runlog \in [Shapes -> Tally]
  /\ decision \in [Shapes -> FlyWord]
  /\ surfaced \subseteq Shapes
  /\ scaffolds \in [Shapes -> Nat]
  /\ approvedShapes \subseteq Shapes
  /\ fly \in [pc : {"idle", "surface", "triage", "mark", "emit"}, seen : [Shapes -> Tally],
              todo : SUBSET Shapes, verdict : [Shapes -> FlyWord], at : SUBSET Shapes]

\* The log only grows past what the pass has read, and an approval once given is on record.
SeenInv ==
  \A s \in Shapes : /\ fly.seen[s].n <= runlog[s].n /\ fly.seen[s].ok <= runlog[s].ok
                    /\ decision[s] = "approve" => s \in approvedShapes
                    /\ fly.verdict[s] = "approve" => s \in approvedShapes

\* What the pass still has to look at was surfaced from the log it read.
TodoInv == \A s \in fly.todo : fly.seen[s].n >= 3 /\ fly.seen[s].ok >= 2

\* The shape in hand: one, approved and unmarked before the mark, marked before the emit.
HandInv ==
  /\ fly.pc \notin {"mark", "emit"} => fly.at = {}
  /\ fly.pc \in {"mark", "emit"} => \E s \in fly.todo : fly.at = {s}
  /\ fly.pc = "mark" => \A s \in fly.at : s \notin surfaced /\ fly.verdict[s] = "approve"
  /\ fly.pc = "emit" => fly.at \subseteq surfaced

FlyInv == FlyTypeOK /\ SeenInv /\ TodoInv /\ HandInv /\ ShapesEarned

-----------------------------------------------------------------------------
LEMMA FlyInitInv == FlywheelInit => FlyInv
  BY DEF FlywheelInit, FlyInv, FlyTypeOK, SeenInv, TodoInv, HandInv, ShapesEarned, FlyIdle, Tally, FlyWord

LEMMA FlyIdleTyped ==
  /\ FlyIdle \in [pc : {"idle", "surface", "triage", "mark", "emit"}, seen : [Shapes -> Tally],
                  todo : SUBSET Shapes, verdict : [Shapes -> FlyWord], at : SUBSET Shapes]
  /\ FlyIdle.pc = "idle" /\ FlyIdle.todo = {} /\ FlyIdle.at = {}
  /\ \A s \in Shapes : FlyIdle.seen[s].n = 0 /\ FlyIdle.seen[s].ok = 0 /\ FlyIdle.verdict[s] = "none"
  BY DEF FlyIdle, Tally, FlyWord

\* Giving up the pass, at any point, keeps everything that is known.
LEMMA BackToIdle ==
  ASSUME FlyInv, fly' = FlyIdle, surfaced' \subseteq Shapes,
         \A s \in surfaced' : s \in surfaced \/ (runlog[s].n >= 3 /\ runlog[s].ok >= 2 /\ s \in approvedShapes),
         UNCHANGED <<runlog, decision, scaffolds, approvedShapes>>
  PROVE  FlyInv'
<1>1. FlyTypeOK' BY FlyIdleTyped DEF FlyInv, FlyTypeOK
<1>2. SeenInv'
  <2> SUFFICES ASSUME NEW s \in Shapes
      PROVE /\ fly'.seen[s].n <= runlog'[s].n /\ fly'.seen[s].ok <= runlog'[s].ok
            /\ decision'[s] = "approve" => s \in approvedShapes'
            /\ fly'.verdict[s] = "approve" => s \in approvedShapes'
      BY DEF SeenInv
  <2>1. runlog[s] \in Tally BY DEF FlyInv, FlyTypeOK
  <2>2. runlog[s].n \in Nat /\ runlog[s].ok \in Nat BY <2>1 DEF Tally
  <2> QED BY <2>2, FlyIdleTyped DEF FlyInv, SeenInv
<1>3. TodoInv' BY FlyIdleTyped DEF TodoInv
<1>4. HandInv' BY FlyIdleTyped DEF HandInv
<1>5. ShapesEarned' BY DEF FlyInv, ShapesEarned
<1> QED BY <1>1, <1>2, <1>3, <1>4, <1>5 DEF FlyInv

LEMMA ObserveInv == ASSUME FlyInv, NEW s \in Shapes, NEW done \in BOOLEAN, ObserveRun(s, done) PROVE FlyInv'
<1> DEFINE new == [n |-> runlog[s].n + 1, ok |-> IF done THEN runlog[s].ok + 1 ELSE runlog[s].ok]
<1>1. /\ runlog' = [runlog EXCEPT ![s] = new]
      /\ UNCHANGED <<catalog, decision, surfaced, fly, scaffolds, approvedShapes>>
  BY DEF ObserveRun
<1>2. runlog[s].n \in Nat /\ runlog[s].ok \in Nat
  <2>1. runlog[s] \in Tally BY DEF FlyInv, FlyTypeOK
  <2> QED BY <2>1 DEF Tally
<1>3. new \in Tally /\ new.n >= runlog[s].n /\ new.ok >= runlog[s].ok /\ new.n \in Nat /\ new.ok \in Nat
  BY <1>2 DEF Tally
<1> HIDE DEF new
<1>4. \A t \in Shapes : /\ runlog[t].n \in Nat /\ runlog[t].ok \in Nat
                        /\ runlog'[t].n \in Nat /\ runlog'[t].ok \in Nat
                        /\ runlog'[t].n >= runlog[t].n /\ runlog'[t].ok >= runlog[t].ok
  <2> TAKE t \in Shapes
  <2>0. runlog[t] \in Tally BY DEF FlyInv, FlyTypeOK
  <2>1. runlog[t].n \in Nat /\ runlog[t].ok \in Nat BY <2>0 DEF Tally
  <2>2. runlog'[t] = IF t = s THEN new ELSE runlog[t] BY <1>1 DEF FlyInv, FlyTypeOK
  <2> QED BY <2>1, <2>2, <1>3
<1>5. FlyTypeOK' BY <1>1, <1>3 DEF FlyInv, FlyTypeOK
<1>6. \A t \in Shapes : fly.seen[t].n \in Nat /\ fly.seen[t].ok \in Nat
  <2> TAKE t \in Shapes
  <2>1. fly.seen[t] \in Tally BY DEF FlyInv, FlyTypeOK
  <2> QED BY <2>1 DEF Tally
<1>7. SeenInv' BY <1>1, <1>4, <1>6 DEF FlyInv, SeenInv
<1>8. TodoInv' /\ HandInv' BY <1>1 DEF FlyInv, TodoInv, HandInv
<1>9. ShapesEarned' BY <1>1, <1>4 DEF FlyInv, ShapesEarned, FlyTypeOK
<1> QED BY <1>5, <1>7, <1>8, <1>9 DEF FlyInv

LEMMA DecideInv ==
  ASSUME FlyInv, NEW s \in Shapes, NEW v \in {"approve", "reject"}, DecideShape(s, v) PROVE FlyInv'
<1>1. FlyTypeOK' BY DEF FlyInv, FlyTypeOK, DecideShape, FlyWord
<1>2. SeenInv' BY DEF FlyInv, FlyTypeOK, SeenInv, DecideShape, FlyWord
<1>3. TodoInv' /\ HandInv' BY DEF FlyInv, TodoInv, HandInv, DecideShape
<1>4. ShapesEarned' BY DEF FlyInv, ShapesEarned, DecideShape
<1> QED BY <1>1, <1>2, <1>3, <1>4 DEF FlyInv

LEMMA FlySameInv ==
  ASSUME FlyInv, UNCHANGED <<runlog, decision, surfaced, fly, scaffolds, approvedShapes>> PROVE FlyInv'
  BY DEF FlyInv, FlyTypeOK, SeenInv, TodoInv, HandInv, ShapesEarned

LEMMA FlyTickInv == ASSUME FlyInv, TickFlywheel PROVE FlyInv'
<1>1. /\ fly' = [FlyIdle EXCEPT !.pc = "surface", !.seen = runlog]
      /\ UNCHANGED <<runlog, decision, surfaced, scaffolds, approvedShapes>>
  BY DEF TickFlywheel
<1>2. /\ fly'.pc = "surface" /\ fly'.seen = runlog /\ fly'.todo = {} /\ fly'.at = {}
      /\ \A s \in Shapes : fly'.verdict[s] = "none"
  BY <1>1, FlyIdleTyped DEF FlyIdle
<1>3. FlyTypeOK' BY <1>1, FlyIdleTyped DEF FlyInv, FlyTypeOK
<1>4. SeenInv'
  <2> SUFFICES ASSUME NEW s \in Shapes
      PROVE fly'.seen[s].n <= runlog'[s].n /\ fly'.seen[s].ok <= runlog'[s].ok
      BY <1>1, <1>2 DEF FlyInv, SeenInv
  <2>1. runlog[s] \in Tally BY DEF FlyInv, FlyTypeOK
  <2>2. runlog[s].n \in Nat /\ runlog[s].ok \in Nat BY <2>1 DEF Tally
  <2> QED BY <1>1, <1>2, <2>2
<1>5. TodoInv' /\ HandInv' BY <1>2 DEF TodoInv, HandInv
<1>6. ShapesEarned' BY <1>1 DEF FlyInv, ShapesEarned
<1> QED BY <1>3, <1>4, <1>5, <1>6 DEF FlyInv

LEMMA SurfaceInv == ASSUME FlyInv, SurfaceShapes PROVE FlyInv'
<1>1. /\ fly.pc = "surface"
      /\ fly' = [fly EXCEPT !.pc = "triage", !.todo = Surface(fly.seen, catalog), !.verdict = decision]
      /\ UNCHANGED <<runlog, decision, surfaced, scaffolds, approvedShapes>>
  BY DEF SurfaceShapes
<1>2. Surface(fly.seen, catalog) \subseteq Shapes BY DEF Surface
<1>3. /\ fly'.pc = "triage" /\ fly'.seen = fly.seen /\ fly'.todo = Surface(fly.seen, catalog)
      /\ fly'.verdict = decision /\ fly'.at = fly.at
  BY <1>1 DEF FlyInv, FlyTypeOK
<1>4. FlyTypeOK' BY <1>1, <1>2 DEF FlyInv, FlyTypeOK
<1>5. SeenInv' BY <1>1, <1>3 DEF FlyInv, SeenInv
<1>6. TodoInv'
  <2> SUFFICES ASSUME NEW s \in Surface(fly.seen, catalog)
      PROVE fly.seen[s].n >= 3 /\ fly.seen[s].ok >= 2
      BY <1>3 DEF TodoInv
  <2>1. fly.seen[s] \in Tally BY <1>2 DEF FlyInv, FlyTypeOK
  <2>2. fly.seen[s].n \in Nat /\ fly.seen[s].ok \in Nat BY <2>1 DEF Tally
  <2>3. fly.seen[s].n >= 3 /\ 10 * fly.seen[s].ok >= 6 * fly.seen[s].n BY DEF Surface, MIN_OCCURRENCES
  <2> QED BY <2>2, <2>3
<1>7. HandInv' BY <1>1, <1>3 DEF FlyInv, HandInv
<1>8. ShapesEarned' BY <1>1 DEF FlyInv, ShapesEarned
<1> QED BY <1>4, <1>5, <1>6, <1>7, <1>8 DEF FlyInv

LEMMA TriageInv == ASSUME FlyInv, NEW s \in Shapes, TriageShape(s) PROVE FlyInv'
<1>1. /\ fly.pc = "triage" /\ s \in fly.todo
      /\ UNCHANGED <<runlog, decision, surfaced, scaffolds, approvedShapes>>
  BY DEF TriageShape
<1>2. CASE Triage(s, s \in surfaced, fly.verdict[s]) = "materialize"
  <2>1. fly' = [fly EXCEPT !.pc = "mark", !.at = {s}] BY <1>2 DEF TriageShape
  <2>2. s \notin surfaced /\ fly.verdict[s] = "approve" BY <1>2 DEF Triage
  <2>3. /\ fly'.pc = "mark" /\ fly'.at = {s} /\ fly'.seen = fly.seen /\ fly'.todo = fly.todo
        /\ fly'.verdict = fly.verdict
    BY <2>1 DEF FlyInv, FlyTypeOK
  <2>4. FlyTypeOK' BY <1>1, <2>1 DEF FlyInv, FlyTypeOK
  <2>5. SeenInv' /\ TodoInv' BY <1>1, <2>3 DEF FlyInv, SeenInv, TodoInv
  <2>6. HandInv' BY <1>1, <2>2, <2>3 DEF HandInv
  <2> QED BY <1>1, <2>4, <2>5, <2>6 DEF FlyInv, ShapesEarned
<1>3. CASE Triage(s, s \in surfaced, fly.verdict[s]) # "materialize"
  <2>1. fly' = [fly EXCEPT !.todo = @ \ {s}] BY <1>3 DEF TriageShape
  <2>2. /\ fly'.pc = fly.pc /\ fly'.at = fly.at /\ fly'.seen = fly.seen /\ fly'.todo = fly.todo \ {s}
        /\ fly'.verdict = fly.verdict
    BY <2>1 DEF FlyInv, FlyTypeOK
  <2>3. FlyTypeOK' BY <1>1, <2>1 DEF FlyInv, FlyTypeOK
  <2>4. SeenInv' /\ TodoInv' /\ HandInv' BY <1>1, <2>2 DEF FlyInv, SeenInv, TodoInv, HandInv
  <2> QED BY <1>1, <2>3, <2>4 DEF FlyInv, ShapesEarned
<1> QED BY <1>2, <1>3

LEMMA MarkShapeInv == ASSUME FlyInv, NEW s \in Shapes, NEW out \in PostOutcomes, MarkShape(s, out) PROVE FlyInv'
<1>1. /\ fly.pc = "mark" /\ s \in fly.at /\ UNCHANGED <<runlog, decision, scaffolds, approvedShapes>>
      /\ surfaced' = IF Performed(out) THEN surfaced \cup {s} ELSE surfaced
  BY DEF MarkShape
<1>2. fly.at = {s} /\ s \in fly.todo /\ fly.verdict[s] = "approve" BY <1>1 DEF FlyInv, HandInv
<1>3. runlog[s].n >= 3 /\ runlog[s].ok >= 2 /\ s \in approvedShapes
  <2>1. runlog[s] \in Tally /\ fly.seen[s] \in Tally BY DEF FlyInv, FlyTypeOK
  <2>2. runlog[s].n \in Nat /\ runlog[s].ok \in Nat /\ fly.seen[s].n \in Nat /\ fly.seen[s].ok \in Nat
    BY <2>1 DEF Tally
  <2>3. fly.seen[s].n >= 3 /\ fly.seen[s].ok >= 2 BY <1>2 DEF FlyInv, TodoInv
  <2>4. fly.seen[s].n <= runlog[s].n /\ fly.seen[s].ok <= runlog[s].ok /\ s \in approvedShapes
    BY <1>2 DEF FlyInv, SeenInv
  <2> QED BY <2>2, <2>3, <2>4
<1>4. CASE Raises(out)
  <2>1. fly' = FlyIdle BY <1>4 DEF MarkShape
  <2>2. surfaced' \subseteq Shapes BY <1>1 DEF FlyInv, FlyTypeOK
  <2> QED BY <1>1, <1>3, <2>1, <2>2, BackToIdle
<1>5. CASE ~Raises(out)
  <2>1. fly' = [fly EXCEPT !.pc = "emit"] BY <1>5 DEF MarkShape
  <2>2. surfaced' = surfaced \cup {s} BY <1>1, <1>5 DEF Raises, Performed
  <2>3. /\ fly'.pc = "emit" /\ fly'.at = fly.at /\ fly'.seen = fly.seen /\ fly'.todo = fly.todo
        /\ fly'.verdict = fly.verdict
    BY <2>1 DEF FlyInv, FlyTypeOK
  <2>4. FlyTypeOK' BY <1>1, <2>1, <2>2 DEF FlyInv, FlyTypeOK
  <2>5. SeenInv' /\ TodoInv' BY <1>1, <2>3 DEF FlyInv, SeenInv, TodoInv
  <2>6. HandInv' BY <1>2, <2>2, <2>3 DEF HandInv
  <2>7. ShapesEarned' BY <1>1, <1>3, <2>2 DEF FlyInv, ShapesEarned
  <2> QED BY <2>4, <2>5, <2>6, <2>7 DEF FlyInv
<1> QED BY <1>4, <1>5

LEMMA EmitSpecInv == ASSUME FlyInv, NEW s \in Shapes, NEW out \in PostOutcomes, EmitSpec(s, out) PROVE FlyInv'
<1>1. /\ fly.pc = "emit" /\ s \in fly.at /\ UNCHANGED <<runlog, decision, surfaced, approvedShapes>>
      /\ scaffolds' = IF Performed(out) THEN [scaffolds EXCEPT ![s] = @ + 1] ELSE scaffolds
      /\ fly' = [fly EXCEPT !.pc = "triage", !.todo = @ \ {s}, !.at = {}]
  BY DEF EmitSpec
<1>2. /\ fly'.pc = "triage" /\ fly'.at = {} /\ fly'.seen = fly.seen /\ fly'.todo = fly.todo \ {s}
      /\ fly'.verdict = fly.verdict
  BY <1>1 DEF FlyInv, FlyTypeOK
<1>3. scaffolds' \in [Shapes -> Nat] BY <1>1 DEF FlyInv, FlyTypeOK
<1>4. FlyTypeOK' BY <1>1, <1>3 DEF FlyInv, FlyTypeOK
<1>5. SeenInv' /\ TodoInv' /\ HandInv' BY <1>1, <1>2 DEF FlyInv, SeenInv, TodoInv, HandInv
<1> QED BY <1>1, <1>4, <1>5 DEF FlyInv, ShapesEarned

LEMMA FlyStepInv == FlyInv /\ [FlywheelNext]_flyVars => FlyInv'
<1> SUFFICES ASSUME FlyInv, [FlywheelNext]_flyVars PROVE FlyInv'
  OBVIOUS
<1>1. ASSUME NEW s \in Shapes, NEW done \in BOOLEAN, ObserveRun(s, done) PROVE FlyInv' BY <1>1, ObserveInv
<1>2. ASSUME NEW s \in Shapes, NEW v \in {"approve", "reject"}, DecideShape(s, v) PROVE FlyInv'
  BY <1>2, DecideInv
<1>3. ASSUME NEW s \in Shapes, TriageShape(s) PROVE FlyInv' BY <1>3, TriageInv
<1>4. ASSUME NEW s \in Shapes, NEW out \in PostOutcomes, MarkShape(s, out) PROVE FlyInv' BY <1>4, MarkShapeInv
<1>5. ASSUME NEW s \in Shapes, NEW out \in PostOutcomes, EmitSpec(s, out) PROVE FlyInv' BY <1>5, EmitSpecInv
<1>6. CASE \E seat \in Seats : AddSeat(seat) BY <1>6, FlySameInv DEF AddSeat
<1>7. CASE TickFlywheel BY <1>7, FlyTickInv
<1>8. CASE SurfaceShapes BY <1>8, SurfaceInv
<1>9. CASE EndFlywheel \/ FlywheelDies
  BY <1>9, BackToIdle DEF EndFlywheel, FlywheelDies, FlyInv, FlyTypeOK
<1>10. CASE UNCHANGED flyVars BY <1>10, FlySameInv DEF flyVars
<1> QED BY <1>1, <1>2, <1>3, <1>4, <1>5, <1>6, <1>7, <1>8, <1>9, <1>10 DEF FlywheelNext

LEMMA FlyInvariance == FlywheelSpec => []FlyInv
  BY FlyInitInv, FlyStepInv, PTL DEF FlywheelSpec

\* No scaffold is built on thin evidence or without a human (FW-1..FW-4), for any number of
\* shapes, runs and faults: surface, triage and mark of flywheel_harness.tick.
THEOREM EveryShapeEarned == FlywheelSpec => []ShapesEarned
  BY FlyInvariance, PTL DEF FlyInv

-----------------------------------------------------------------------------
(* The refinement. *)

Claims == [s \in Shapes |-> IF fly.pc = "emit" /\ s \in fly.at THEN 1 ELSE 0]

LEMMA FlyRefinesInit == FlywheelInit => Emission!Init
  BY DEF FlywheelInit, FlyIdle, Emission!Init

\* A step that leaves markers, emissions and the claim alone is a stutter.
LEMMA Stutters ==
  ASSUME UNCHANGED <<surfaced, scaffolds>>, Claims' = Claims PROVE UNCHANGED Emission!vars
  BY DEF Emission!vars, Claims

\* Outside of an emission there is no claim.
LEMMA NoClaim == (fly.pc # "emit" => Claims = [s \in Shapes |-> 0])
                 /\ (fly'.pc # "emit" => Claims' = [s \in Shapes |-> 0])
  BY DEF Claims

LEMMA MarkRefines ==
  ASSUME FlyInv, NEW s \in Shapes, NEW out \in PostOutcomes, MarkShape(s, out)
  PROVE  [Emission!Next]_(Emission!vars)
<1>1. fly.pc = "mark" /\ s \in fly.at /\ UNCHANGED scaffolds BY DEF MarkShape
<1>2. fly.at = {s} /\ s \notin surfaced BY <1>1 DEF FlyInv, HandInv
<1>3. Claims = [t \in Shapes |-> 0] BY <1>1, NoClaim
<1>4. CASE ~Performed(out)
  <2>1. surfaced' = surfaced /\ fly' = FlyIdle BY <1>4 DEF MarkShape, Performed, Raises
  <2>2. Claims' = Claims BY <1>3, <2>1, NoClaim, FlyIdleTyped
  <2> QED BY <1>1, <2>1, <2>2, Stutters
<1>5. CASE Performed(out)
  <2>1. surfaced' = surfaced \cup {s} BY <1>5 DEF MarkShape
  <2>2. Claims' \in {Claims, [Claims EXCEPT ![s] = @ + 1]}
    <3>1. CASE Raises(out)
      <4>1. fly' = FlyIdle BY <3>1 DEF MarkShape
      <4> QED BY <1>3, <4>1, NoClaim, FlyIdleTyped
    <3>2. CASE ~Raises(out)
      <4>1. fly' = [fly EXCEPT !.pc = "emit"] BY <3>2 DEF MarkShape
      <4>2. fly'.pc = "emit" /\ fly'.at = {s} BY <4>1, <1>2 DEF FlyInv, FlyTypeOK
      <4>3. Claims' = [t \in Shapes |-> IF t = s THEN 1 ELSE 0] BY <4>2 DEF Claims
      <4> QED BY <1>3, <4>3
    <3> QED BY <3>1, <3>2
  <2>3. Emission!Claim(s) BY <1>1, <1>2, <2>1, <2>2 DEF Emission!Claim, Claims
  <2> QED BY <2>3 DEF Emission!Next
<1> QED BY <1>4, <1>5

LEMMA EmitRefines ==
  ASSUME FlyInv, NEW s \in Shapes, NEW out \in PostOutcomes, EmitSpec(s, out)
  PROVE  [Emission!Next]_(Emission!vars)
<1>1. fly.pc = "emit" /\ s \in fly.at /\ UNCHANGED surfaced BY DEF EmitSpec
<1>2. fly.at = {s} BY <1>1 DEF FlyInv, HandInv
<1>3. fly'.pc = "triage" BY DEF EmitSpec, FlyInv, FlyTypeOK
<1>4. Claims = [t \in Shapes |-> IF t = s THEN 1 ELSE 0] BY <1>1, <1>2 DEF Claims
<1>5. Claims' = [t \in Shapes |-> 0] BY <1>3, NoClaim
<1>6. Claims' = [Claims EXCEPT ![s] = @ - 1] /\ Claims[s] > 0 BY <1>4, <1>5
<1>7. CASE Performed(out)
  <2>1. scaffolds' = [scaffolds EXCEPT ![s] = @ + 1] BY <1>7 DEF EmitSpec
  <2>2. Emission!Emit(s) BY <1>1, <1>6, <2>1 DEF Emission!Emit, Claims
  <2> QED BY <2>2 DEF Emission!Next
<1>8. CASE ~Performed(out)
  <2>1. scaffolds' = scaffolds BY <1>8 DEF EmitSpec
  <2>2. Emission!Lose(s) BY <1>1, <1>6, <2>1 DEF Emission!Lose, Claims
  <2> QED BY <2>2 DEF Emission!Next
<1> QED BY <1>7, <1>8

\* A pass that is given up loses the claim it holds, if any.
LEMMA IdleRefines ==
  ASSUME FlyInv, fly' = FlyIdle, UNCHANGED <<surfaced, scaffolds>>
  PROVE  [Emission!Next]_(Emission!vars)
<1>1. Claims' = [t \in Shapes |-> 0] BY NoClaim, FlyIdleTyped
<1>2. CASE fly.pc = "emit"
  <2>1. PICK s \in Shapes : fly.at = {s} BY <1>2 DEF FlyInv, HandInv, FlyTypeOK
  <2>2. Claims = [t \in Shapes |-> IF t = s THEN 1 ELSE 0] BY <1>2, <2>1 DEF Claims
  <2>3. Claims' = [Claims EXCEPT ![s] = @ - 1] /\ Claims[s] > 0 BY <1>1, <2>2
  <2>4. Emission!Lose(s) BY <2>3 DEF Emission!Lose, Claims
  <2> QED BY <2>4 DEF Emission!Next
<1>3. CASE fly.pc # "emit"
  <2>1. Claims' = Claims BY <1>1, <1>3, NoClaim
  <2> QED BY <2>1, Stutters
<1> QED BY <1>2, <1>3

LEMMA FlyRefinesNext == FlyInv /\ [FlywheelNext]_flyVars => [Emission!Next]_(Emission!vars)
<1> SUFFICES ASSUME FlyInv, [FlywheelNext]_flyVars PROVE [Emission!Next]_(Emission!vars)
  OBVIOUS
<1>1. ASSUME UNCHANGED <<fly, surfaced, scaffolds>> PROVE [Emission!Next]_(Emission!vars)
  BY <1>1, Stutters DEF Claims
<1>2. ASSUME UNCHANGED <<surfaced, scaffolds>>, fly.pc # "emit", fly'.pc # "emit"
      PROVE  [Emission!Next]_(Emission!vars)
  BY <1>2, Stutters, NoClaim
<1>3. CASE \E s \in Shapes : \/ \E done \in BOOLEAN : ObserveRun(s, done)
                             \/ \E v \in {"approve", "reject"} : DecideShape(s, v)
  BY <1>1, <1>3 DEF ObserveRun, DecideShape
<1>4. ASSUME NEW s \in Shapes, TriageShape(s) PROVE [Emission!Next]_(Emission!vars)
  BY <1>2, <1>4 DEF TriageShape, FlyInv, FlyTypeOK
<1>5. ASSUME NEW s \in Shapes, NEW out \in PostOutcomes, MarkShape(s, out)
      PROVE  [Emission!Next]_(Emission!vars)
  BY <1>5, MarkRefines
<1>6. ASSUME NEW s \in Shapes, NEW out \in PostOutcomes, EmitSpec(s, out)
      PROVE  [Emission!Next]_(Emission!vars)
  BY <1>6, EmitRefines
<1>7. CASE (\E seat \in Seats : AddSeat(seat)) \/ UNCHANGED flyVars
  BY <1>1, <1>7 DEF AddSeat, flyVars
<1>8. CASE TickFlywheel \/ SurfaceShapes
  BY <1>2, <1>8 DEF TickFlywheel, SurfaceShapes, FlyInv, FlyTypeOK, FlyIdle
<1>9. CASE EndFlywheel \/ FlywheelDies
  BY <1>9, IdleRefines DEF EndFlywheel, FlywheelDies
<1> QED BY <1>3, <1>4, <1>5, <1>6, <1>7, <1>8, <1>9 DEF FlywheelNext

\* A scaffold is emitted at most once per claim of its marker, whatever fails: the driver
\* of flywheel_harness.py implements AtMostOnce.
THEOREM FlywheelImplements == FlywheelSpec => FlywheelDelivers
  BY FlyRefinesInit, FlyRefinesNext, FlyInvariance, PTL DEF FlywheelSpec, FlywheelDelivers, Emission!Spec
==============================================================================
