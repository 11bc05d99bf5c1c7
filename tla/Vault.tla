-------------------------------- MODULE Vault --------------------------------
(***************************************************************************)
(* Promotion of candidate memories into durable memory: the five gates of  *)
(* runtime/vault.py, the nightly pass of vault_harness.py over the live    *)
(* seams of vault_runner.py, and the human who decides in the Decision     *)
(* Queue panel of nc-web.                                                  *)
(*                                                                         *)
(* A verdict travels: page -> decision room -> bridge -> run_events store  *)
(* (fidelity_ingest.record_verdict) -> the approvals a pass folds.  A pass *)
(* reads the candidates, then the approvals, then handles one record after *)
(* another: look at the marker, mark, emit.  Each of these is a remote     *)
(* call of its own, and humans, rollbacks and failures come in between.    *)
(* Passes do not overlap: the scheduler starts one at a time.              *)
(***************************************************************************)
EXTENDS RunEvents, FiniteSets

CONSTANTS
  Keys,          \* candidate keys: source_external_id, or dedup_key when absent
  Records,       \* the candidate records that may be proposed
  Days,          \* injected timestamps, in days
  StoreCap,      \* rows the run_events store keeps for the seat
  MaxDecisions,  \* bound: clicks in the Decision Queue
  MaxRollbacks,  \* bound: rollbacks that take effect
  MaxFaults      \* bound: remote calls that fail and passes that die

Kinds == {"email", "ssn", "card", "aws_key", "api_key", "phone"}   \* _PII
Record == [key : Keys, ver : Nat, category : STRING, conf : 0..10, pii : SUBSET Kinds,
           provenance : BOOLEAN, approval : {"none", "promote", "reject"}]

ASSUME VaultConstants ==
  /\ Records \subseteq Record
  /\ Days \subseteq Nat
  /\ StoreCap \in Nat \ {0}
  /\ {MaxDecisions, MaxRollbacks, MaxFaults} \subseteq Nat

VARIABLES
  log,        \* run_events of the seat, newest first: candidates and verdicts
  proposed,   \* records whose candidate event was written
  marks,      \* vault_promoted: the do-not-re-promote markers
  closet,     \* durable memory: what palace_remember has stored
  pass,       \* the nightly pass
  receipts,   \* promoted records handed back by passes that ended
  seatless,   \* keys whose proposal was posted without a seat
  page,       \* resolved: what the open Decision Queue panel shows as decided
  sending,    \* verdict events being sent
  room,       \* verdicts in the decision room the bridge has not delivered yet
  \* history
  decisions,  \* clicks so far
  landings,   \* [Keys -> times stored]
  rollbacks,  \* rollbacks that took effect
  spoken,     \* [Keys -> the verdicts that reached the store, oldest first]
  trimmed,    \* the store has dropped a row
  forgone,    \* keys an emission of which was cut off or refused
  refused,    \* keys whose first verdict was a reject when the pass read the approvals
  faults

history == <<decisions, landings, rollbacks, spoken, trimmed, forgone, refused, faults>>
clientVars == <<seatless, page, sending, room>>
vaultVars == <<log, proposed, marks, closet, pass, receipts, clientVars, history>>

Idle == [pc |-> "idle", work |-> <<>>, said |-> [k \in Keys |-> "none"], landed |-> {}]

VaultInit ==
  /\ log = <<>> /\ proposed = {} /\ marks = {} /\ closet = {} /\ pass = Idle /\ receipts = {}
  /\ seatless \in SUBSET Keys
  /\ page = [k \in Keys |-> "none"] /\ sending = {} /\ room = <<>>
  /\ decisions = 0 /\ landings = [k \in Keys |-> 0] /\ rollbacks = 0
  /\ spoken = [k \in Keys |-> <<>>] /\ trimmed = FALSE /\ forgone = {} /\ refused = {}
  /\ faults = 0

-----------------------------------------------------------------------------
(* The gates. *)

\* Confidence floors, in tenths.
CONFIDENCE_FLOORS(category) ==
  CASE category = "decision" -> 6
    [] category \in {"fact", "lesson"} -> 5
    [] category = "run" -> 7
    [] OTHER -> 5

Redact(r) == [r EXCEPT !.pii = {}]

\* Mutant: only a rejection stops a record.
PromoteUnlessRejected(r, already, said) ==
  IF already \/ r.conf < CONFIDENCE_FLOORS(r.category) \/ ~r.provenance \/ said[r.key] = "reject"
  THEN "reject" ELSE "promote"

\* Mutant: VL-5 is not looked at.
PromoteAgain(r, already, said) ==
  LET verdict == IF said[r.key] # "none" THEN said[r.key] ELSE r.approval
  IN  IF r.conf >= CONFIDENCE_FLOORS(r.category) /\ r.provenance /\ verdict = "promote"
      THEN "promote" ELSE "hold"

\* VL-1..VL-5.  already: the marker of the record's key is set; said: the approvals,
\* whose entry for a key takes precedence over the record's own ("edit" and True act
\* like "promote").
Promote(r, already, said) ==
  LET verdict == IF said[r.key] # "none" THEN said[r.key] ELSE r.approval
  IN  IF already THEN "reject"
      ELSE IF r.conf < CONFIDENCE_FLOORS(r.category) THEN "hold"
      ELSE IF ~r.provenance \/ verdict = "reject" THEN "reject"
      ELSE IF verdict = "promote" THEN "promote" ELSE "hold"

\* rollback: armed, and promoted neither in the future nor more than TTL days ago.
PROMOTE_TTL_DAYS == 30
Retractable(receipt, now) == receipt.at <= now /\ now - receipt.at <= PROMOTE_TTL_DAYS

\* Mutant: the newest verdict is kept.
LoadApprovalsNewest(rows) ==
  [k \in Keys |->
     LET about == {i \in 1..Len(rows) : rows[i].key = k}
     IN  IF about = {} THEN "none"
         ELSE rows[CHOOSE i \in about : \A j \in about : i <= j].verdict]

\* load_approvals: the rows come newest first and each overwrites what was folded before.
LoadApprovals(rows) ==
  [k \in Keys |->
     LET about == {i \in 1..Len(rows) : rows[i].key = k}
     IN  IF about = {} THEN "none"
         ELSE rows[CHOOSE i \in about : \A j \in about : j <= i].verdict]

-----------------------------------------------------------------------------
(* The Decision Queue panel and the way of a verdict to the store. *)

Fault(out) == /\ Raises(out) => faults < MaxFaults
              /\ faults' = IF Raises(out) THEN faults + 1 ELSE faults

\* decide: shown as resolved at once, the event is on its way.
ClickVerdict(k, v) ==
  /\ page[k] = "none" /\ decisions < MaxDecisions
  /\ page' = [page EXCEPT ![k] = v]
  /\ sending' = sending \cup {[n |-> decisions, key |-> k, verdict |-> v, open |-> TRUE]}
  /\ decisions' = decisions + 1
  /\ UNCHANGED <<seatless, log, proposed, marks, closet, pass, receipts, room, landings, rollbacks,
                 spoken, trimmed, forgone, refused, faults>>

\* The send ends; an error makes the card of the page that sent it decidable again.
Sent(s, out) ==
  /\ Fault(out)
  /\ sending' = sending \ {s}
  /\ room' = IF Performed(out) THEN Append(room, [key |-> s.key, verdict |-> s.verdict]) ELSE room
  /\ page' = IF Raises(out) /\ s.open THEN [page EXCEPT ![s.key] = "none"] ELSE page
  /\ UNCHANGED <<seatless, log, proposed, marks, closet, pass, receipts, decisions, landings, rollbacks,
                 spoken, trimmed, forgone, refused>>

\* resolved is component state: a page that is loaded anew shows every card undecided.
Reload ==
  /\ \E k \in Keys : page[k] # "none"
  /\ page' = [k \in Keys |-> "none"]
  /\ sending' = {[s EXCEPT !.open = FALSE] : s \in sending}
  /\ UNCHANGED <<seatless, log, proposed, marks, closet, pass, receipts, room, history>>

Put(ev) == /\ log' = PutRunEvent(log, ev, StoreCap)
           /\ trimmed' = (trimmed \/ Len(log) = StoreCap)

\* The bridge hands the verdict to the seat, which records it; a failed call is repeated
\* with its transaction (module Channel).  Without a seat the event is no verdict.
RecordVerdict(out) ==
  /\ room # <<>>
  /\ Fault(out)
  /\ LET v == Head(room)
     IN  IF v.key \in seatless
         THEN /\ out = "done" /\ room' = Tail(room)
              /\ UNCHANGED <<log, trimmed, spoken>>
         ELSE /\ room' = IF Raises(out) THEN room ELSE Tail(room)
              /\ IF Performed(out)
                 THEN /\ Put([kind |-> "human_verdict", key |-> v.key,
                              verdict |-> IF v.verdict = "approve" THEN "promote" ELSE "reject"])
                      /\ spoken' = [spoken EXCEPT ![v.key] = Append(@, v.verdict)]
                 ELSE UNCHANGED <<log, trimmed, spoken>>
  /\ UNCHANGED <<seatless, proposed, marks, closet, pass, receipts, page, sending, decisions, landings,
                 rollbacks, forgone, refused>>

\* A run leaves a candidate (the write trigger is outside this repository).
ProposeRecord(r) ==
  /\ r \in Records \ proposed
  /\ proposed' = proposed \cup {r}
  /\ Put([kind |-> "memory_candidate", key |-> r.key, rec |-> r])
  /\ UNCHANGED <<marks, closet, pass, receipts, clientVars, decisions, landings, rollbacks, spoken,
                 forgone, refused, faults>>

-----------------------------------------------------------------------------
(* The pass. *)

TickVault ==
  /\ pass.pc = "idle"
  /\ LET rows == GetRunEvents(log, "memory_candidate")
     IN  pass' = [Idle EXCEPT !.pc = "approvals", !.work = [i \in DOMAIN rows |-> rows[i].rec]]
  /\ UNCHANGED <<log, proposed, marks, closet, receipts, clientVars, history>>

ReadApprovals ==
  /\ pass.pc = "approvals"
  /\ pass' = [pass EXCEPT !.pc = "gate",
                          !.said = LoadApprovals(GetRunEvents(log, "human_verdict"))]
  /\ refused' = {k \in Keys : spoken[k] # <<>> /\ Head(spoken[k]) = "reject"}
  /\ UNCHANGED <<log, proposed, marks, closet, receipts, clientVars, decisions, landings,
                 rollbacks, spoken, trimmed, forgone, faults>>

\* Mutant: a record that is not promoted ends the pass.
GateRecordOrStop ==
  /\ pass.pc = "gate" /\ pass.work # <<>>
  /\ LET r == Head(pass.work)
     IN  pass' = IF Promote(r, r.key \in marks, pass.said) = "promote"
                 THEN [pass EXCEPT !.pc = "mark"] ELSE [pass EXCEPT !.work = <<>>]
  /\ UNCHANGED <<log, proposed, marks, closet, receipts, clientVars, history>>

GateRecord ==
  /\ pass.pc = "gate" /\ pass.work # <<>>
  /\ LET r == Head(pass.work)
     IN  pass' = IF Promote(r, r.key \in marks, pass.said) = "promote"
                 THEN [pass EXCEPT !.pc = "mark"] ELSE [pass EXCEPT !.work = Tail(@)]
  /\ UNCHANGED <<log, proposed, marks, closet, receipts, clientVars, history>>

\* promoted.add, before the emit; if it raises the pass is over.
MarkRecord(out) ==
  /\ pass.pc = "mark"
  /\ Fault(out)
  /\ LET r == Head(pass.work)
     IN  /\ marks' = IF Performed(out) THEN marks \cup {r.key} ELSE marks
         /\ pass' = IF Raises(out) THEN Idle
                    ELSE [pass EXCEPT !.pc = "emit",
                                      !.landed = @ \cup {r}]
         /\ forgone' = IF out = "lost" THEN forgone \cup {r.key} ELSE forgone
  /\ UNCHANGED <<log, proposed, closet, receipts, clientVars, decisions, landings, rollbacks,
                 spoken, trimmed, refused>>

\* Mutant: a record with something to redact is not emitted.
EmitRecordClean(out) ==
  /\ pass.pc = "emit"
  /\ Fault(out)
  /\ LET r == Head(pass.work)
     IN  IF Performed(out) /\ r.pii = {}
         THEN closet' = closet \cup {r} /\ landings' = [landings EXCEPT ![r.key] = @ + 1]
         ELSE UNCHANGED <<closet, landings>>
  /\ pass' = [pass EXCEPT !.pc = "gate", !.work = Tail(@)]
  /\ UNCHANGED <<log, proposed, marks, receipts, clientVars, decisions, rollbacks, spoken, trimmed,
                 forgone, refused>>

\* emit is best effort: whatever becomes of it, the pass goes on.
EmitRecord(out) ==
  /\ pass.pc = "emit"
  /\ Fault(out)
  /\ LET r == Head(pass.work)
     IN  IF Performed(out)
         THEN /\ closet' = closet \cup {Redact(r)}
              /\ landings' = [landings EXCEPT ![r.key] = @ + 1]
              /\ UNCHANGED forgone
         ELSE /\ forgone' = forgone \cup {r.key}
              /\ UNCHANGED <<closet, landings>>
  /\ pass' = [pass EXCEPT !.pc = "gate", !.work = Tail(@)]
  /\ UNCHANGED <<log, proposed, marks, receipts, clientVars, decisions, rollbacks, spoken, trimmed,
                 refused>>

\* The caller gets the promoted records, stamped with the pass's now_ts (which nothing has
\* read before).
EndPass(at) ==
  /\ pass.pc = "gate" /\ pass.work = <<>>
  /\ receipts' = receipts \cup {[key |-> r.key, ver |-> r.ver, at |-> at] : r \in pass.landed}
  /\ pass' = Idle
  /\ UNCHANGED <<log, proposed, marks, closet, clientVars, history>>

\* A read raises, or the process is gone.
PassDies ==
  /\ pass.pc # "idle" /\ Fault("refused")
  /\ forgone' = IF pass.pc = "emit" THEN forgone \cup {Head(pass.work).key} ELSE forgone
  /\ pass' = Idle
  /\ UNCHANGED <<log, proposed, marks, closet, receipts, clientVars, decisions, landings,
                 rollbacks, spoken, trimmed, refused>>

\* VaultPromoter.rollback: the tombstone goes to the caller, the marker is cleared.  The
\* record stays armed and the stored copy stays where it is.
Rollback(receipt, now, out) ==
  /\ receipt \in receipts /\ Retractable(receipt, now)
  /\ rollbacks < MaxRollbacks
  /\ Fault(out)
  /\ IF Performed(out) THEN marks' = marks \ {receipt.key} /\ rollbacks' = rollbacks + 1
                       ELSE UNCHANGED <<marks, rollbacks>>
  /\ UNCHANGED <<log, proposed, closet, pass, receipts, clientVars, decisions, landings, spoken,
                 trimmed, forgone, refused>>

PassStep == ReadApprovals \/ GateRecord \/ (\E out \in PostOutcomes : MarkRecord(out) \/ EmitRecord(out))
            \/ \E at \in Days : EndPass(at)

VaultNext ==
  \/ \E k \in Keys, v \in {"approve", "reject"} : ClickVerdict(k, v)
  \/ \E s \in sending, out \in PostOutcomes : Sent(s, out)
  \/ Reload
  \/ \E out \in PostOutcomes : RecordVerdict(out)
  \/ \E r \in Records : ProposeRecord(r)
  \/ TickVault
  \/ PassStep
  \/ PassDies
  \/ \E receipt \in receipts, now \in Days, out \in PostOutcomes : Rollback(receipt, now, out)

\* The scheduler starts a pass every night, and a pass that was started goes on.
\* Exactly one of the two is possible at any time.  Nobody has to decide, propose or roll back.
VaultFairness == WF_vaultVars(TickVault \/ PassStep)

VaultSpec == VaultInit /\ [][VaultNext]_vaultVars /\ VaultFairness
-----------------------------------------------------------------------------
(* Properties. *)

Verdicts == {"none", "promote", "reject"}
Busy == pass.pc \in {"mark", "emit"}
Current == Head(pass.work)

\* Types; the store keeps its bound and a pass that marks or emits has a record in hand.
TypeOK ==
  /\ log \in Seq([kind : {"memory_candidate"}, key : Keys, rec : Records]
                 \cup [kind : {"human_verdict"}, key : Keys, verdict : Verdicts])
  /\ Len(log) <= StoreCap
  /\ proposed \subseteq Records /\ marks \subseteq Keys /\ seatless \subseteq Keys
  /\ closet \subseteq {Redact(r) : r \in Records}
  /\ pass \in [pc : {"idle", "approvals", "gate", "mark", "emit"}, work : Seq(Records),
               said : [Keys -> Verdicts], landed : SUBSET Records]
  /\ Busy => pass.work # <<>>
  /\ receipts \subseteq [key : Keys, ver : {r.ver : r \in Records}, at : Days]
  /\ page \in [Keys -> {"none", "approve", "reject"}]
  /\ sending \subseteq [n : 0..MaxDecisions, key : Keys, verdict : {"approve", "reject"},
                        open : BOOLEAN]
  /\ room \in Seq([key : Keys, verdict : {"approve", "reject"}])
  /\ decisions \in 0..MaxDecisions /\ landings \in [Keys -> Nat]
  /\ rollbacks \in 0..MaxRollbacks /\ faults \in 0..MaxFaults
  /\ spoken \in [Keys -> Seq({"approve", "reject"})]
  /\ trimmed \in BOOLEAN /\ forgone \subseteq Keys /\ refused \subseteq Keys

\* Nothing is in durable memory that was not confident enough, provenanced, redacted and
\* approved: by the record's own approval, or by a human whose verdict arrived through
\* room, bridge and store, repetitions, changes of mind and trimming included.
LandedIsCleared ==
  \A c \in closet :
    /\ c.pii = {} /\ c.provenance /\ c.conf >= CONFIDENCE_FLOORS(c.category)
    /\ c.approval = "promote" \/ \E i \in DOMAIN spoken[c.key] : spoken[c.key][i] = "approve"

\* The first verdict on a key decides it, as long as the store has dropped nothing: a pass
\* that read the approvals after a rejection marks and emits no record of that key,
\* whatever the human clicked later and whatever the record says of itself.
RejectedStaysOut == Busy /\ ~trimmed => Current.key \notin refused

\* A key is marked without a stored record only if its emission was refused or cut off:
\* a pass forgets no record by itself.
MarkedIsStored ==
  \A k \in marks \ forgone :
    (\E c \in closet : c.key = k) \/ (pass.pc = "emit" /\ Current.key = k)

\* A record is emitted at most once per clearance of its marker, whatever fails or dies
\* between the look at the marker, the mark and the emit, and whenever a rollback comes.
Delivery == INSTANCE AtMostOnce WITH
  Items <- Keys, marked <- marks, emitted <- landings,
  claims <- [k \in Keys |-> IF pass.pc = "emit" /\ Current.key = k THEN 1 ELSE 0]
VaultDelivers == Delivery!Spec

\* A candidate the store still holds, that clears the gates under the verdicts it holds.
Approvable(k) ==
  \E i \in DOMAIN log :
    /\ log[i].kind = "memory_candidate" /\ log[i].key = k
    /\ Promote(log[i].rec, FALSE, LoadApprovals(GetRunEvents(log, "human_verdict"))) = "promote"

\* What a human approved does not wait for ever behind records that are held or rejected:
\* some night its key is marked, or it is no longer approvable.
ApprovedSettles == \A k \in Keys : Approvable(k) ~> (k \in marks \/ ~Approvable(k))
==============================================================================
