------------------------------ MODULE Hierarchy ------------------------------
(***************************************************************************)
(* The org chart that delegation and escalation go by (acp/hierarchy.py):  *)
(* the validation of a chart, loop by loop, and the two questions it       *)
(* answers, over every chart that can be written down.                     *)
(***************************************************************************)
EXTENDS Naturals, Sequences, FiniteSets

CONSTANT Seats   \* seat ids; the dict lists them in any order
Top == 0         \* reports_to None
Unknown == 99    \* a seat that is not in the chart
ASSUME HierarchyConstants == Seats \subseteq Nat \ {Top, Unknown} /\ IsFiniteSet(Seats)

VARIABLES
  reports,   \* [Seats -> the seat it reports to]
  holds,     \* the seats that hold the capability asked for
  todo,      \* seats whose chain is not checked yet
  cur,       \* where the walk up is
  seen,      \* the walk so far
  verdict    \* "none", "checking", "valid", "unknown" or "cycle"

orgVars == <<reports, holds, todo, cur, seen, verdict>>

HierarchyInit ==
  /\ reports = [s \in Seats |-> Top] /\ holds = {}
  /\ todo = {} /\ cur = Top /\ seen = {} /\ verdict = "none"

\* OrgChart(seats): any chart may be tried.
Construct(boss, able) ==
  /\ verdict = "none"
  /\ reports' = boss /\ holds' = able
  /\ todo' = Seats /\ cur' = Top /\ seen' = {} /\ verdict' = "checking"

Conclude(v) == verdict' = v /\ UNCHANGED <<reports, holds, todo, cur, seen>>

\* __post_init__, first loop: everybody reports to a seat of the chart.
FindUnknown ==
  /\ verdict = "checking" /\ \E s \in Seats : reports[s] = Unknown
  /\ Conclude("unknown")

\* Second loop: from each seat up, watching for a seat met before.
NextSeat(s) ==
  /\ verdict = "checking" /\ Unknown \notin {reports[x] : x \in Seats}
  /\ cur = Top /\ s \in todo
  /\ todo' = todo \ {s} /\ cur' = s /\ seen' = {}
  /\ UNCHANGED <<reports, holds, verdict>>

Meet ==
  /\ verdict = "checking" /\ cur # Top /\ cur \in seen
  /\ Conclude("cycle")

Climb ==
  /\ verdict = "checking" /\ cur # Top /\ cur \notin seen
  /\ seen' = seen \cup {cur} /\ cur' = reports[cur]
  /\ UNCHANGED <<reports, holds, todo, verdict>>

Accept ==
  /\ verdict = "checking" /\ cur = Top /\ todo = {}
  /\ Unknown \notin {reports[x] : x \in Seats}
  /\ Conclude("valid")

HierarchyStep == FindUnknown \/ (\E s \in Seats : NextSeat(s)) \/ Meet \/ Climb \/ Accept
HierarchyNext ==
  \/ \E boss \in [Seats -> Seats \cup {Top, Unknown}], able \in SUBSET Seats : Construct(boss, able)
  \/ HierarchyStep
HierarchySpec == HierarchyInit /\ [][HierarchyNext]_orgVars

-----------------------------------------------------------------------------
(* The questions, on a valid chart. *)

\* escalation_chain: the seats above, nearest first; up[n] is the list after n rounds of its
\* loop, and a chart that was accepted takes less than one round per seat.
EscalationChain(seat) ==
  LET up[n \in 0..Cardinality(Seats)] ==
        IF n = 0 THEN <<>>
        ELSE LET out == up[n - 1]
                 next == reports[IF out = <<>> THEN seat ELSE out[Len(out)]]
             IN  IF next = Top THEN out ELSE Append(out, next)
  IN  up[Cardinality(Seats)]

Subordinates(seat) ==
  {s \in Seats \ {seat} : \E i \in DOMAIN EscalationChain(s) : EscalationChain(s)[i] = seat}

\* How far up seat is from s.
Distance(s, seat) == CHOOSE i \in DOMAIN EscalationChain(s) : EscalationChain(s)[i] = seat

\* Mutant: the subordinate with the smallest name.
DelegateFirst(seat) ==
  LET holders == Subordinates(seat) \cap holds
  IN  IF holders = {} THEN Top ELSE CHOOSE s \in holders : \A t \in holders : s <= t

\* delegate: the nearest subordinate that holds the capability, by name among equals; Top
\* stands for None: nobody below can.
Delegate(seat) ==
  LET holders == Subordinates(seat) \cap holds
  IN  IF holders = {} THEN Top
      ELSE CHOOSE s \in holders : \A t \in holders :
             Distance(s, seat) < Distance(t, seat) \/ (Distance(s, seat) = Distance(t, seat) /\ s <= t)

-----------------------------------------------------------------------------
(* Properties. *)

\* The reference: above[n] are the pairs of seats n steps apart.
Above ==
  LET above[n \in 1..Cardinality(Seats)] ==
        IF n = 1 THEN {<<s, reports[s]>> : s \in Seats}
        ELSE {<<p[1], reports[p[2]]>> : p \in {q \in above[n - 1] : q[2] \in Seats}}
  IN  above
Below(seat, n) == {s \in Seats : <<s, seat>> \in Above[n]}

\* A chart is refused for a circle exactly when it has one, and on a chart that is not
\* refused work is delegated down to the nearest holder and to nobody else, while every
\* seat's escalation ends at the top, with every seat above it on the way.
OrgChartHolds ==
  LET cyclic == \E s \in Seats, n \in 1..Cardinality(Seats) : s \in Below(s, n)
      deep == 1..Cardinality(Seats)
  IN  /\ verdict = "cycle" => cyclic
      /\ verdict = "valid" =>
           /\ ~cyclic
           /\ \A s \in Seats : \A t \in Seats : (\E n \in deep : s \in Below(t, n)) <=> s \in Subordinates(t)
           /\ \A s \in Seats :
                LET d == Delegate(s)
                IN  IF d = Top THEN \A n \in deep : Below(s, n) \cap holds = {}
                    ELSE \E n \in deep : /\ d \in Below(s, n) \cap holds
                                         /\ \A m \in 1..(n - 1) : Below(s, m) \cap holds = {}

\* The validation of any chart, circular ones included, ends.
Validating == verdict = "checking"
==============================================================================
