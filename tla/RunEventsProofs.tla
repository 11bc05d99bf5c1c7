--------------------------- MODULE RunEventsProofs ---------------------------
(***************************************************************************)
(* What a reader of the run_events store gets: the rows of the kinds asked *)
(* for, all of them, in the order of the log.  RowsOf is a recursive       *)
(* function; what it computes is shown by induction on the length of the   *)
(* prefix read so far.                                                     *)
(***************************************************************************)
EXTENDS RunEvents, WellFoundedInduction, TLAPS

-----------------------------------------------------------------------------
\* Induction up to N, of membership in a set.
LEMMA UpTo ==
  ASSUME NEW N \in Nat, NEW T, 0 \in T, \A n \in 0..N : n \in T /\ n < N => n + 1 \in T
  PROVE  \A n \in 0..N : n \in T
<1> DEFINE Missing == {n \in 0..N : n \notin T}
<1> SUFFICES ASSUME Missing # {} PROVE FALSE OBVIOUS
<1>1. IsWellFoundedOn(OpToRel(<, Nat), Nat) BY NatLessThanWellFounded
<1>2. Missing \subseteq Nat OBVIOUS
<1>3. PICK x \in Missing : \A y \in Missing : ~(<<y, x>> \in OpToRel(<, Nat)) BY <1>1, <1>2, WFMin
<1>4. \A y \in Missing : ~(y < x) BY <1>2, <1>3 DEF OpToRel
<1>5. x \in 0..N /\ x \notin T /\ x # 0 OBVIOUS
<1>6. x - 1 \in 0..N /\ x - 1 < N /\ x - 1 < x BY <1>5
<1>7. x - 1 \in T BY <1>4, <1>6
<1>8. (x - 1) + 1 = x BY <1>5
<1> QED BY <1>5, <1>6, <1>7, <1>8

\* A set of positions has a last one.
LEMMA LastIn ==
  ASSUME NEW N \in Nat, NEW A, A \subseteq 1..N, A # {}
  PROVE  \E i \in A : \A j \in A : j <= i
<1> SUFFICES ASSUME \A i \in A : \E j \in A : i < j PROVE FALSE OBVIOUS
<1> DEFINE T == {n \in 0..N : \E j \in A : n < j}
<1>1. 0 \in T
  <2>1. PICK j \in A : TRUE OBVIOUS
  <2>2. 0 < j /\ 0 \in 0..N OBVIOUS
  <2> QED BY <2>2
<1>2. ASSUME NEW n \in 0..N, n \in T, n < N PROVE n + 1 \in T
  <2>1. PICK j \in A : n < j BY <1>2
  <2>2. CASE j = n + 1
    <3>1. PICK m \in A : j < m OBVIOUS
    <3> QED BY <1>2, <2>2, <3>1
  <2>3. CASE j # n + 1
    <3>1. n + 1 < j BY <2>1, <2>3
    <3> QED BY <1>2, <3>1
  <2> QED BY <2>2, <2>3
<1> HIDE DEF T
<1>3. \A n \in 0..N : n \in T BY <1>1, <1>2, UpTo
<1>4. N \in T BY <1>3
<1> QED BY <1>4 DEF T

-----------------------------------------------------------------------------
\* g[i] are the rows kept of the first i, for i up to n.
Keeps(g, n, log, kinds, S) ==
  /\ g \in [0..n -> Seq(S)]
  /\ g[0] = <<>>
  /\ \A i \in 1..n : g[i] = IF log[i].kind \in kinds THEN Append(g[i - 1], log[i]) ELSE g[i - 1]

LEMMA KeptExists ==
  ASSUME NEW S, NEW log \in Seq(S), NEW kinds
  PROVE  \E g : Keeps(g, Len(log), log, kinds, S)
<1> DEFINE N == Len(log)
           T == {n \in 0..N : \E g : Keeps(g, n, log, kinds, S)}
<1>1. N \in Nat OBVIOUS
<1>2. 0 \in T
  <2>1. Keeps([i \in 0..0 |-> <<>>], 0, log, kinds, S) BY DEF Keeps
  <2> QED BY <1>1, <2>1
<1>3. ASSUME NEW n \in 0..N, n \in T, n < N PROVE n + 1 \in T
  <2>1. PICK g : Keeps(g, n, log, kinds, S) BY <1>3
  <2> DEFINE row == log[n + 1]
             new == IF row.kind \in kinds THEN Append(g[n], row) ELSE g[n]
             h == [i \in 0..(n + 1) |-> IF i <= n THEN g[i] ELSE new]
  <2>2. row \in S BY <1>3
  <2>3. g[n] \in Seq(S) BY <2>1 DEF Keeps
  <2>4. new \in Seq(S) BY <2>2, <2>3
  <2>5. h \in [0..(n + 1) -> Seq(S)] BY <2>1, <2>4 DEF Keeps
  <2>6. h[0] = <<>> BY <2>1 DEF Keeps
  <2>7. ASSUME NEW i \in 1..(n + 1)
        PROVE  h[i] = IF log[i].kind \in kinds THEN Append(h[i - 1], log[i]) ELSE h[i - 1]
    <3>1. CASE i = n + 1
      <4>1. h[i] = new /\ h[i - 1] = g[n] BY <3>1
      <4> QED BY <3>1, <4>1
    <3>2. CASE i \in 1..n
      <4>1. h[i] = g[i] /\ h[i - 1] = g[i - 1] BY <3>2
      <4> QED BY <2>1, <3>2, <4>1 DEF Keeps
    <3> QED BY <3>1, <3>2
  <2>8. Keeps(h, n + 1, log, kinds, S) BY <2>5, <2>6, <2>7 DEF Keeps
  <2>9. n + 1 \in 0..N BY <1>3
  <2> QED BY <2>8, <2>9
<1> HIDE DEF T
<1>4. \A n \in 0..N : n \in T BY <1>1, <1>2, <1>3, UpTo
<1>5. N \in T BY <1>1, <1>4
<1> QED BY <1>5 DEF T

LEMMA RowsAreKept ==
  ASSUME NEW S, NEW log \in Seq(S), NEW kinds
  PROVE  \E g : Keeps(g, Len(log), log, kinds, S) /\ RowsOf(log, kinds) = g[Len(log)]
<1> DEFINE N == Len(log)
           Body(f) == [i \in 0..N |-> IF i = 0 THEN <<>>
                         ELSE IF log[i].kind \in kinds THEN Append(f[i - 1], log[i]) ELSE f[i - 1]]
           kept == CHOOSE f : f = Body(f)
<1>1. PICK g : Keeps(g, N, log, kinds, S) BY KeptExists
<1>2. N \in Nat OBVIOUS
<1>3. g = Body(g)
  <2>1. g = [i \in 0..N |-> g[i]] BY <1>1 DEF Keeps
  <2>2. ASSUME NEW i \in 0..N PROVE g[i] = Body(g)[i]
    <3>1. i = 0 \/ i \in 1..N BY <1>2
    <3> QED BY <1>1, <3>1 DEF Keeps
  <2>3. Body(g) = [i \in 0..N |-> Body(g)[i]] OBVIOUS
  <2> HIDE DEF Body
  <2> QED BY <2>1, <2>2, <2>3
<1>4. kept = Body(kept) BY <1>3
<1>5. RowsOf(log, kinds) = kept[N] BY DEF RowsOf
<1> HIDE DEF kept
<1> DEFINE T == {n \in 0..N : kept[n] = g[n]}
<1>6. 0 \in T
  <2>1. kept[0] = <<>> BY <1>2, <1>4
  <2> QED BY <1>1, <1>2, <2>1 DEF Keeps
<1>7. ASSUME NEW n \in 0..N, n \in T, n < N PROVE n + 1 \in T
  <2>1. n + 1 \in 0..N /\ n + 1 \in 1..N /\ n + 1 # 0 /\ (n + 1) - 1 = n BY <1>7
  <2>2. kept[n + 1] = IF log[n + 1].kind \in kinds THEN Append(kept[n], log[n + 1]) ELSE kept[n]
    BY <1>4, <2>1
  <2>3. g[n + 1] = IF log[n + 1].kind \in kinds THEN Append(g[n], log[n + 1]) ELSE g[n]
    BY <1>1, <2>1 DEF Keeps
  <2> QED BY <1>7, <2>1, <2>2, <2>3
<1> HIDE DEF T
<1>8. \A n \in 0..N : n \in T BY <1>2, <1>6, <1>7, UpTo
<1>9. kept[N] = g[N] BY <1>2, <1>8 DEF T
<1> QED BY <1>1, <1>5, <1>9

-----------------------------------------------------------------------------
\* rows are the rows of the kinds among the first n: f says where each comes from.
Selects(f, rows, n, log, kinds) ==
  /\ f \in [1..Len(rows) -> 1..n]
  /\ \A i \in 1..Len(rows) : rows[i] = log[f[i]] /\ log[f[i]].kind \in kinds
  /\ \A i, j \in 1..Len(rows) : i < j => f[i] < f[j]
  /\ \A m \in 1..n : log[m].kind \in kinds => \E i \in 1..Len(rows) : f[i] = m

\* get_run_events: exactly the rows of the kinds asked for, in the order of the store.
THEOREM RowsSelected ==
  ASSUME NEW S, NEW log \in Seq(S), NEW kinds
  PROVE  /\ RowsOf(log, kinds) \in Seq(S)
         /\ \E f : Selects(f, RowsOf(log, kinds), Len(log), log, kinds)
<1> DEFINE N == Len(log)
<1>1. PICK g : Keeps(g, N, log, kinds, S) /\ RowsOf(log, kinds) = g[N] BY RowsAreKept
<1>2. N \in Nat OBVIOUS
<1> DEFINE T == {n \in 0..N : \E f : Selects(f, g[n], n, log, kinds)}
<1>3. 0 \in T
  <2>1. g[0] = <<>> /\ Len(g[0]) = 0 BY <1>1 DEF Keeps
  <2>2. Selects([i \in 1..0 |-> 0], g[0], 0, log, kinds) BY <2>1 DEF Selects
  <2> QED BY <1>2, <2>2
<1>4. ASSUME NEW n \in 0..N, n \in T, n < N PROVE n + 1 \in T
  <2>1. PICK f : Selects(f, g[n], n, log, kinds) BY <1>4
  <2>2. n + 1 \in 1..N /\ n + 1 \in 0..N /\ (n + 1) - 1 = n BY <1>4
  <2>3. g[n + 1] = IF log[n + 1].kind \in kinds THEN Append(g[n], log[n + 1]) ELSE g[n]
    BY <1>1, <2>2 DEF Keeps
  <2>4. g[n] \in Seq(S) /\ log[n + 1] \in S /\ Len(g[n]) \in Nat BY <1>1, <2>2 DEF Keeps
  <2>5. CASE log[n + 1].kind \in kinds
    <3> DEFINE L == Len(g[n])
               h == [i \in 1..(L + 1) |-> IF i = L + 1 THEN n + 1 ELSE f[i]]
    <3>1. g[n + 1] = Append(g[n], log[n + 1]) BY <2>3, <2>5
    <3>2. /\ Len(g[n + 1]) = L + 1 /\ g[n + 1][L + 1] = log[n + 1]
          /\ \A i \in 1..L : g[n + 1][i] = g[n][i]
      BY <2>4, <3>1
    <3>3. /\ \A i \in 1..L : f[i] \in 1..n /\ g[n][i] = log[f[i]] /\ log[f[i]].kind \in kinds
          /\ \A i, j \in 1..L : i < j => f[i] < f[j]
      BY <2>1 DEF Selects
    <3>4. h \in [1..(L + 1) -> 1..(n + 1)] BY <2>4, <3>3
    <3>5. \A i \in 1..(L + 1) : g[n + 1][i] = log[h[i]] /\ log[h[i]].kind \in kinds
      BY <2>4, <2>5, <3>2, <3>3
    <3>6. ASSUME NEW i \in 1..(L + 1), NEW j \in 1..(L + 1), i < j PROVE h[i] < h[j]
      <4>1. i \in 1..L BY <2>4, <3>6
      <4>2. h[i] = f[i] /\ f[i] \in 1..n BY <2>4, <3>3, <4>1
      <4>3. CASE j = L + 1 BY <2>4, <4>2, <4>3
      <4>4. CASE j \in 1..L BY <2>4, <3>3, <3>6, <4>1, <4>2, <4>4
      <4> QED BY <2>4, <4>3, <4>4
    <3>7. ASSUME NEW m \in 1..(n + 1), log[m].kind \in kinds PROVE \E i \in 1..(L + 1) : h[i] = m
      <4>1. CASE m = n + 1 BY <2>4, <4>1
      <4>2. CASE m \in 1..n
        <5>1. PICK i \in 1..L : f[i] = m BY <2>1, <3>7, <4>2 DEF Selects
        <5>2. i \in 1..(L + 1) /\ h[i] = m BY <2>4, <5>1
        <5> QED BY <5>2
      <4> QED BY <4>1, <4>2
    <3> HIDE DEF h, L
    <3>8. Selects(h, g[n + 1], n + 1, log, kinds) BY <3>2, <3>4, <3>5, <3>6, <3>7 DEF Selects
    <3> QED BY <2>2, <3>8
  <2>6. CASE log[n + 1].kind \notin kinds
    <3>1. g[n + 1] = g[n] BY <2>3, <2>6
    <3>2. Selects(f, g[n + 1], n + 1, log, kinds) BY <2>1, <2>4, <2>6, <3>1 DEF Selects
    <3> QED BY <2>2, <3>2
  <2> QED BY <2>5, <2>6
<1> HIDE DEF T
<1>5. \A n \in 0..N : n \in T BY <1>2, <1>3, <1>4, UpTo
<1>6. N \in T /\ N \in 0..N BY <1>2, <1>5
<1>7. g[N] \in Seq(S) BY <1>1, <1>6 DEF Keeps
<1> QED BY <1>1, <1>6, <1>7 DEF T

\* put_run_event: the new row first, then the rows that were there, as far as there is room.
LEMMA PutKept ==
  ASSUME NEW S, NEW log \in Seq(S), NEW ev \in S, NEW cap \in Nat \ {0}, Len(log) <= cap
  PROVE  LET new == PutRunEvent(log, ev, cap)
         IN  /\ new \in Seq(S) /\ Len(new) <= cap /\ Len(new) >= 1 /\ new[1] = ev
             /\ Len(new) = IF Len(log) < cap THEN Len(log) + 1 ELSE Len(log)
             /\ \A i \in 2..Len(new) : new[i] = log[i - 1]
<1> DEFINE all == <<ev>> \o log
           m == IF Len(log) < cap THEN Len(log) + 1 ELSE cap
<1>1. /\ all \in Seq(S) /\ Len(all) = Len(log) + 1 /\ all[1] = ev
      /\ \A i \in 2..Len(all) : all[i] = log[i - 1]
  OBVIOUS
<1>2. m \in 1..Len(all) BY <1>1
<1> HIDE DEF all
<1>3. SubSeq(all, 1, m) \in Seq(S) /\ Len(SubSeq(all, 1, m)) = m /\ \A i \in 1..m : SubSeq(all, 1, m)[i] = all[i]
  BY <1>1, <1>2
<1>4. PutRunEvent(log, ev, cap) = SubSeq(all, 1, m) BY DEF PutRunEvent, all
<1>5. m <= cap /\ m >= 1 OBVIOUS
<1> QED BY <1>1, <1>2, <1>3, <1>4, <1>5
==============================================================================
