---------------------------- MODULE ChannelProofs ----------------------------
(***************************************************************************)
(* The delivery guarantees of the Matrix bridge, for every queue of        *)
(* transactions and any number of threads, timeouts, faults and restarts:  *)
(* AckedVerdictsPersisted, AckedMessagesAnswered, VerdictsInOrder and      *)
(* RepeatsAddNoTurn of Channel.                                            *)
(*                                                                         *)
(* The argument goes through _seen_txns: an id gets there only when every  *)
(* verdict of its transaction is with the seat, and only a thread whose id *)
(* is there answers 200.  Of its messages, each is answered or still       *)
(* carried by a thread.  Turns are counted with what is on its way: each   *)
(* turn a message has had or may still get from a thread is the first one, *)
(* or is paid for by an early repetition or a restart.                     *)
(***************************************************************************)
EXTENDS Channel, FiniteSets, FiniteSetTheorems, TLAPS

Delivered(t) == \A e \in InTxn(t, "verdict") : persisted[e] > 0
Answered(e) == replies[e] + excused[e] > 0 \/ e \in dropped

Replying == {"turn", "send", "apologise"}

\* What a request knows: the verdicts it has scanned are with the seat, the messages it has
\* scanned are in processed, and past the scan its id is remembered.
ThreadInv(x, acks, ids, posted) ==
  /\ x.txn <= acks + 1
  /\ x.pc = "check" => x.k = 1
  /\ x.pc = "scan" => \A i \in 1..Len(Queue[x.txn]) : i < x.k =>
       /\ Kind[Queue[x.txn][i]] = "verdict" => posted[Queue[x.txn][i]] > 0
       /\ Kind[Queue[x.txn][i]] = "message" =>
            \E n \in 1..Len(x.processed) : x.processed[n] = Queue[x.txn][i]
  /\ x.pc \in Replying \cup {"respond"} => x.txn \in ids
  /\ x.pc \in {"send", "apologise"} => x.k <= Len(x.processed)

ThreadsInv == \A w \in Threads : 
  threads[w] # Idle => ThreadInv(threads[w], acked, seen, persisted)
RequestInv == request # Idle => threads[request] # Idle /\ Txn(request) = acked + 1
SeenInv == \A t \in seen : t <= acked + 1 /\ Delivered(t)
AckedInv == \A t \in 1..acked : Delivered(t) /\ (crashes = 0 => t \in seen)
OrderInv == \A t \in Txns : \A e \in InTxn(t, "verdict") : persisted[e] > 0 => t <= acked + 1

\* A request that will still answer message e of transaction t.
Carries(x, t, e) ==
  /\ x # Idle
  /\ x.txn = t
  /\ x.pc \in Replying
  /\ \E n \in 1..Len(x.processed) : n >= x.k /\ x.processed[n] = e

AnswerInv ==
  crashes = 0 => \A t \in seen : \A e \in InTxn(t, "message") :
    Answered(e) \/ \E w \in Threads : Carries(threads[w], t, e)

IInv == TypeOK /\ ThreadsInv /\ RequestInv /\ SeenInv /\ AckedInv /\ OrderInv /\ AnswerInv

-----------------------------------------------------------------------------
\* The transactions and their events.
LEMMA QueueTyped ==
  ASSUME NEW t \in Txns
  PROVE  /\ Queue[t] \in Seq(Events) /\ Len(Queue[t]) \in Nat
         /\ \A i \in 1..Len(Queue[t]) : Queue[t][i] \in Events
         /\ \A kind : InTxn(t, kind) \subseteq Events
<1>1. Queue[t] \in Seq(Events)
  BY ChannelTyped DEF Txns
<1>2. \A i \in 1..Len(Queue[t]) : Queue[t][i] \in Events
  BY <1>1
<1> QED
  BY <1>1, <1>2 DEF InTxn

\* An event belongs to one transaction.
LEMMA TxnOfEvent ==
  ASSUME NEW t \in Txns, NEW u \in Txns, NEW kind, NEW e \in InTxn(t, kind),
         NEW i \in 1..Len(Queue[u]), Queue[u][i] = e
  PROVE  t = u
BY EventsPushedOnce DEF InTxn

\* What the objects of the thread table are.
LEMMA ThreadTyped ==
  ASSUME TypeOK, NEW w \in Threads, threads[w] # Idle
  PROVE  /\ threads[w] \in Thread /\ Txn(w) \in Txns /\ threads[w].k \in Nat \ {0}
         /\ threads[w].processed \in Seq(Events) /\ Len(threads[w].processed) \in Nat
         /\ \A n \in 1..Len(threads[w].processed) : threads[w].processed[n] \in Events
<1>1. threads[w] \in Thread
  BY DEF TypeOK
<1>2. threads[w].processed \in Seq(Events)
  BY <1>1 DEF Thread
<1>3. \A n \in 1..Len(threads[w].processed) : threads[w].processed[n] \in Events
  BY <1>2
<1> QED
  BY <1>1, <1>2, <1>3 DEF Thread, Txn

\* A thread at work is not idle.
LEMMA NotIdle == \A x \in Thread : x # Idle
BY IdleIsNoThread

\* The thread after Goto.
Redirect(a, p, k) == [a EXCEPT !.pc = p, !.k = k]

Places == {"check", "scan", "turn", "send", "apologise", "respond"}

\* Goto changes a thread's place and nothing else of it.
LEMMA Redirected ==
  ASSUME NEW a \in Thread, NEW k \in Nat \ {0}, NEW p \in Places
  PROVE  /\ Redirect(a, p, k) \in Thread /\ Redirect(a, p, k) # Idle
         /\ Redirect(a, p, k).pc = p /\ Redirect(a, p, k).k = k
         /\ Redirect(a, p, k).txn = a.txn /\ Redirect(a, p, k).processed = a.processed
<1>1. Redirect(a, p, k) \in Thread
  BY DEF Redirect, Thread, Places
<1> QED
  BY <1>1, NotIdle DEF Redirect, Thread

\* Counting one more keeps a table of counts.
LEMMA Counted ==
  ASSUME NEW c \in [Events -> Nat], NEW e \in Events, NEW d, d = [c EXCEPT ![e] = @ + 1]
  PROVE  /\ d \in [Events -> Nat] /\ d[e] > 0
         /\ \A f \in Events : (c[f] > 0 => d[f] > 0) /\ (d[f] > 0 => c[f] > 0 \/ f = e)
<1>1. c[e] \in Nat /\ c[e] + 1 \in Nat /\ c[e] + 1 > 0
  OBVIOUS
<1>2. \A f \in Events : d[f] = IF f = e THEN c[e] + 1 ELSE c[f]
  OBVIOUS
<1> QED
  BY <1>1, <1>2

\* Nothing has been sent at first.
LEMMA InitIInv == Init => IInv
<1> SUFFICES ASSUME Init PROVE IInv
  OBVIOUS
<1>1. TypeOK
  BY ChannelTyped DEF Init, TypeOK, Txns
<1> QED
  BY <1>1, IdleIsNoThread, QueueTyped
     DEF Init, IInv, ThreadsInv, RequestInv, SeenInv, AckedInv, OrderInv, AnswerInv

\* The homeserver sends the transaction after those acknowledged.
LEMMA SendTxnStep ==
  ASSUME IInv, NEW w \in Threads, SendTxn(w)
  PROVE  IInv'
<1> DEFINE x == [txn |-> acked + 1, pc |-> "check", k |-> 1, processed |-> <<>>]
<1>1. /\ threads' = [threads EXCEPT ![w] = x] /\ request' = w /\ threads[w] = Idle
      /\ acked < Len(Queue) /\ request = Idle
      /\ UNCHANGED <<acked, seen, persisted, turns, room, counts>>
  BY DEF SendTxn
<1>2. acked \in Nat /\ Len(Queue) \in Nat /\ acked + 1 \in Txns
  BY <1>1, ChannelTyped DEF IInv, TypeOK, Txns
<1>3. x \in Thread /\ x # Idle
  <2>1. <<>> \in Seq(Events)
    OBVIOUS
  <2>2. x \in Thread
    BY <1>2, <2>1 DEF Thread
  <2> QED
    BY <2>2, IdleIsNoThread
<1>4. TypeOK'
  BY <1>1, <1>3 DEF IInv, TypeOK, room, counts
<1>5. ThreadsInv'
  BY <1>1, <1>2 DEF IInv, TypeOK, ThreadsInv, ThreadInv, Replying
<1>6. RequestInv'
  BY <1>1, <1>3 DEF IInv, TypeOK, RequestInv, Txn
<1>7. SeenInv' /\ AckedInv' /\ OrderInv'
  BY <1>1 DEF IInv, SeenInv, AckedInv, OrderInv, Delivered, counts
<1>8. AnswerInv'
  <2> SUFFICES ASSUME crashes = 0, NEW t \in seen, NEW e \in InTxn(t, "message")
               PROVE  Answered(e) \/ \E v \in Threads : Carries(threads'[v], t, e)
    BY <1>1 DEF AnswerInv, Answered, room, counts
  <2>1. CASE Answered(e)
    BY <2>1
  <2>2. CASE \E v \in Threads : Carries(threads[v], t, e)
    <3>1. PICK v \in Threads : Carries(threads[v], t, e)
      BY <2>2
    <3>2. v # w
      BY <3>1, <1>1 DEF Carries
    <3> QED
      BY <3>1, <3>2, <1>1 DEF IInv, TypeOK
  <2> QED
    BY <2>1, <2>2 DEF IInv, AnswerInv
<1> QED
  BY <1>4, <1>5, <1>6, <1>7, <1>8 DEF IInv

\* Giving up changes only what the homeserver waits for.
LEMMA TimeoutStep == IInv /\ Timeout => IInv'
<1> SUFFICES ASSUME IInv, Timeout PROVE IInv'
  OBVIOUS
<1>1. /\ request' = Idle /\ timeouts' = timeouts + 1 /\ timeouts < MaxTimeouts
      /\ request \in Threads /\ threads[request] # Idle
      /\ UNCHANGED <<acked, threads, seen, persisted, turns, room, faults, crashes>>
  BY DEF Timeout, IInv, TypeOK, RequestInv
<1>2. early' \in [Txns -> Nat]
  BY <1>1, ThreadTyped DEF Timeout, IInv, TypeOK
<1>3. TypeOK'
  BY <1>1, <1>2, ChannelTyped DEF IInv, TypeOK, room
<1>4. ThreadsInv' /\ RequestInv' /\ SeenInv' /\ AckedInv' /\ OrderInv' /\ AnswerInv'
  BY <1>1 DEF IInv, ThreadsInv, ThreadInv, RequestInv, SeenInv, AckedInv, OrderInv,
              AnswerInv, Answered, Delivered, room
<1> QED
  BY <1>3, <1>4 DEF IInv

-----------------------------------------------------------------------------
\* A thread moves to another place of its request, or ends it.
Moved(w, x) ==
  /\ threads' = [threads EXCEPT ![w] = x]
  /\ x = Idle \/ (x \in Thread /\ x.txn = Txn(w) /\ ThreadInv(x, acked', seen', persisted'))

\* What such a move keeps, whatever it calls: ids and verdicts only grow.
LEMMA MoveKeeps ==
  ASSUME IInv, NEW w \in Threads, threads[w] # Idle, NEW x, Moved(w, x),
         acked' = acked, seen \subseteq seen', seen' \subseteq Txns,
         persisted' \in [Events -> Nat], \A e \in Events : persisted[e] > 0 => persisted'[e] > 0,
         \/ request' = request /\ x # Idle
         \/ request' = IF request = w THEN Idle ELSE request
  PROVE  /\ threads' \in [Threads -> Thread \cup {Idle}]
         /\ request' \in Threads \cup {Idle}
         /\ ThreadsInv' /\ RequestInv'
<1>1. threads' \in [Threads -> Thread \cup {Idle}] /\ request' \in Threads \cup {Idle}
  BY DEF Moved, IInv, TypeOK
<1>2. ThreadsInv'
  <2> SUFFICES ASSUME NEW v \in Threads, threads'[v] # Idle 
               PROVE  ThreadInv(threads'[v], acked', seen', persisted')
    BY DEF ThreadsInv
  <2>1. CASE v = w
    BY <2>1 DEF Moved, IInv, TypeOK
  <2>2. CASE v # w
    <3>1. threads'[v] = threads[v] /\ ThreadInv(threads[v], acked, seen, persisted)
           /\ threads[v].txn \in Txns
      BY <2>2, ThreadTyped DEF Moved, IInv, TypeOK, ThreadsInv, Txn
    <3>2. \A i \in 1..Len(Queue[threads[v].txn]) : Queue[threads[v].txn][i] \in Events
      BY <3>1, QueueTyped
    <3> QED
      BY <3>1, <3>2 DEF ThreadInv
  <2> QED
    BY <2>1, <2>2
<1>3. RequestInv'
  BY IdleIsNoThread DEF Moved, IInv, TypeOK, RequestInv, Txn
<1> QED
  BY <1>1, <1>2, <1>3

\* The move leaves what is seen and delivered alone.
LEMMA QuietMove ==
  ASSUME IInv, NEW w \in Threads, threads[w] # Idle, NEW x, Moved(w, x),
         acked' = acked, seen' = seen, persisted' = persisted, crashes' = crashes,
         \/ request' = request /\ x # Idle
         \/ request' = IF request = w THEN Idle ELSE request
  PROVE  /\ threads' \in [Threads -> Thread \cup {Idle}]
         /\ request' \in Threads \cup {Idle}
         /\ ThreadsInv' /\ RequestInv' /\ SeenInv' /\ AckedInv' /\ OrderInv'
<1>1. /\ threads' \in [Threads -> Thread \cup {Idle}]
      /\ request' \in Threads \cup {Idle}
      /\ ThreadsInv' /\ RequestInv'
  BY MoveKeeps DEF IInv, TypeOK
<1>2. SeenInv' /\ AckedInv' /\ OrderInv'
  BY DEF IInv, SeenInv, AckedInv, OrderInv, Delivered
<1> QED
  BY <1>1, <1>2

\* Answers are never taken back, and a message is carried on or answered.
LEMMA AnswersKept ==
  ASSUME IInv, NEW w \in Threads, NEW x, threads' = [threads EXCEPT ![w] = x],
         seen' = seen, crashes' = crashes,
         \A e \in Events : Answered(e) => Answered(e)',
         \A t \in Txns, e \in Events :
           Carries(threads[w], t, e) => Carries(x, t, e) \/ Answered(e)'
  PROVE  AnswerInv'
<1> SUFFICES ASSUME crashes = 0, NEW t \in seen, NEW e \in InTxn(t, "message")
             PROVE  Answered(e)' \/ \E v \in Threads : Carries(threads'[v], t, e)
  BY DEF AnswerInv
<1>1. t \in Txns /\ e \in Events
  BY QueueTyped DEF IInv, TypeOK
<1>2. CASE Answered(e)
  BY <1>1, <1>2
<1>3. CASE \E v \in Threads : Carries(threads[v], t, e)
  <2>1. PICK v \in Threads : Carries(threads[v], t, e)
    BY <1>3
  <2>2. CASE v = w
    BY <1>1, <2>1, <2>2 DEF IInv, TypeOK
  <2>3. CASE v # w
    BY <2>1, <2>3 DEF IInv, TypeOK
  <2> QED
    BY <2>2, <2>3
<1> QED
  BY <1>2, <1>3 DEF IInv, AnswerInv

-----------------------------------------------------------------------------
\* Dedup: an id seen goes straight to its answer, another to the scan.
LEMMA CheckStep ==
  ASSUME IInv, NEW w \in Threads, Check(w)
  PROVE  IInv'
<1> DEFINE a == threads[w]
           pc == IF Txn(w) \in seen THEN "respond" ELSE "scan"
           x == Redirect(a, pc, 1)
<1>1. /\ a # Idle /\ a \in Thread /\ a.pc = "check" /\ a.txn = Txn(w)
      /\ ThreadInv(a, acked, seen, persisted)
  BY ThreadTyped DEF Check, At, IInv, ThreadsInv, Txn
<1>2. threads' = [threads EXCEPT ![w] = x]
  BY <1>1 DEF Check, Goto, Redirect, IInv, TypeOK
<1>3. UNCHANGED <<acked, request, seen, persisted, turns, room, counts>>
  BY DEF Check
<1>4. x \in Thread /\ x # Idle /\ x.txn = Txn(w) /\ x.k = 1 /\ x.pc = pc
  <2> HIDE DEF pc
  <2>1. pc \in {"respond", "scan"}
    BY DEF pc
  <2>2. pc \in Places
    BY <2>1 DEF Places
  <2> QED
    BY <1>1, <2>2, Redirected
<1>5. ThreadInv(x, acked, seen, persisted)
  <2>1. /\ x.pc = "respond" => Txn(w) \in seen
        /\ x.pc \in {"respond", "scan"} /\ Txn(w) <= acked + 1
    BY <1>1, <1>4 DEF ThreadInv
  <2>2. \A n \in 1..Len(Queue[x.txn]) : ~(n < x.k)
    BY <1>1, <1>4, QueueTyped
  <2> HIDE DEF x
  <2> QED
    BY <1>4, <2>1, <2>2 DEF ThreadInv, Replying
<1>6. Moved(w, x)
  BY <1>2, <1>3, <1>4, <1>5 DEF Moved
<1>7. AnswerInv'
  <2>1. \A t \in Txns, e \in Events : ~Carries(a, t, e)
    BY <1>1 DEF Carries, Replying
  <2>2. crashes' = crashes /\ seen' = seen /\ \A e \in Events : Answered(e) => Answered(e)'
    BY <1>3 DEF Answered, room, counts
  <2> QED
    BY <1>2, <2>1, <2>2, AnswersKept
<1>8. /\ threads' \in [Threads -> Thread \cup {Idle}] /\ request' \in Threads \cup {Idle}
      /\ ThreadsInv' /\ RequestInv' /\ SeenInv' /\ AckedInv' /\ OrderInv'
  BY <1>1, <1>3, <1>4, <1>6, QuietMove DEF counts
<1> QED
  BY <1>3, <1>7, <1>8 DEF IInv, TypeOK, room, counts

\* A verdict is with its seat before the scan moves on; otherwise the request dies.
LEMMA ForwardVerdictStep ==
  ASSUME IInv, NEW w \in Threads, ForwardVerdict(w)
  PROVE  IInv'
<1> DEFINE a == threads[w]
           e == Event(w)
           x == Redirect(a, "scan", a.k + 1)
<1>1. /\ a # Idle /\ a \in Thread /\ a.pc = "scan" /\ a.txn = Txn(w) /\ Txn(w) \in Txns
      /\ ThreadInv(a, acked, seen, persisted)
  BY ThreadTyped DEF ForwardVerdict, At, IInv, ThreadsInv, Txn
<1>2. /\ a.k \in 1..Len(Queue[Txn(w)]) /\ e = Queue[Txn(w)][a.k] /\ e \in Events
      /\ Kind[e] = "verdict" /\ e \in InTxn(Txn(w), "verdict")
  <2>1. a.k \in Nat \ {0} /\ Len(Queue[Txn(w)]) \in Nat /\ ~(a.k > Len(Queue[Txn(w)]))
    BY <1>1, QueueTyped DEF ForwardVerdict, Scanned, Thread
  <2>2. a.k \in 1..Len(Queue[Txn(w)]) /\ e = Queue[Txn(w)][a.k] /\ Kind[e] = "verdict"
    BY <2>1 DEF Event, ForwardVerdict
  <2> QED
    BY <1>1, <2>2, QueueTyped DEF InTxn
<1>3. UNCHANGED <<acked, seen, turns, room, timeouts, crashes, early>>
  BY DEF ForwardVerdict, Fault, counts
<1> HIDE DEF e
<1>4. /\ persisted' \in [Events -> Nat] /\ faults' \in 0..MaxFaults
      /\ persisted' = persisted \/ persisted' = [persisted EXCEPT ![e] = @ + 1]
      /\ persisted \in [Events -> Nat]
  <2>1. persisted' = persisted \/ persisted' = [persisted EXCEPT ![e] = @ + 1]
    BY DEF ForwardVerdict, e
  <2>2. faults' \in 0..MaxFaults
    BY ChannelTyped DEF ForwardVerdict, Fault, counts, IInv, TypeOK
  <2>3. persisted \in [Events -> Nat]
    BY DEF IInv, TypeOK
  <2>4. persisted' \in [Events -> Nat]
    BY <1>2, <2>1, <2>3, Counted
  <2> QED
    BY <2>1, <2>2, <2>3, <2>4
<1>5. \A f \in Events : /\ persisted[f] > 0 => persisted'[f] > 0
                        /\ persisted'[f] > 0 => persisted[f] > 0 \/ f = e
  <2>1. CASE persisted' = persisted
    BY <2>1
  <2>2. CASE persisted' = [persisted EXCEPT ![e] = @ + 1]
    BY <1>2, <1>4, <2>2, Counted
  <2> QED
    BY <1>4, <2>1, <2>2
<1>6. \/ /\ Moved(w, x) /\ x # Idle /\ request' = request
      \/ Moved(w, Idle) /\ request' = IF request = w THEN Idle ELSE request
  <2>1. CASE Die(w)
    BY <2>1 DEF Die, Moved
  <2>2. CASE /\ persisted' = [persisted EXCEPT ![e] = @ + 1]
             /\ Goto(w, "scan", a.k + 1)
             /\ UNCHANGED <<request, counts>>
    <3>1. threads' = [threads EXCEPT ![w] = x] /\ request' = request
      BY <1>1, <2>2 DEF Goto, Redirect, IInv, TypeOK
    <3>2. x \in Thread /\ x # Idle /\ x.txn = Txn(w) /\ x.pc = "scan" /\ x.k = a.k + 1
          /\ x.processed = a.processed
      <4>1. a.k + 1 \in Nat \ {0}
        BY <1>1 DEF Thread
      <4>2. "scan" \in Places
        BY DEF Places
      <4> QED
        BY <1>1, <4>1, <4>2, Redirected
    <3>3. persisted'[e] > 0
      BY <1>2, <1>4, <2>2, Counted
    <3>4. ASSUME NEW i \in 1..Len(Queue[Txn(w)]), i < a.k + 1
          PROVE  /\ Kind[Queue[Txn(w)][i]] = "verdict" => persisted'[Queue[Txn(w)][i]] > 0
                 /\ Kind[Queue[Txn(w)][i]] = "message" =>
                      \E n \in 1..Len(a.processed) : a.processed[n] = Queue[Txn(w)][i]
      <4>1. CASE i = a.k
        BY <1>2, <3>3, <4>1
      <4>2. CASE i # a.k
        <5>1. i < a.k
          BY <1>2, <3>4, <4>2
        <5>2. Queue[Txn(w)][i] \in Events
          BY <1>1, QueueTyped
        <5> QED
          BY <1>1, <1>5, <5>1, <5>2 DEF ThreadInv
      <4> QED
        BY <4>1, <4>2
    <3>5. ThreadInv(x, acked', seen', persisted')
      <4> HIDE DEF x
      <4>1. x.pc \notin Replying \cup {"respond"} /\ Txn(w) <= acked' + 1
        BY <1>1, <1>3, <3>2 DEF ThreadInv, Replying
      <4> QED
        BY <3>2, <3>4, <4>1 DEF ThreadInv
    <3> QED
      BY <3>1, <3>2, <3>5 DEF Moved
  <2> QED
    BY <2>1, <2>2 DEF ForwardVerdict, e
<1>7. /\ threads' \in [Threads -> Thread \cup {Idle}] /\ request' \in Threads \cup {Idle}
      /\ ThreadsInv' /\ RequestInv'
  <2>1. seen \subseteq seen' /\ seen' \subseteq Txns /\ acked' = acked
    BY <1>3 DEF IInv, TypeOK
  <2> QED
    BY <1>1, <1>4, <1>5, <1>6, <2>1, MoveKeeps
<1>8. SeenInv' /\ AckedInv'
  <2>1. \A t \in Txns : Delivered(t) => Delivered(t)'
    BY <1>5, QueueTyped DEF Delivered
  <2>2. seen \subseteq Txns /\ 1..acked \subseteq Txns
    BY DEF IInv, TypeOK, Txns
  <2> QED
    BY <1>3, <2>1, <2>2 DEF IInv, SeenInv, AckedInv
<1>9. OrderInv'
  <2> SUFFICES ASSUME NEW t \in Txns, NEW f \in InTxn(t, "verdict"), persisted'[f] > 0
               PROVE  t <= acked + 1
    BY <1>3 DEF OrderInv
  <2>1. f \in Events
    BY QueueTyped
  <2>2. CASE f = e
    BY <1>1, <1>2, <2>2, TxnOfEvent DEF ThreadInv
  <2> QED
    BY <1>5, <2>1, <2>2 DEF IInv, OrderInv
<1>10. AnswerInv'
  <2>1. \A t \in Txns, f \in Events : ~Carries(a, t, f)
    BY <1>1 DEF Carries, Replying
  <2>2. crashes' = crashes /\ seen' = seen /\ \A f \in Events : Answered(f) => Answered(f)'
    BY <1>3 DEF Answered, room
  <2> QED
    BY <1>6, <2>1, <2>2, AnswersKept DEF Moved
<1>11. TypeOK'
  BY <1>3, <1>4, <1>7 DEF IInv, TypeOK, room
<1> QED
  BY <1>7, <1>8, <1>9, <1>10, <1>11 DEF IInv

\* A message is kept for do_PUT before the scan moves on.
LEMMA ScanEventStep ==
  ASSUME IInv, NEW w \in Threads, ScanEvent(w)
  PROVE  IInv'
<1> DEFINE a == threads[w]
           e == Event(w)
           q == IF Kind[e] = "message" THEN Append(a.processed, e) ELSE a.processed
           x == [a EXCEPT !.k = @ + 1, !.processed = q]
<1>1. /\ a # Idle /\ a \in Thread /\ a.pc = "scan" /\ a.txn = Txn(w) /\ Txn(w) \in Txns
      /\ ThreadInv(a, acked, seen, persisted)
      /\ a.k \in Nat \ {0} /\ a.processed \in Seq(Events) /\ Len(a.processed) \in Nat
  BY ThreadTyped DEF ScanEvent, At, IInv, ThreadsInv, Txn
<1>2. a.k \in 1..Len(Queue[Txn(w)]) /\ e = Queue[Txn(w)][a.k] /\ e \in Events /\ Kind[e] # "verdict"
  <2>1. Len(Queue[Txn(w)]) \in Nat /\ ~(a.k > Len(Queue[Txn(w)])) /\ Kind[e] # "verdict"
    BY <1>1, QueueTyped DEF ScanEvent, Scanned
  <2> QED
    BY <1>1, <2>1, QueueTyped DEF Event
<1>3. /\ UNCHANGED <<acked, request, seen, persisted, turns, room, counts>>
      /\ threads' = [threads EXCEPT ![w] = x]
  BY <1>1 DEF ScanEvent, IInv, TypeOK
<1>4. /\ q \in Seq(Events) /\ Len(q) \in Nat
      /\ \A n \in 1..Len(a.processed) : n \in 1..Len(q) /\ q[n] = a.processed[n]
      /\ Kind[e] = "message" => \E n \in 1..Len(q) : q[n] = e
  <2>1. CASE Kind[e] = "message"
    <3>1. q = Append(a.processed, e)
      BY <2>1
    <3>2. /\ q \in Seq(Events) /\ Len(q) = Len(a.processed) + 1 /\ q[Len(q)] = e
          /\ \A n \in 1..Len(a.processed) : q[n] = a.processed[n]
      <4> HIDE DEF a, e, q
      <4> QED
        BY <1>1, <1>2, <3>1
    <3> QED
      BY <1>1, <3>2
  <2>2. CASE Kind[e] # "message"
    BY <1>1, <2>2
  <2> QED
    BY <2>1, <2>2
<1>5. /\ x \in Thread /\ x # Idle /\ x.txn = Txn(w) /\ x.pc = "scan" /\ x.k = a.k + 1
      /\ x.processed = q
  <2> HIDE DEF q
  <2>1. a.k + 1 \in Nat \ {0} /\ q \in Seq(Events)
    BY <1>1, <1>4
  <2>2. x \in Thread
    BY <1>1, <2>1 DEF Thread
  <2> QED
    BY <1>1, <2>2, NotIdle DEF Thread
<1>6. ThreadInv(x, acked, seen, persisted)
  <2> HIDE DEF q
  <2>1. ASSUME NEW i \in 1..Len(Queue[Txn(w)]), i < a.k + 1
        PROVE  /\ Kind[Queue[Txn(w)][i]] = "verdict" => persisted[Queue[Txn(w)][i]] > 0
               /\ Kind[Queue[Txn(w)][i]] = "message" =>
                    \E n \in 1..Len(q) : q[n] = Queue[Txn(w)][i]
    <3>1. CASE i = a.k
      BY <1>2, <1>4, <3>1
    <3>2. CASE i # a.k
      <4>1. i < a.k
        BY <1>2, <2>1, <3>2
      <4>2. /\ Kind[Queue[Txn(w)][i]] = "verdict" => persisted[Queue[Txn(w)][i]] > 0
            /\ Kind[Queue[Txn(w)][i]] = "message" =>
                 \E n \in 1..Len(a.processed) : a.processed[n] = Queue[Txn(w)][i]
        BY <1>1, <4>1 DEF ThreadInv
      <4> QED
        BY <1>4, <4>2
    <3> QED
      BY <3>1, <3>2
  <2> HIDE DEF x
  <2> QED
    BY <1>1, <1>5, <2>1 DEF ThreadInv, Replying
<1>7. Moved(w, x)
  BY <1>3, <1>5, <1>6 DEF Moved
<1>8. AnswerInv'
  <2>1. \A t \in Txns, f \in Events : ~Carries(a, t, f)
    BY <1>1 DEF Carries, Replying
  <2>2. crashes' = crashes /\ seen' = seen /\ \A f \in Events : Answered(f) => Answered(f)'
    BY <1>3 DEF Answered, room, counts
  <2> HIDE DEF x
  <2> QED
    BY <1>3, <2>1, <2>2, AnswersKept
<1>9. /\ threads' \in [Threads -> Thread \cup {Idle}] /\ request' \in Threads \cup {Idle}
      /\ ThreadsInv' /\ RequestInv' /\ SeenInv' /\ AckedInv' /\ OrderInv'
  <2> HIDE DEF x
  <2> QED
    BY <1>1, <1>3, <1>5, <1>7, QuietMove DEF counts
<1> QED
  BY <1>3, <1>8, <1>9 DEF IInv, TypeOK, room, counts

\* The id is remembered once the whole transaction is scanned: its verdicts are with the
\* seat, and this thread carries its messages.
LEMMA MarkSeenStep ==
  ASSUME IInv, NEW w \in Threads, MarkSeen(w)
  PROVE  IInv'
<1> DEFINE a == threads[w]
           x == Redirect(a, "turn", 1)
<1>1. /\ a # Idle /\ a \in Thread /\ a.pc = "scan" /\ a.txn = Txn(w) /\ Txn(w) \in Txns
      /\ ThreadInv(a, acked, seen, persisted)
      /\ a.k \in Nat \ {0} /\ Len(a.processed) \in Nat
  BY ThreadTyped DEF MarkSeen, At, IInv, ThreadsInv, Txn
<1>2. Len(Queue[Txn(w)]) \in Nat /\ a.k > Len(Queue[Txn(w)])
  BY <1>1, QueueTyped DEF MarkSeen, Scanned
<1>3. /\ UNCHANGED <<acked, request, persisted, turns, room, counts>>
      /\ seen' = seen \cup {Txn(w)}
      /\ threads' = [threads EXCEPT ![w] = x]
  BY <1>1 DEF MarkSeen, Goto, Redirect, IInv, TypeOK
<1>4. /\ x \in Thread /\ x # Idle /\ x.pc = "turn" /\ x.k = 1 /\ x.txn = Txn(w)
      /\ x.processed = a.processed
  <2>1. "turn" \in Places
    BY DEF Places
  <2> QED
    BY <1>1, <2>1, Redirected
<1> HIDE DEF x
<1>5. \A i \in 1..Len(Queue[Txn(w)]) :
        /\ Kind[Queue[Txn(w)][i]] = "verdict" => persisted[Queue[Txn(w)][i]] > 0
        /\ Kind[Queue[Txn(w)][i]] = "message" =>
             \E n \in 1..Len(a.processed) : a.processed[n] = Queue[Txn(w)][i]
  BY <1>1, <1>2 DEF ThreadInv
<1>6. Delivered(Txn(w))
  BY <1>5 DEF Delivered, InTxn
<1>7. ThreadInv(x, acked', seen', persisted')
  BY <1>1, <1>3, <1>4 DEF ThreadInv, Replying
<1>8. Moved(w, x)
  BY <1>3, <1>4, <1>7 DEF Moved
<1>9. /\ threads' \in [Threads -> Thread \cup {Idle}] /\ request' \in Threads \cup {Idle}
      /\ ThreadsInv' /\ RequestInv'
  <2>1. /\ seen \subseteq seen' /\ seen' \subseteq Txns /\ acked' = acked
        /\ persisted' \in [Events -> Nat] /\ persisted' = persisted
    BY <1>1, <1>3 DEF IInv, TypeOK
  <2> QED
    BY <1>1, <1>3, <1>4, <1>8, <2>1, MoveKeeps
<1>10. SeenInv' /\ AckedInv' /\ OrderInv'
  BY <1>1, <1>3, <1>6
     DEF IInv, SeenInv, AckedInv, OrderInv, Delivered, ThreadInv, counts
<1>11. AnswerInv'
  <2> SUFFICES ASSUME crashes = 0, NEW t \in seen', NEW e \in InTxn(t, "message")
               PROVE  Answered(e) \/ \E v \in Threads : Carries(threads'[v], t, e)
    BY <1>3 DEF AnswerInv, Answered, room, counts
  <2>1. CASE t = Txn(w)
    <3>1. PICK i \in 1..Len(Queue[t]) : Queue[t][i] = e /\ Kind[e] = "message"
      BY DEF InTxn
    <3>2. PICK n \in 1..Len(a.processed) : a.processed[n] = e
      BY <1>5, <2>1, <3>1
    <3>3. Carries(x, t, e)
      BY <1>1, <1>4, <2>1, <3>2 DEF Carries, Replying
    <3>4. threads'[w] = x
      BY <1>3 DEF IInv, TypeOK
    <3> QED
      BY <3>3, <3>4
  <2>2. CASE t # Txn(w)
    <3>1. t \in seen
      BY <1>3, <2>2
    <3>2. CASE Answered(e)
      BY <3>2
    <3>3. CASE \E v \in Threads : Carries(threads[v], t, e)
      <4>1. PICK v \in Threads : Carries(threads[v], t, e)
        BY <3>3
      <4>2. v # w
        BY <1>1, <2>2, <4>1 DEF Carries
      <4> QED
        BY <1>3, <4>1, <4>2 DEF IInv, TypeOK
    <3> QED
      BY <3>1, <3>2, <3>3 DEF IInv, AnswerInv
  <2> QED
    BY <2>1, <2>2
<1> QED
  BY <1>1, <1>3, <1>9, <1>10, <1>11 DEF IInv, TypeOK, room, counts

\* In do_PUT a thread moves to place p at message k; the message it leaves behind is answered.
LEMMA ReplyingStep ==
  ASSUME IInv, NEW w \in Threads, threads[w] # Idle, threads[w].pc \in Replying,
         NEW p \in Replying, NEW k \in Nat \ {0}, Goto(w, p, k),
         p \in {"send", "apologise"} => k <= Len(threads[w].processed),
         \/ k = threads[w].k
         \/ k = threads[w].k + 1 /\ \A e \in Events : e = Message(w) => Answered(e)',
         UNCHANGED <<acked, request, seen, persisted, timeouts, crashes, early>>,
         \A e \in Events : Answered(e) => Answered(e)'
  PROVE  /\ threads' \in [Threads -> Thread \cup {Idle}] /\ request' \in Threads \cup {Idle}
         /\ ThreadsInv' /\ RequestInv' /\ SeenInv' /\ AckedInv' /\ OrderInv' /\ AnswerInv'
<1> DEFINE a == threads[w]
           x == Redirect(a, p, k)
<1>1. /\ a \in Thread /\ a.txn = Txn(w) /\ ThreadInv(a, acked, seen, persisted)
      /\ a.k \in Nat \ {0} /\ Len(a.processed) \in Nat
  BY ThreadTyped DEF IInv, ThreadsInv, Txn
<1>2. threads' = [threads EXCEPT ![w] = x]
  BY <1>1 DEF Goto, Redirect, IInv, TypeOK
<1>3. /\ x \in Thread /\ x # Idle /\ x.pc = p /\ x.k = k /\ x.txn = Txn(w)
      /\ x.processed = a.processed
  <2>1. p \in Places
    BY DEF Places, Replying
  <2> QED
    BY <1>1, <2>1, Redirected
<1> HIDE DEF x
<1>4. ThreadInv(x, acked, seen, persisted)
  BY <1>1, <1>3 DEF ThreadInv, Replying
<1>5. Moved(w, x)
  BY <1>2, <1>3, <1>4 DEF Moved
<1>6. ASSUME NEW t \in Txns, NEW e \in Events, Carries(a, t, e)
      PROVE  Carries(x, t, e) \/ Answered(e)'
  <2>1. PICK n \in 1..Len(a.processed) : n >= a.k /\ a.processed[n] = e
    BY <1>6 DEF Carries
  <2>2. CASE n >= k
    BY <1>3, <1>6, <1>1, <2>1, <2>2 DEF Carries
  <2>3. CASE ~(n >= k)
    <3>1. n = a.k /\ k = a.k + 1
      BY <1>1, <2>1, <2>3
    <3>2. e = Message(w)
      BY <2>1, <3>1 DEF Message
    <3> QED
      BY <3>1, <3>2
  <2> QED
    BY <2>2, <2>3
<1> QED
  BY <1>2, <1>3, <1>5, <1>6, AnswersKept, QuietMove

\* The message a thread is at, while it is not through with its messages.
LEMMA MessageTyped ==
  ASSUME TypeOK, NEW w \in Threads, threads[w] # Idle, threads[w].k <= Len(threads[w].processed)
  PROVE  Message(w) \in Events
<1>1. threads[w].k \in 1..Len(threads[w].processed)
  BY ThreadTyped
<1> QED
  BY <1>1, ThreadTyped DEF Message

\* ReplyingStep for a thread that stays at its message.
LEMMA StayingStep ==
  ASSUME IInv, NEW w \in Threads, threads[w] # Idle, threads[w].pc \in Replying,
         NEW p \in {"send", "apologise"}, Goto(w, p, threads[w].k),
         threads[w].k <= Len(threads[w].processed),
         UNCHANGED <<acked, request, seen, persisted, timeouts, crashes, early>>,
         \A e \in Events : Answered(e) => Answered(e)'
  PROVE  /\ threads' \in [Threads -> Thread \cup {Idle}] /\ request' \in Threads \cup {Idle}
         /\ ThreadsInv' /\ RequestInv' /\ SeenInv' /\ AckedInv' /\ OrderInv' /\ AnswerInv'
<1> DEFINE a == threads[w]
           x == Redirect(a, p, a.k)
<1>1. /\ a \in Thread /\ a.txn = Txn(w) /\ ThreadInv(a, acked, seen, persisted)
      /\ a.k \in Nat \ {0} /\ p \in Places /\ p \in Replying
  BY ThreadTyped DEF IInv, ThreadsInv, Txn, Places, Replying
<1>2. threads' = [threads EXCEPT ![w] = x]
  BY <1>1 DEF Goto, Redirect, IInv, TypeOK
<1>3. /\ x \in Thread /\ x # Idle /\ x.pc = p /\ x.k = a.k /\ x.txn = Txn(w)
      /\ x.processed = a.processed
  BY <1>1, Redirected
<1> HIDE DEF x
<1>4. ThreadInv(x, acked, seen, persisted)
  BY <1>1, <1>3 DEF ThreadInv, Replying
<1>5. Moved(w, x)
  BY <1>2, <1>3, <1>4 DEF Moved
<1>6. \A t \in Txns, e \in Events : Carries(a, t, e) => Carries(x, t, e)
  BY <1>1, <1>3 DEF Carries
<1> QED
  BY <1>2, <1>3, <1>5, <1>6, AnswersKept, QuietMove

\* The bounded counters after a call that may have failed.
LEMMA Faulted ==
  ASSUME TypeOK, UNCHANGED counts \/ Fault
  PROVE  faults' \in 0..MaxFaults /\ UNCHANGED <<timeouts, crashes, early>>
BY ChannelTyped DEF TypeOK, counts, Fault

\* The seat's turn answers nobody yet.
LEMMA SeatForwardStep ==
  ASSUME IInv, NEW w \in Threads, SeatForward(w)
  PROVE  IInv'
<1> DEFINE a == threads[w]
<1>1. /\ a # Idle /\ a.pc = "turn" /\ a.k \in Nat \ {0} /\ a.k <= Len(a.processed)
  BY ThreadTyped DEF SeatForward, At, Handled, IInv
<1>2. UNCHANGED <<acked, request, seen, persisted, room>> /\ (UNCHANGED counts \/ Fault)
  BY DEF SeatForward
<1>3. faults' \in 0..MaxFaults /\ UNCHANGED <<timeouts, crashes, early>>
  BY <1>2, Faulted DEF IInv
<1>4. PICK p \in {"send", "apologise"} : Goto(w, p, a.k)
  BY DEF SeatForward
<1>5. turns' \in [Events -> Nat]
  <2>1. turns' = turns \/ turns' = [turns EXCEPT ![Message(w)] = @ + 1]
    BY DEF SeatForward
  <2> QED
    BY <1>1, <2>1, MessageTyped, Counted DEF IInv, TypeOK
<1>6. /\ threads' \in [Threads -> Thread \cup {Idle}] /\ request' \in Threads \cup {Idle}
      /\ ThreadsInv' /\ RequestInv' /\ SeenInv' /\ AckedInv' /\ OrderInv' /\ AnswerInv'
  <2>1. \A e \in Events : Answered(e) => Answered(e)'
    BY <1>2 DEF Answered, room
  <2>2. p \in Replying /\ a.pc \in Replying
    BY <1>1 DEF Replying
  <2> QED
    BY <1>1, <1>2, <1>3, <1>4, <2>1, <2>2, StayingStep
<1> QED
  BY <1>2, <1>3, <1>5, <1>6 DEF IInv, TypeOK, room

\* A thread moves past a message only when the reply is in the room.
LEMMA SendReplyStep ==
  ASSUME IInv, NEW w \in Threads, SendReply(w)
  PROVE  IInv'
<1> DEFINE a == threads[w]
<1>1. /\ a # Idle /\ a.pc = "send" /\ a.k \in Nat \ {0} /\ a.k <= Len(a.processed)
  BY ThreadTyped DEF SendReply, At, IInv, ThreadsInv, ThreadInv
<1>2. /\ UNCHANGED <<acked, request, seen, persisted, turns, excused, dropped>>
      /\ UNCHANGED counts \/ Fault
  BY DEF SendReply
<1>3. faults' \in 0..MaxFaults /\ UNCHANGED <<timeouts, crashes, early>>
  BY <1>2, Faulted DEF IInv
<1>4. Message(w) \in Events
  BY <1>1, MessageTyped DEF IInv
<1>5. \/ replies' = replies
      \/ replies' = [replies EXCEPT ![Message(w)] = @ + 1]
  BY DEF SendReply
<1>6. replies' \in [Events -> Nat]
  BY <1>4, <1>5, Counted DEF IInv, TypeOK
<1>7. \A e \in Events : Answered(e) => Answered(e)'
  <2> SUFFICES ASSUME NEW e \in Events, Answered(e) PROVE Answered(e)'
    OBVIOUS
  <2>1. replies[e] \in Nat /\ excused[e] \in Nat /\ replies'[e] \in Nat
        /\ (replies[e] > 0 => replies'[e] > 0) /\ excused' = excused /\ dropped' = dropped
    BY <1>2, <1>4, <1>5, <1>6, Counted DEF IInv, TypeOK
  <2> QED
    BY <2>1 DEF Answered
<1>8. \/ Goto(w, "apologise", a.k)
      \/ /\ Goto(w, "turn", a.k + 1)
         /\ replies' = [replies EXCEPT ![Message(w)] = @ + 1]
  BY DEF SendReply
<1>9. CASE Goto(w, "apologise", a.k)
  <2>1. a.pc \in Replying
    BY <1>1 DEF Replying
  <2>2. /\ threads' \in [Threads -> Thread \cup {Idle}] /\ request' \in Threads \cup {Idle}
        /\ ThreadsInv' /\ RequestInv' /\ SeenInv' /\ AckedInv' /\ OrderInv' /\ AnswerInv'
    BY <1>1, <1>2, <1>3, <1>7, <1>9, <2>1, StayingStep
  <2> QED
    BY <1>2, <1>3, <1>6, <2>2 DEF IInv, TypeOK
<1>10. CASE /\ Goto(w, "turn", a.k + 1)
            /\ replies' = [replies EXCEPT ![Message(w)] = @ + 1]
  <2>1. "turn" \in Replying /\ a.pc \in Replying /\ a.k + 1 \in Nat \ {0}
    BY <1>1 DEF Replying
  <2>2. \A e \in Events : e = Message(w) => Answered(e)'
    <3> SUFFICES ASSUME NEW e \in Events, e = Message(w) PROVE Answered(e)'
      OBVIOUS
    <3>1. replies'[e] > 0 /\ replies'[e] \in Nat /\ excused'[e] \in Nat
      BY <1>2, <1>4, <1>6, <1>10, Counted DEF IInv, TypeOK
    <3> QED
      BY <3>1 DEF Answered
  <2>3. /\ threads' \in [Threads -> Thread \cup {Idle}] /\ request' \in Threads \cup {Idle}
        /\ ThreadsInv' /\ RequestInv' /\ SeenInv' /\ AckedInv' /\ OrderInv' /\ AnswerInv'
    BY <1>1, <1>2, <1>3, <1>7, <1>10, <2>1, <2>2, ReplyingStep
  <2> QED
    BY <1>2, <1>3, <1>6, <2>3 DEF IInv, TypeOK
<1> QED
  BY <1>8, <1>9, <1>10

\* The error note answers a message, or it counts as failed twice.
LEMMA SendFallbackStep ==
  ASSUME IInv, NEW w \in Threads, SendFallback(w)
  PROVE  IInv'
<1> DEFINE a == threads[w]
<1>1. /\ a # Idle /\ a.pc = "apologise" /\ a.k \in Nat \ {0} /\ a.k <= Len(a.processed)
  BY ThreadTyped DEF SendFallback, At, IInv, ThreadsInv, ThreadInv
<1>2. /\ UNCHANGED <<acked, request, seen, persisted, turns, replies>>
      /\ UNCHANGED counts \/ Fault
      /\ Goto(w, "turn", a.k + 1)
  BY DEF SendFallback
<1>3. faults' \in 0..MaxFaults /\ UNCHANGED <<timeouts, crashes, early>>
  BY <1>2, Faulted DEF IInv
<1>4. Message(w) \in Events
  BY <1>1, MessageTyped DEF IInv
<1>5. \/ excused' = [excused EXCEPT ![Message(w)] = @ + 1] /\ dropped' = dropped
      \/ excused' = excused /\ dropped' = dropped \cup {Message(w)}
  BY DEF SendFallback
<1>6. excused' \in [Events -> Nat] /\ dropped' \subseteq Events
  BY <1>4, <1>5, Counted DEF IInv, TypeOK
<1>7. \A e \in Events : Answered(e) => Answered(e)'
  <2> SUFFICES ASSUME NEW e \in Events, Answered(e) PROVE Answered(e)'
    OBVIOUS
  <2>1. /\ replies[e] \in Nat /\ excused[e] \in Nat /\ excused'[e] \in Nat
        /\ excused[e] > 0 => excused'[e] > 0
        /\ replies' = replies /\ dropped \subseteq dropped'
    BY <1>2, <1>4, <1>5, <1>6, Counted DEF IInv, TypeOK
  <2> QED
    BY <2>1 DEF Answered
<1>8. \A e \in Events : e = Message(w) => Answered(e)'
  <2> SUFFICES ASSUME NEW e \in Events, e = Message(w) PROVE Answered(e)'
    OBVIOUS
  <2>1. CASE excused' = [excused EXCEPT ![Message(w)] = @ + 1]
    <3>1. excused'[e] > 0 /\ excused'[e] \in Nat /\ replies'[e] \in Nat
      BY <1>2, <1>4, <1>6, <2>1, Counted DEF IInv, TypeOK
    <3> QED
      BY <3>1 DEF Answered
  <2>2. CASE dropped' = dropped \cup {Message(w)}
    BY <2>2 DEF Answered
  <2> QED
    BY <1>5, <2>1, <2>2
<1>9. "turn" \in Replying /\ a.pc \in Replying /\ a.k + 1 \in Nat \ {0}
  BY <1>1 DEF Replying
<1>10. /\ threads' \in [Threads -> Thread \cup {Idle}] /\ request' \in Threads \cup {Idle}
       /\ ThreadsInv' /\ RequestInv' /\ SeenInv' /\ AckedInv' /\ OrderInv' /\ AnswerInv'
  BY <1>1, <1>2, <1>3, <1>7, <1>8, <1>9, ReplyingStep
<1> QED
  BY <1>2, <1>3, <1>6, <1>10 DEF IInv, TypeOK

\* What was next or before is so when the acknowledged are more.
LEMMA LessAfter ==
  ASSUME NEW a \in Nat, NEW b \in Nat, a <= b, NEW t \in Nat, t <= a + 1
  PROVE  t <= b + 1
OBVIOUS

\* 200: the request the homeserver waits for is of a transaction that was remembered.
LEMMA RespondStep ==
  ASSUME IInv, NEW w \in Threads, Respond(w)
  PROVE  IInv'
<1> DEFINE a == threads[w]
<1>1. /\ a # Idle /\ a.pc \in {"respond", "turn"} /\ Txn(w) \in Txns /\ a.txn = Txn(w)
      /\ a.k \in Nat \ {0} /\ Len(a.processed) \in Nat
      /\ a.pc = "turn" => a.k > Len(a.processed)
      /\ ThreadInv(a, acked, seen, persisted)
  BY ThreadTyped DEF Respond, At, Handled, IInv, ThreadsInv, Txn
<1>2. /\ threads' = [threads EXCEPT ![w] = Idle]
      /\ UNCHANGED <<seen, persisted, turns, room, counts>>
      /\ \/ request = w /\ acked' = acked + 1 /\ request' = Idle
         \/ request # w /\ acked' = acked /\ request' = request
  BY DEF Respond
<1>3. Txn(w) \in seen /\ acked \in Nat /\ Len(Queue) \in Nat
  BY <1>1, ChannelTyped DEF ThreadInv, Replying, IInv, TypeOK
<1>4. request = w => Txn(w) = acked + 1
  BY <1>1, IdleIsNoThread DEF IInv, RequestInv
<1>5. acked' \in 0..Len(Queue) /\ acked <= acked'
  BY <1>1, <1>2, <1>3, <1>4 DEF IInv, TypeOK, Txns
<1>6. TypeOK'
  BY <1>2, <1>5 DEF IInv, TypeOK, room, counts
<1>7. ThreadsInv'
  <2> SUFFICES ASSUME NEW v \in Threads, threads'[v] # Idle
               PROVE  ThreadInv(threads'[v], acked', seen', persisted')
    BY DEF ThreadsInv
  <2>1. v # w /\ threads'[v] = threads[v] /\ ThreadInv(threads[v], acked, seen, persisted)
    BY <1>2 DEF IInv, TypeOK, ThreadsInv
  <2>2. threads[v].txn \in Nat
    BY <1>2, <2>1, ThreadTyped DEF IInv, Txn, Txns
  <2> QED
    BY <1>2, <1>3, <1>5, <2>1, <2>2 DEF ThreadInv
<1>8. RequestInv'
  BY <1>2, IdleIsNoThread DEF IInv, TypeOK, RequestInv, Txn
<1>9. SeenInv' /\ OrderInv'
  <2>1. \A t \in Txns : t <= acked + 1 => t <= acked' + 1
    <3>1. acked' \in Nat
      BY <1>3, <1>5
    <3>2. ASSUME NEW t \in Nat, t <= acked + 1 PROVE t <= acked' + 1
      BY <1>3, <1>5, <3>1, <3>2, LessAfter
    <3>3. Txns \subseteq Nat
      BY <1>3 DEF Txns
    <3> QED
      BY <3>2, <3>3
  <2> QED
    BY <1>2, <2>1 DEF IInv, TypeOK, SeenInv, OrderInv, Delivered
<1>10. AckedInv'
  <2> SUFFICES ASSUME NEW t \in 1..acked'
               PROVE  Delivered(t) /\ (crashes = 0 => t \in seen)
    BY <1>2 DEF AckedInv, Delivered, counts
  <2>1. t \in 1..acked \/ t = Txn(w)
    BY <1>2, <1>3, <1>4
  <2> QED
    BY <1>3, <2>1 DEF IInv, AckedInv, SeenInv
<1>11. AnswerInv'
  <2>1. \A t \in Txns, e \in Events : ~Carries(a, t, e)
    BY <1>1 DEF Carries, Replying
  <2>2. crashes' = crashes /\ seen' = seen /\ \A e \in Events : Answered(e) => Answered(e)'
    BY <1>2 DEF Answered, room, counts
  <2> QED
    BY <1>2, <2>1, <2>2, AnswersKept
<1> QED
  BY <1>6, <1>7, <1>8, <1>9, <1>10, <1>11 DEF IInv

\* A restart forgets the ids and the threads, and nothing that was delivered.
LEMMA CrashStep == IInv /\ Crash => IInv'
<1> SUFFICES ASSUME IInv, Crash PROVE IInv'
  OBVIOUS
<1>1. /\ crashes' = crashes + 1 /\ crashes < MaxCrashes
      /\ threads' = [w \in Threads |-> Idle] /\ request' = Idle /\ seen' = {}
      /\ UNCHANGED <<acked, persisted, turns, room, timeouts, faults, early>>
  BY DEF Crash
<1>2. crashes \in Nat /\ crashes' \in 0..MaxCrashes /\ crashes' # 0
  BY <1>1, ChannelTyped DEF IInv, TypeOK
<1>3. TypeOK'
  BY <1>1, <1>2 DEF IInv, TypeOK, room
<1>4. ThreadsInv' /\ RequestInv' /\ SeenInv' /\ AnswerInv'
  BY <1>1 DEF ThreadsInv, RequestInv, SeenInv, AnswerInv
<1>5. AckedInv' /\ OrderInv'
  BY <1>1, <1>2 DEF IInv, AckedInv, OrderInv, Delivered
<1> QED
  BY <1>3, <1>4, <1>5 DEF IInv

\* Every step of the bridge and the homeserver keeps the invariant.
LEMMA NextIInv == IInv /\ [Next]_vars => IInv'
<1>1. IInv /\ UNCHANGED vars => IInv'
  BY DEF vars, room, counts, IInv, TypeOK, ThreadsInv, RequestInv, SeenInv, AckedInv, OrderInv,
         AnswerInv, Answered, Delivered, Txn
<1>2. IInv /\ Next => IInv'
  BY SendTxnStep, TimeoutStep, CheckStep, ForwardVerdictStep, ScanEventStep, MarkSeenStep,
     SeatForwardStep, SendReplyStep, SendFallbackStep, RespondStep, CrashStep
     DEF Next, ThreadStep
<1> QED
  BY <1>1, <1>2

-----------------------------------------------------------------------------
\* The invariant of the bridge holds throughout, for every queue and any faults.
THEOREM Invariance == Spec => []IInv
BY InitIInv, NextIInv, PTL DEF Spec

\* Type correctness of the bridge.
THEOREM TypeCorrect == Spec => []TypeOK
<1>1. IInv => TypeOK
  BY DEF IInv
<1> QED
  BY <1>1, Invariance, PTL

\* A transaction the homeserver will not send again has all its verdicts with the seat.
THEOREM NoVerdictLost == Spec => []AckedVerdictsPersisted
<1>1. IInv => AckedVerdictsPersisted
  BY DEF IInv, AckedInv, Delivered, AckedVerdictsPersisted
<1> QED
  BY <1>1, Invariance, PTL

\* "ALWAYS reply": without a restart no acknowledged message is passed over in silence,
\* unless both sends failed.
THEOREM NoMessageSkipped == Spec => []AckedMessagesAnswered
<1>1. IInv => AckedMessagesAnswered
  <2> SUFFICES ASSUME IInv, NEW t \in 1..acked, ~Working(t), crashes = 0,
                      NEW e \in InTxn(t, "message")
               PROVE  Answered(e)
    BY DEF AckedMessagesAnswered, Answered
  <2>1. t \in seen
    BY DEF IInv, AckedInv
  <2>2. ~\E w \in Threads : Carries(threads[w], t, e)
    BY DEF Carries, Working, Txn
  <2> QED
    BY <2>1, <2>2 DEF IInv, AnswerInv
<1> QED
  BY <1>1, Invariance, PTL

\* A scan posts the verdicts of its transaction one after another.
InTxnOrder ==
  \A t \in Txns : \A i, j \in 1..Len(Queue[t]) :
    Posted(t, i) /\ j < i /\ Kind[Queue[t][j]] = "verdict" => persisted[Queue[t][j]] > 0

LEMMA ScanKeepsOrder ==
  ASSUME IInv, InTxnOrder, NEW w \in Threads, ForwardVerdict(w)
  PROVE  InTxnOrder'
<1> DEFINE k == threads[w].k
           e == Event(w)
<1>1. Txn(w) \in Txns /\ k \in Nat /\ ThreadInv(threads[w], acked, seen, persisted)
  BY ThreadTyped DEF ForwardVerdict, At, IInv, ThreadsInv
<1>2. k \in 1..Len(Queue[Txn(w)]) /\ e = Queue[Txn(w)][k]
  <2>1. k >= 1 /\ Len(Queue[Txn(w)]) \in Nat /\ ~(k > Len(Queue[Txn(w)]))
    BY <1>1, ThreadTyped, QueueTyped DEF ForwardVerdict, At, Scanned, IInv
  <2> QED
    BY <1>1, <2>1 DEF Event
<1>3. persisted' = persisted \/ persisted' = [persisted EXCEPT ![e] = @ + 1]
  BY DEF ForwardVerdict
<1>4. persisted \in [Events -> Nat] /\ e \in Events
  BY <1>1, <1>2, QueueTyped DEF IInv, TypeOK
<1>5. \A f \in Events : /\ persisted[f] > 0 => persisted'[f] > 0
                        /\ persisted'[f] > 0 => persisted[f] > 0 \/ f = e
  BY <1>3, <1>4
<1> SUFFICES ASSUME NEW t \in Txns, NEW i \in 1..Len(Queue[t]), NEW j \in 1..Len(Queue[t]),
                    Posted(t, i)', j < i, Kind[Queue[t][j]] = "verdict"
             PROVE  persisted'[Queue[t][j]] > 0
  BY DEF InTxnOrder
<1>6. Queue[t][i] \in Events /\ Queue[t][j] \in Events
  BY QueueTyped
<1>7. CASE Queue[t][i] = e
  <2>1. t = Txn(w) /\ i = k
    BY <1>1, <1>2, <1>7, EventsPushedOnce
  <2>2. persisted[Queue[t][j]] > 0
    BY <1>1, <2>1 DEF ThreadInv, ForwardVerdict, At, Txn
  <2> QED
    BY <1>5, <1>6, <2>2
<1>8. CASE Queue[t][i] # e
  <2>1. Posted(t, i)
    BY <1>5, <1>6, <1>8 DEF Posted
  <2> QED
    BY <1>5, <1>6, <2>1 DEF InTxnOrder
<1> QED
  BY <1>7, <1>8

\* The order of the homeserver's queue is the order in which the seat first learns verdicts.
THEOREM OrderKept == Spec => []VerdictsInOrder
<1>1. Init => InTxnOrder
  BY QueueTyped DEF Init, InTxnOrder, Posted
<1>2. IInv /\ InTxnOrder /\ [Next]_vars => InTxnOrder'
  <2> SUFFICES ASSUME IInv, InTxnOrder, [Next]_vars PROVE InTxnOrder'
    OBVIOUS
  <2>1. (\E w \in Threads : ForwardVerdict(w)) \/ UNCHANGED persisted
    BY DEF Next, ThreadStep, vars, SendTxn, Check, ScanEvent, MarkSeen, SeatForward, SendReply,
           SendFallback, Respond, Timeout, Crash
  <2> QED
    BY <2>1, ScanKeepsOrder DEF InTxnOrder, Posted
<1>3. IInv /\ InTxnOrder => VerdictsInOrder
  <2> SUFFICES ASSUME IInv, InTxnOrder, NEW t \in Txns, NEW i \in 1..Len(Queue[t]), Posted(t, i)
               PROVE  /\ \A j \in 1..(i - 1) :
                           Kind[Queue[t][j]] = "verdict" => persisted[Queue[t][j]] > 0
                      /\ \A u \in 1..(t - 1) : Delivered(u)
    BY DEF VerdictsInOrder, Delivered
  <2>1. \A j \in 1..(i - 1) : j \in 1..Len(Queue[t]) /\ j < i
    BY QueueTyped
  <2>2. t <= acked + 1
    BY DEF IInv, OrderInv, Posted, InTxn
  <2>3. \A u \in 1..(t - 1) : u \in 1..acked
    BY <2>2 DEF IInv, TypeOK, Txns
  <2> QED
    BY <2>1, <2>3 DEF IInv, AckedInv, InTxnOrder
<1> QED
  BY <1>1, <1>2, <1>3, Invariance, PTL DEF Spec
-----------------------------------------------------------------------------
(***************************************************************************)
(* Turns.  A thread may yet bring message e of transaction t to the seat   *)
(* while it scans t or has e ahead in processed; a request that has not    *)
(* looked up its id, only while the id is not remembered.  The turns taken *)
(* and those threads are at most one, if t is remembered or being asked    *)
(* for, plus one for each request given up on too early and each restart.  *)
(***************************************************************************)
MayTurn(x, t, e, ids) ==
  /\ x # Idle /\ x.txn = t
  /\ \/ x.pc = "check" /\ t \notin ids
     \/ x.pc = "scan"
     \/ /\ x.pc \in Replying
        /\ \E n \in 1..Len(x.processed) : /\ n > x.k \/ (n = x.k /\ x.pc = "turn")
                                          /\ x.processed[n] = e

Due(t, e) == {w \in Threads : MayTurn(threads[w], t, e, seen)}
Asked(t) == t \in seen \/ (request # Idle /\ Txn(request) = t)
Unasked(t) == IF Asked(t) THEN 0 ELSE 1

TurnsInv ==
  \A t \in Txns : \A e \in InTxn(t, "message") :
    /\ IsFiniteSet(Due(t, e))
    /\ turns[e] + Cardinality(Due(t, e)) + Unasked(t) <= 1 + early[t] + crashes

\* What a request has gathered are events of its transaction, each once.
Gathered(x) ==
  /\ x.pc = "check" => x.processed = <<>>
  /\ \A n \in 1..Len(x.processed) : \E i \in 1..Len(Queue[x.txn]) :
       x.processed[n] = Queue[x.txn][i] /\ (x.pc = "scan" => i < x.k)
  /\ \A m, n \in 1..Len(x.processed) : x.processed[m] = x.processed[n] => m = n

GatheredInv == \A w \in Threads : threads[w] # Idle => Gathered(threads[w])

\* Fewer threads are due: the sets only shrink.
LEMMA Fewer ==
  ASSUME NEW S, NEW T, IsFiniteSet(S), T \subseteq S
  PROVE  /\ IsFiniteSet(T) /\ Cardinality(T) \in Nat /\ Cardinality(S) \in Nat
         /\ Cardinality(T) <= Cardinality(S)
         /\ \A w \in S : w \notin T => Cardinality(T) + 1 <= Cardinality(S)
<1>1. IsFiniteSet(T) /\ Cardinality(T) <= Cardinality(S) BY FS_Subset
<1>2. Cardinality(T) \in Nat /\ Cardinality(S) \in Nat BY <1>1, FS_CardinalityType
<1>3. ASSUME NEW w \in S, w \notin T PROVE Cardinality(T) + 1 <= Cardinality(S)
  <2>1. IsFiniteSet(S \ {w}) /\ Cardinality(S \ {w}) = Cardinality(S) - 1 BY <1>3, FS_RemoveElement
  <2>2. T \subseteq S \ {w} BY <1>3
  <2>3. Cardinality(T) <= Cardinality(S \ {w}) BY <2>1, <2>2, FS_Subset
  <2> QED BY <1>2, <2>1, <2>3
<1> QED BY <1>1, <1>2, <1>3

LEMMA TurnsTyped ==
  ASSUME IInv, TurnsInv, NEW t \in Txns, NEW e \in InTxn(t, "message")
  PROVE  /\ e \in Events /\ turns[e] \in Nat /\ early[t] \in Nat /\ crashes \in Nat
         /\ IsFiniteSet(Due(t, e)) /\ Cardinality(Due(t, e)) \in Nat
         /\ turns[e] + Cardinality(Due(t, e)) + Unasked(t) <= 1 + early[t] + crashes
<1>1. e \in Events BY QueueTyped
<1>2. IsFiniteSet(Due(t, e)) BY DEF TurnsInv
<1>3. crashes \in Nat BY ChannelTyped DEF IInv, TypeOK
<1> QED BY <1>1, <1>2, <1>3, FS_CardinalityType DEF IInv, TypeOK, TurnsInv

\* What a step of thread w to x means for the turns of message e of transaction t: x is not
\* newly due, or its turn is taken, or it ends.
Pays(w, x, t, e) ==
  \/ /\ turns'[e] = turns[e]
     /\ MayTurn(x, t, e, seen') => MayTurn(threads[w], t, e, seen)
     /\ request' = request \/ t \in seen \/ t # Txn(w)
  \/ /\ turns'[e] = turns[e] + 1 /\ request' = request
     /\ MayTurn(threads[w], t, e, seen) /\ ~MayTurn(x, t, e, seen')
  \/ /\ turns'[e] = turns[e]
     /\ MayTurn(threads[w], t, e, seen) /\ x = Idle

Stepped(w, x) ==
  /\ threads[w] # Idle /\ threads' = [threads EXCEPT ![w] = x]
  /\ x = Idle \/ (x \in Thread /\ x.txn = Txn(w) /\ Gathered(x))
  /\ request' = request \/ (request = w /\ request' = Idle)
  /\ request' = w => x # Idle
  /\ seen \subseteq seen' /\ UNCHANGED <<early, crashes>>

LEMMA GatheredMove ==
  ASSUME IInv, GatheredInv, NEW w \in Threads, NEW x, threads' = [threads EXCEPT ![w] = x],
         x = Idle \/ Gathered(x)
  PROVE  GatheredInv'
<1>1. \A v \in Threads : threads'[v] = IF v = w THEN x ELSE threads[v] BY DEF IInv, TypeOK
<1> QED BY <1>1 DEF GatheredInv

LEMMA TurnsMove ==
  ASSUME IInv, TurnsInv, GatheredInv, NEW w \in Threads, NEW x, Stepped(w, x),
         \A t \in Txns : \A e \in InTxn(t, "message") : Pays(w, x, t, e)
  PROVE  TurnsInv' /\ GatheredInv'
<1>1. \A v \in Threads : threads'[v] = IF v = w THEN x ELSE threads[v]
  BY DEF Stepped, IInv, TypeOK
<1>2. GatheredInv' BY GatheredMove DEF Stepped
<1>3. ASSUME NEW t \in Txns, NEW e \in InTxn(t, "message")
      PROVE  /\ IsFiniteSet(Due(t, e)')
             /\ turns'[e] + Cardinality(Due(t, e)') + Unasked(t)' <= 1 + early'[t] + crashes'
  <2> DEFINE S == Due(t, e)
             T == {v \in Threads : MayTurn(threads'[v], t, e, seen')}
  <2>1. Due(t, e)' = T BY DEF Due
  <2>2. \A v \in Threads : v # w /\ v \in T => v \in S BY <1>1 DEF Stepped, Due, MayTurn
  <2>3. w \in S <=> MayTurn(threads[w], t, e, seen) BY DEF Due
  <2>4. w \in T <=> MayTurn(x, t, e, seen') BY <1>1
  <2>5. Pays(w, x, t, e) BY <1>3
  <2>6. T \subseteq S BY <2>2, <2>3, <2>4, <2>5 DEF Pays, MayTurn
  <2>7. Asked(t) => Asked(t)' \/ (t = Txn(w) /\ request' # request /\ t \notin seen)
    <3>1. CASE t \in seen BY <3>1 DEF Stepped, Asked
    <3>2. CASE t \notin seen /\ request # Idle /\ Txn(request) = t
      <4>1. CASE request' = request
        <5>1. request \in Threads BY <3>2 DEF IInv, TypeOK
        <5>2. Txn(request)' = t
          BY <1>1, <3>2, <4>1, <5>1 DEF Stepped, Txn
        <5> QED BY <3>2, <4>1, <5>2 DEF Asked
      <4>2. CASE request = w /\ request' = Idle BY <3>2, <4>2
      <4> QED BY <4>1, <4>2 DEF Stepped
    <3> QED BY <3>1, <3>2 DEF Asked
  <2>8. Unasked(t)' \in {0, 1} /\ Unasked(t) \in {0, 1}
        /\ (Unasked(t)' <= Unasked(t) \/ (t = Txn(w) /\ request' # request /\ t \notin seen))
    BY <2>7 DEF Unasked
  <2> HIDE DEF S, T
  <2>9. /\ IsFiniteSet(S) /\ Cardinality(S) \in Nat /\ turns[e] \in Nat /\ early[t] \in Nat /\ crashes \in Nat
        /\ turns[e] + Cardinality(S) + Unasked(t) <= 1 + early[t] + crashes
    BY TurnsTyped DEF S
  <2>10. /\ IsFiniteSet(T) /\ Cardinality(T) \in Nat /\ Cardinality(T) <= Cardinality(S)
         /\ (w \in S /\ w \notin T => Cardinality(T) + 1 <= Cardinality(S))
    BY <2>6, <2>9, Fewer
  <2>11. early' = early /\ crashes' = crashes BY DEF Stepped
  <2>12. turns'[e] + Cardinality(T) + Unasked(t)' <= 1 + early[t] + crashes
    <3>1. CASE turns'[e] = turns[e] /\ Unasked(t)' <= Unasked(t) BY <2>8, <2>9, <2>10, <3>1
    <3>2. CASE turns'[e] = turns[e] + 1 /\ request' = request /\ w \in S /\ w \notin T
      BY <2>8, <2>9, <2>10, <3>2
    <3>3. CASE turns'[e] = turns[e] /\ w \in S /\ w \notin T BY <2>8, <2>9, <2>10, <3>3
    <3> QED BY <2>3, <2>4, <2>5, <2>8, <3>1, <3>2, <3>3 DEF Pays, MayTurn
  <2> QED BY <2>1, <2>10, <2>11, <2>12
<1> QED BY <1>2, <1>3 DEF TurnsInv

\* What a thread has gathered stays while it moves on.
LEMMA GatheredOn ==
  ASSUME NEW a \in Thread, Gathered(a), NEW p \in Places, p # "check", NEW k \in Nat \ {0},
         p = "scan" => a.pc = "check" \/ (a.pc = "scan" /\ k >= a.k)
  PROVE  Gathered(Redirect(a, p, k))
<1> DEFINE x == Redirect(a, p, k)
<1>1. x.pc = p /\ x.k = k /\ x.txn = a.txn /\ x.processed = a.processed BY Redirected
<1> SUFFICES Gathered(x) OBVIOUS
<1> HIDE DEF x
<1>2. CASE a.pc = "check"
  <2>1. x.processed = <<>> BY <1>1, <1>2 DEF Gathered
  <2> QED BY <1>1, <2>1 DEF Gathered
<1>3. CASE p # "scan" BY <1>1, <1>3 DEF Gathered
<1>4. CASE p = "scan" /\ a.pc = "scan" /\ k >= a.k
  <2>1. a.txn \in Txns /\ a.k \in Nat BY DEF Thread
  <2>2. \A i \in 1..Len(Queue[a.txn]) : i < a.k => i < k BY <1>4, <2>1
  <2> QED BY <1>1, <1>4, <2>2 DEF Gathered
<1> QED BY <1>2, <1>3, <1>4

\* A step of a thread to another place of the same request.
LEMMA GotoStepped ==
  ASSUME IInv, GatheredInv, NEW w \in Threads, threads[w] # Idle, NEW p \in Places, p # "check",
         NEW k \in Nat \ {0}, p = "scan" => threads[w].pc = "check" \/ (threads[w].pc = "scan" /\ k >= threads[w].k),
         Goto(w, p, k), UNCHANGED <<request, early, crashes>>, seen \subseteq seen'
  PROVE  \E x : /\ Stepped(w, x) /\ x # Idle /\ x.pc = p /\ x.k = k /\ x.txn = Txn(w)
                /\ x.processed = threads[w].processed
<1> DEFINE a == threads[w]
           x == Redirect(a, p, k)
<1>1. a \in Thread /\ Gathered(a) /\ a.txn = Txn(w) BY DEF IInv, TypeOK, GatheredInv, Txn
<1>2. threads' = [threads EXCEPT ![w] = x] BY <1>1 DEF Goto, Redirect, IInv, TypeOK
<1>3. x \in Thread /\ x # Idle /\ x.pc = p /\ x.k = k /\ x.txn = Txn(w) /\ x.processed = a.processed
  <2> HIDE DEF a
  <2>1. x \in Thread /\ x # Idle /\ x.pc = p /\ x.k = k /\ x.txn = a.txn /\ x.processed = a.processed
    BY <1>1, Redirected
  <2> QED BY <1>1, <2>1
<1>4. Gathered(x) BY <1>1, GatheredOn
<1> HIDE DEF x
<1>5. Stepped(w, x) BY <1>1, <1>2, <1>3, <1>4 DEF Stepped
<1> QED BY <1>3, <1>5

LEMMA SendTxnTurns ==
  ASSUME IInv, TurnsInv, GatheredInv, NEW w \in Threads, SendTxn(w) PROVE TurnsInv' /\ GatheredInv'
<1> DEFINE x == [txn |-> acked + 1, pc |-> "check", k |-> 1, processed |-> <<>>]
<1>1. /\ threads' = [threads EXCEPT ![w] = x] /\ request' = w /\ threads[w] = Idle /\ request = Idle
      /\ acked \in Nat /\ UNCHANGED <<seen, turns, early, crashes>>
  BY DEF SendTxn, counts, IInv, TypeOK
<1>2. x.txn = acked + 1 /\ x.pc = "check" /\ x.processed = <<>> OBVIOUS
<1> HIDE DEF x
<1>3. \A v \in Threads : threads'[v] = IF v = w THEN x ELSE threads[v] BY <1>1 DEF IInv, TypeOK
<1>4. Gathered(x) BY <1>2 DEF Gathered
<1>5. GatheredInv' BY <1>1, <1>4, GatheredMove
<1>6. ASSUME NEW t \in Txns, NEW e \in InTxn(t, "message")
      PROVE  /\ IsFiniteSet(Due(t, e)')
             /\ turns'[e] + Cardinality(Due(t, e)') + Unasked(t)' <= 1 + early'[t] + crashes'
  <2> DEFINE S == Due(t, e)
             T == {v \in Threads : MayTurn(threads'[v], t, e, seen)}
  <2>1. Due(t, e)' = T BY <1>1 DEF Due
  <2>2. w \notin S BY <1>1 DEF Due, MayTurn
  <2>3. \A v \in Threads : v # w => (v \in T <=> v \in S) BY <1>3 DEF Due
  <2>4. w # Idle BY IdleIsNoThread
  <2>5. Txn(w)' = acked + 1 BY <1>2, <1>3 DEF Txn
  <2>6. Asked(t) <=> t \in seen BY <1>1 DEF Asked
  <2>7. Asked(t)' <=> (t \in seen \/ t = acked + 1) BY <1>1, <1>2, <1>3, <2>4 DEF Asked, Txn
  <2>8. w \in T <=> t = acked + 1 /\ t \notin seen /\ x # Idle BY <1>2, <1>3 DEF MayTurn, Replying
  <2> HIDE DEF S, T
  <2>9. /\ IsFiniteSet(S) /\ Cardinality(S) \in Nat /\ turns[e] \in Nat /\ early[t] \in Nat /\ crashes \in Nat
        /\ turns[e] + Cardinality(S) + Unasked(t) <= 1 + early[t] + crashes
    BY TurnsTyped DEF S
  <2>10. CASE w \notin T
    <3>1. T \subseteq S BY <2>3, <2>10 DEF T
    <3>2. IsFiniteSet(T) /\ Cardinality(T) \in Nat /\ Cardinality(T) <= Cardinality(S) BY <2>9, <3>1, Fewer
    <3>3. Unasked(t)' \in {0, 1} /\ Unasked(t)' <= Unasked(t) BY <2>6, <2>7 DEF Unasked
    <3>4. Unasked(t) \in {0, 1} BY DEF Unasked
    <3> QED BY <1>1, <2>1, <2>9, <3>2, <3>3, <3>4
  <2>11. CASE w \in T
    <3>1. T \subseteq S \cup {w} BY <2>3 DEF T
    <3>2. IsFiniteSet(S \cup {w}) /\ Cardinality(S \cup {w}) = Cardinality(S) + 1 BY <2>2, <2>9, FS_AddElement
    <3>3. IsFiniteSet(T) /\ Cardinality(T) \in Nat /\ Cardinality(T) <= Cardinality(S) + 1
      BY <3>1, <3>2, Fewer
    <3>4. Unasked(t)' = 0 /\ Unasked(t) = 1 BY <2>6, <2>7, <2>8, <2>11 DEF Unasked
    <3> QED BY <1>1, <2>1, <2>9, <3>3, <3>4
  <2> QED BY <2>10, <2>11
<1> QED BY <1>5, <1>6 DEF TurnsInv

\* A request given up on before its scan has ended leaves a thread that may take one more turn.
LEMMA TimeoutTurns == ASSUME IInv, TurnsInv, GatheredInv, Timeout PROVE TurnsInv' /\ GatheredInv'
<1> DEFINE q == Txn(request)
<1>1. request # Idle /\ request' = Idle /\ UNCHANGED <<threads, seen, turns, crashes>> BY DEF Timeout
<1>2. GatheredInv' BY <1>1 DEF GatheredInv
<1>3. request \in Threads /\ threads[request] # Idle BY <1>1 DEF IInv, TypeOK, RequestInv
<1>4. threads[request] \in Thread /\ q \in Txns /\ ThreadInv(threads[request], acked, seen, persisted)
  BY <1>3, ThreadTyped DEF IInv, ThreadsInv
<1>5. IF threads[request].pc \in {"check", "scan"} THEN early' = [early EXCEPT ![q] = @ + 1]
      ELSE early' = early /\ q \in seen
  BY <1>4 DEF Timeout, ThreadInv, Thread, Replying, Txn
<1>6. ASSUME NEW t \in Txns, NEW e \in InTxn(t, "message")
      PROVE  /\ IsFiniteSet(Due(t, e)')
             /\ turns'[e] + Cardinality(Due(t, e)') + Unasked(t)' <= 1 + early'[t] + crashes'
  <2>1. Due(t, e)' = Due(t, e) BY <1>1 DEF Due
  <2>2. /\ IsFiniteSet(Due(t, e)) /\ Cardinality(Due(t, e)) \in Nat
        /\ turns[e] \in Nat /\ early[t] \in Nat /\ crashes \in Nat
        /\ turns[e] + Cardinality(Due(t, e)) + Unasked(t) <= 1 + early[t] + crashes
    BY TurnsTyped
  <2>3. Unasked(t)' \in {0, 1} /\ Unasked(t) \in {0, 1} BY DEF Unasked
  <2>4. CASE t # q \/ t \in seen
    <3>1. Unasked(t)' = Unasked(t) BY <1>1, <2>4 DEF Unasked, Asked
    <3>2. early' = early \/ early' = [early EXCEPT ![q] = @ + 1] BY <1>5
    <3>3. early \in [Txns -> Nat] BY DEF IInv, TypeOK
    <3>4. early'[t] = early[t] \/ early'[t] = early[t] + 1 BY <1>4, <3>2, <3>3
    <3>5. early'[t] \in Nat /\ early'[t] >= early[t] BY <2>2, <3>4
    <3> QED BY <1>1, <2>1, <2>2, <2>3, <3>1, <3>5
  <2>5. CASE t = q /\ t \notin seen
    <3>1. early'[t] = early[t] + 1 BY <1>5, <2>5 DEF IInv, TypeOK
    <3> QED BY <1>1, <2>1, <2>2, <2>3, <3>1
  <2> QED BY <2>4, <2>5
<1> QED BY <1>2, <1>6 DEF TurnsInv

LEMMA CrashTurns == ASSUME IInv, TurnsInv, GatheredInv, Crash PROVE TurnsInv' /\ GatheredInv'
<1>1. /\ threads' = [w \in Threads |-> Idle] /\ crashes' = crashes + 1 /\ UNCHANGED <<turns, early>>
  BY DEF Crash
<1>2. GatheredInv' BY <1>1 DEF GatheredInv
<1>3. ASSUME NEW t \in Txns, NEW e \in InTxn(t, "message")
      PROVE  /\ IsFiniteSet(Due(t, e)')
             /\ turns'[e] + Cardinality(Due(t, e)') + Unasked(t)' <= 1 + early'[t] + crashes'
  <2>1. Due(t, e)' = {} BY <1>1 DEF Due, MayTurn
  <2>2. Unasked(t)' \in {0, 1} /\ Unasked(t) \in {0, 1} BY DEF Unasked
  <2>3. IsFiniteSet({}) /\ Cardinality({}) = 0 BY FS_EmptySet
  <2>4. /\ Cardinality(Due(t, e)) \in Nat /\ turns[e] \in Nat /\ early[t] \in Nat /\ crashes \in Nat
        /\ turns[e] + Cardinality(Due(t, e)) + Unasked(t) <= 1 + early[t] + crashes
    BY TurnsTyped
  <2> QED BY <1>1, <2>1, <2>2, <2>3, <2>4
<1> QED BY <1>2, <1>3 DEF TurnsInv

\* A thread that is at work: its place, and that its id is remembered past the scan.
LEMMA AtWork ==
  ASSUME IInv, GatheredInv, NEW w \in Threads, threads[w] # Idle
  PROVE  /\ threads[w] \in Thread /\ threads[w].txn = Txn(w) /\ Txn(w) \in Txns
         /\ threads[w].k \in Nat \ {0} /\ threads[w].k + 1 \in Nat \ {0} /\ Gathered(threads[w])
         /\ threads[w].pc \in Replying \cup {"respond"} => Txn(w) \in seen
         /\ threads[w].pc \in {"send", "apologise"} => threads[w].k <= Len(threads[w].processed)
<1>1. threads[w] \in Thread /\ Txn(w) \in Txns /\ threads[w].k \in Nat \ {0} BY ThreadTyped DEF IInv
<1>2. ThreadInv(threads[w], acked, seen, persisted) /\ Gathered(threads[w])
  BY DEF IInv, ThreadsInv, GatheredInv
<1> QED BY <1>1, <1>2 DEF ThreadInv, Txn

\* A thread that ends pays with its place, or its transaction is remembered.
LEMMA EndTurns ==
  ASSUME IInv, TurnsInv, GatheredInv, NEW w \in Threads, threads[w] # Idle,
         threads' = [threads EXCEPT ![w] = Idle], request' = IF request = w THEN Idle ELSE request,
         UNCHANGED <<seen, turns, early, crashes>>, threads[w].pc = "scan" \/ Txn(w) \in seen
  PROVE  TurnsInv' /\ GatheredInv'
<1>1. w # Idle BY IdleIsNoThread
<1>2. Stepped(w, Idle) BY <1>1 DEF Stepped
<1>3. ASSUME NEW t \in Txns, NEW e \in InTxn(t, "message") PROVE Pays(w, Idle, t, e)
  <2>1. ~MayTurn(Idle, t, e, seen') BY DEF MayTurn
  <2>2. CASE t # Txn(w) \/ t \in seen BY <2>1, <2>2 DEF Pays
  <2>3. CASE t = Txn(w) /\ threads[w].pc = "scan"
    <3>1. MayTurn(threads[w], t, e, seen) BY <2>3 DEF MayTurn, Txn
    <3> QED BY <3>1 DEF Pays
  <2> QED BY <2>2, <2>3
<1> QED BY <1>2, <1>3, TurnsMove

\* A step that takes no turn and leaves the thread due for nothing new.
LEMMA FreeStep ==
  ASSUME IInv, TurnsInv, GatheredInv, NEW w \in Threads, NEW x, Stepped(w, x), x # Idle,
         UNCHANGED <<request, turns>>,
         \A t \in Txns : \A e : MayTurn(x, t, e, seen') => MayTurn(threads[w], t, e, seen)
  PROVE  TurnsInv' /\ GatheredInv'
<1>1. \A t \in Txns : \A e \in InTxn(t, "message") : Pays(w, x, t, e) BY DEF Pays
<1> QED BY <1>1, TurnsMove

LEMMA CheckTurns ==
  ASSUME IInv, TurnsInv, GatheredInv, NEW w \in Threads, Check(w) PROVE TurnsInv' /\ GatheredInv'
<1> DEFINE a == threads[w]
<1>1. a # Idle /\ a.pc = "check" /\ UNCHANGED <<request, turns, seen, early, crashes>>
  BY DEF Check, At, counts
<1>2. a.txn = Txn(w) BY DEF Txn
<1>3. PICK p \in {"respond", "scan"} : Goto(w, p, 1) /\ (p = "scan" => Txn(w) \notin seen) BY DEF Check
<1>4. p \in Places /\ p # "check" /\ 1 \in Nat \ {0} BY DEF Places
<1>5. PICK x : Stepped(w, x) /\ x # Idle /\ x.pc = p /\ x.txn = Txn(w) BY <1>1, <1>3, <1>4, GotoStepped
<1>6. \A t \in Txns : \A e : MayTurn(x, t, e, seen') => MayTurn(a, t, e, seen)
  BY <1>1, <1>2, <1>3, <1>5 DEF MayTurn, Replying
<1> QED BY <1>1, <1>5, <1>6, FreeStep

LEMMA ForwardVerdictTurns ==
  ASSUME IInv, TurnsInv, GatheredInv, NEW w \in Threads, ForwardVerdict(w) PROVE TurnsInv' /\ GatheredInv'
<1> DEFINE a == threads[w]
<1>1. a # Idle /\ a.pc = "scan" /\ UNCHANGED <<turns, seen, early, crashes>>
  BY DEF ForwardVerdict, At, counts, Fault
<1>2. Die(w) \/ (Goto(w, "scan", a.k + 1) /\ UNCHANGED request) BY DEF ForwardVerdict
<1>3. CASE Die(w) BY <1>1, <1>3, EndTurns DEF Die
<1>4. CASE Goto(w, "scan", a.k + 1) /\ UNCHANGED request
  <2>1. a.k \in Nat /\ a.k + 1 \in Nat \ {0} /\ a.k + 1 >= a.k /\ a.txn = Txn(w) BY <1>1, AtWork
  <2>2. PICK x : Stepped(w, x) /\ x # Idle /\ x.pc = "scan" /\ x.txn = Txn(w)
    BY <1>1, <1>4, <2>1, GotoStepped DEF Places
  <2>3. \A t \in Txns : \A e : MayTurn(x, t, e, seen') => MayTurn(a, t, e, seen) BY <1>1, <2>1, <2>2 DEF MayTurn
  <2> QED BY <1>1, <1>4, <2>2, <2>3, FreeStep
<1> QED BY <1>2, <1>3, <1>4

LEMMA ScanEventTurns ==
  ASSUME IInv, TurnsInv, GatheredInv, NEW w \in Threads, ScanEvent(w) PROVE TurnsInv' /\ GatheredInv'
<1> DEFINE a == threads[w]
           q == Queue[Txn(w)]
           kept == IF Kind[Event(w)] = "message" THEN Append(a.processed, Event(w)) ELSE a.processed
           x == [a EXCEPT !.k = @ + 1, !.processed = kept]
<1>1. /\ a # Idle /\ a.pc = "scan" /\ ~Scanned(w) /\ UNCHANGED <<request, turns, seen, early, crashes>>
      /\ threads' = [threads EXCEPT ![w] = x]
  BY DEF ScanEvent, At, counts, IInv, TypeOK
<1>2. a \in Thread /\ a.txn = Txn(w) /\ Txn(w) \in Txns /\ a.k \in Nat \ {0} /\ Gathered(a)
      /\ a.processed \in Seq(Events)
  BY <1>1, AtWork, ThreadTyped DEF IInv
<1>3. Len(q) \in Nat /\ a.k \in 1..Len(q) /\ Event(w) = q[a.k] /\ Event(w) \in Events
  BY <1>1, <1>2, QueueTyped DEF Scanned, Event
<1>4. kept \in Seq(Events) /\ (kept = a.processed \/ kept = Append(a.processed, q[a.k])) BY <1>2, <1>3
<1> HIDE DEF kept
<1>5. x \in Thread /\ x # Idle /\ x.pc = "scan" /\ x.txn = Txn(w) /\ x.k = a.k + 1 /\ x.processed = kept
  <2> HIDE DEF a
  <2>1. a.k + 1 \in Nat \ {0} BY <1>2
  <2>2. x \in Thread BY <1>2, <1>4, <2>1 DEF Thread
  <2>3. x.pc = a.pc /\ x.txn = a.txn /\ x.k = a.k + 1 /\ x.processed = kept BY <1>2 DEF Thread
  <2> QED BY <1>1, <1>2, <2>2, <2>3, NotIdle
<1>6. /\ Len(kept) \in Nat
      /\ \A n \in 1..Len(kept) : \E i \in 1..Len(q) : kept[n] = q[i] /\ i < a.k + 1
      /\ \A m, n \in 1..Len(kept) : kept[m] = kept[n] => m = n
  <2>1. /\ Len(a.processed) \in Nat
        /\ \A n \in 1..Len(a.processed) : \E i \in 1..Len(q) : a.processed[n] = q[i] /\ i < a.k
        /\ \A m, n \in 1..Len(a.processed) : a.processed[m] = a.processed[n] => m = n
    BY <1>1, <1>2 DEF Gathered
  <2>2. CASE kept = a.processed
    <3>1. \A i \in 1..Len(q) : i < a.k => i < a.k + 1 BY <1>2, <1>3
    <3> QED BY <2>1, <2>2, <3>1
  <2>3. CASE kept = Append(a.processed, q[a.k])
    <3> DEFINE N == Len(a.processed)
    <3>1. /\ Len(kept) = N + 1 /\ kept[N + 1] = q[a.k]
          /\ \A n \in 1..N : kept[n] = a.processed[n]
          /\ \A n \in 1..(N + 1) : n \in 1..N \/ n = N + 1
      <4>1. N \in Nat /\ a.processed \in Seq(Events) /\ q[a.k] \in Events BY <1>2, <1>3, <2>1
      <4>2. \A s \in Seq(Events), e \in Events :
              /\ Len(Append(s, e)) = Len(s) + 1 /\ Append(s, e)[Len(s) + 1] = e
              /\ \A n \in 1..Len(s) : Append(s, e)[n] = s[n]
        OBVIOUS
      <4> QED BY <2>3, <4>1, <4>2
    <3>2. \A n \in 1..N : a.processed[n] # q[a.k]
      <4> SUFFICES ASSUME NEW n \in 1..N, a.processed[n] = q[a.k] PROVE FALSE OBVIOUS
      <4>1. PICK i \in 1..Len(q) : a.processed[n] = q[i] /\ i < a.k BY <2>1
      <4>2. q[i] = q[a.k] /\ i \in 1..Len(q) BY <4>1
      <4>3. \A k \in 1..Len(q), l \in 1..Len(q) : q[k] = q[l] => k = l
        BY <1>2, EventsPushedOnce
      <4>4. i = a.k BY <1>3, <4>2, <4>3
      <4> QED BY <1>3, <4>1, <4>4
    <3>3. \A n \in 1..(N + 1) : \E i \in 1..Len(q) : kept[n] = q[i] /\ i < a.k + 1
      <4>1. ASSUME NEW n \in 1..N PROVE \E i \in 1..Len(q) : kept[n] = q[i] /\ i < a.k + 1
        <5>1. PICK i \in 1..Len(q) : a.processed[n] = q[i] /\ i < a.k BY <2>1
        <5> QED BY <1>2, <1>3, <3>1, <5>1
      <4>2. kept[N + 1] = q[a.k] /\ a.k < a.k + 1 BY <1>3, <3>1
      <4> QED BY <1>3, <3>1, <4>1, <4>2
    <3> HIDE DEF N
    <3>4. \A m, n \in 1..(N + 1) : kept[m] = kept[n] => m = n BY <2>1, <3>1, <3>2 DEF N
    <3> QED BY <2>1, <3>1, <3>3, <3>4 DEF N
  <2> QED BY <1>4, <2>2, <2>3
<1> HIDE DEF x
<1>7. Gathered(x) BY <1>5, <1>6 DEF Gathered
<1>8. Stepped(w, x)
  <2>1. request' = w => x # Idle BY <1>5
  <2> QED BY <1>1, <1>5, <1>7, <2>1 DEF Stepped
<1>9. \A t \in Txns : \A e : MayTurn(x, t, e, seen') => MayTurn(a, t, e, seen) BY <1>1, <1>2, <1>5 DEF MayTurn
<1> QED BY <1>1, <1>5, <1>8, <1>9, FreeStep

LEMMA MarkSeenTurns ==
  ASSUME IInv, TurnsInv, GatheredInv, NEW w \in Threads, MarkSeen(w) PROVE TurnsInv' /\ GatheredInv'
<1> DEFINE a == threads[w]
<1>1. /\ a # Idle /\ a.pc = "scan" /\ Goto(w, "turn", 1) /\ seen \subseteq seen'
      /\ UNCHANGED <<request, turns, early, crashes>>
  BY DEF MarkSeen, At, counts
<1>2. a.txn = Txn(w) BY DEF Txn
<1>3. PICK x : Stepped(w, x) /\ x # Idle /\ x.pc = "turn" /\ x.txn = Txn(w)
  BY <1>1, GotoStepped DEF Places
<1>4. \A t \in Txns : \A e : MayTurn(x, t, e, seen') => MayTurn(a, t, e, seen) BY <1>1, <1>2, <1>3 DEF MayTurn
<1> QED BY <1>1, <1>3, <1>4, FreeStep

\* The turn that is taken was due, and is due no more: a message is gathered once.
LEMMA SeatForwardTurns ==
  ASSUME IInv, TurnsInv, GatheredInv, NEW w \in Threads, SeatForward(w) PROVE TurnsInv' /\ GatheredInv'
<1> DEFINE a == threads[w]
<1>1. a # Idle /\ a.pc = "turn" /\ ~Handled(w) /\ UNCHANGED <<request, seen, early, crashes>>
  BY DEF SeatForward, At, counts, Fault
<1>2. a \in Thread /\ a.txn = Txn(w) /\ Txn(w) \in Txns /\ a.k \in 1..Len(a.processed) /\ Gathered(a)
      /\ a.k \in Nat \ {0}
  BY <1>1, AtWork, ThreadTyped DEF Handled, IInv
<1>3. turns' = turns \/ turns' = [turns EXCEPT ![Message(w)] = @ + 1] BY DEF SeatForward
<1>4. PICK p \in {"send", "apologise"} : Goto(w, p, a.k) BY DEF SeatForward
<1>5. PICK x : Stepped(w, x) /\ x # Idle /\ x.pc = p /\ x.k = a.k /\ x.txn = Txn(w) /\ x.processed = a.processed
  BY <1>1, <1>2, <1>4, GotoStepped DEF Places
<1>6. ASSUME NEW t \in Txns, NEW e \in InTxn(t, "message") PROVE Pays(w, x, t, e)
  <2>1. MayTurn(x, t, e, seen') => MayTurn(a, t, e, seen) BY <1>1, <1>2, <1>5 DEF MayTurn, Replying
  <2>2. CASE turns'[e] = turns[e] BY <1>1, <2>1, <2>2 DEF Pays
  <2>3. CASE turns'[e] # turns[e]
    <3>1. e = Message(w) /\ turns'[e] = turns[e] + 1 BY <1>3, <2>3, QueueTyped DEF IInv, TypeOK
    <3>2. a.processed[a.k] = e BY <3>1 DEF Message
    <3>3. PICK i \in 1..Len(Queue[Txn(w)]) : a.processed[a.k] = Queue[Txn(w)][i] BY <1>2 DEF Gathered
    <3>4. t = Txn(w) BY <1>2, <3>2, <3>3, TxnOfEvent
    <3>5. MayTurn(a, t, e, seen) BY <1>1, <1>2, <3>2, <3>4 DEF MayTurn, Replying
    <3>6. ~MayTurn(x, t, e, seen')
      <4> SUFFICES ASSUME NEW n \in 1..Len(a.processed), n > a.k, a.processed[n] = e PROVE FALSE
        BY <1>4, <1>5 DEF MayTurn
      <4>1. n = a.k BY <1>2, <3>2 DEF Gathered
      <4> QED BY <1>2, <4>1
    <3> QED BY <1>1, <3>1, <3>5, <3>6 DEF Pays
  <2> QED BY <2>2, <2>3
<1> QED BY <1>5, <1>6, TurnsMove

LEMMA SendTurns ==
  ASSUME IInv, TurnsInv, GatheredInv, NEW w \in Threads, SendReply(w) \/ SendFallback(w)
  PROVE  TurnsInv' /\ GatheredInv'
<1> DEFINE a == threads[w]
<1>1. a # Idle /\ a.pc \in {"send", "apologise"} /\ UNCHANGED <<request, seen, turns, early, crashes>>
  BY DEF SendReply, SendFallback, At, counts, Fault
<1>2. a \in Thread /\ a.txn = Txn(w) /\ a.k \in Nat \ {0} /\ a.k + 1 \in Nat \ {0} BY <1>1, AtWork
<1>3. PICK p \in {"turn", "apologise"}, k \in {a.k, a.k + 1} :
        Goto(w, p, k) /\ (p = "turn" => k = a.k + 1)
  BY DEF SendReply, SendFallback
<1>4. PICK x : Stepped(w, x) /\ x # Idle /\ x.pc = p /\ x.k = k /\ x.txn = Txn(w) /\ x.processed = a.processed
  BY <1>1, <1>2, <1>3, GotoStepped DEF Places
<1>5. \A n \in 1..Len(a.processed) : (n > x.k \/ (n = x.k /\ x.pc = "turn")) => n > a.k
  BY <1>2, <1>3, <1>4
<1>6. \A t \in Txns : \A e : MayTurn(x, t, e, seen') => MayTurn(a, t, e, seen)
  BY <1>1, <1>2, <1>3, <1>4, <1>5 DEF MayTurn, Replying
<1> QED BY <1>1, <1>4, <1>6, FreeStep

LEMMA RespondTurns ==
  ASSUME IInv, TurnsInv, GatheredInv, NEW w \in Threads, Respond(w) PROVE TurnsInv' /\ GatheredInv'
<1>1. /\ threads[w] # Idle /\ threads[w].pc \in {"respond", "turn"}
      /\ threads' = [threads EXCEPT ![w] = Idle] /\ request' = (IF request = w THEN Idle ELSE request)
      /\ UNCHANGED <<seen, turns, early, crashes>>
  BY DEF Respond, At, counts
<1>2. Txn(w) \in seen BY <1>1, AtWork DEF Replying
<1> QED BY <1>1, <1>2, EndTurns

LEMMA TurnsAlways == Spec => [](TurnsInv /\ GatheredInv)
<1>1. Init => TurnsInv /\ GatheredInv
  <2> SUFFICES ASSUME Init PROVE TurnsInv /\ GatheredInv OBVIOUS
  <2>1. ASSUME NEW t \in Txns, NEW e \in InTxn(t, "message")
        PROVE  IsFiniteSet(Due(t, e)) /\ turns[e] + Cardinality(Due(t, e)) + Unasked(t) <= 1 + early[t] + crashes
    <3>1. Due(t, e) = {} BY DEF Init, Due, MayTurn
    <3>2. turns[e] = 0 /\ early[t] = 0 /\ crashes = 0 BY QueueTyped DEF Init
    <3>3. Unasked(t) \in {0, 1} BY DEF Unasked
    <3>4. IsFiniteSet({}) /\ Cardinality({}) = 0 BY FS_EmptySet
    <3> QED BY <3>1, <3>2, <3>3, <3>4
  <2> QED BY <2>1 DEF Init, TurnsInv, GatheredInv
<1>2. IInv /\ TurnsInv /\ GatheredInv /\ [Next]_vars => TurnsInv' /\ GatheredInv'
  <2>1. ASSUME TurnsInv, GatheredInv, UNCHANGED vars PROVE TurnsInv' /\ GatheredInv'
    BY <2>1 DEF vars, counts, TurnsInv, GatheredInv, Due, Unasked, Asked, Txn
  <2> QED
    BY <2>1, SendTxnTurns, TimeoutTurns, CheckTurns, ForwardVerdictTurns, ScanEventTurns, MarkSeenTurns,
       SeatForwardTurns, SendTurns, RespondTurns, CrashTurns
       DEF Next, ThreadStep
<1> QED BY <1>1, <1>2, Invariance, PTL DEF Spec

\* "Idempotent on txn_id", as far as it goes: a message is brought to its seat once, and once more
\* at most for each request that was given up on while scanning and each restart, for every queue
\* and any number of threads.
THEOREM RepeatsHarmless == Spec => []RepeatsAddNoTurn
<1>1. IInv /\ TurnsInv => RepeatsAddNoTurn
  <2> SUFFICES ASSUME IInv, TurnsInv, NEW t \in Txns, NEW e \in InTxn(t, "message")
               PROVE  turns[e] <= 1 + early[t] + crashes
    BY DEF RepeatsAddNoTurn
  <2>1. Unasked(t) \in {0, 1} BY DEF Unasked
  <2> QED BY <2>1, TurnsTyped
<1> QED BY <1>1, Invariance, TurnsAlways, PTL
=============================================================================
