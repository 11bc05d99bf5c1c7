------------------------------- MODULE Channel -------------------------------
(***************************************************************************)
(* The Matrix bridge, nc_channels/service.py: the homeserver pushes its    *)
(* transactions to the application service, one at a time and in order,    *)
(* and repeats one until it is answered with 200.  Each request runs in a  *)
(* thread of its own (ThreadingHTTPServer): it scans the events, posting   *)
(* each Decision-Queue verdict to its seat on the way, remembers the       *)
(* transaction id, then forwards each human message to the seat and sends  *)
(* the reply into the room.  A thread whose verdict post raises dies       *)
(* without an answer.                                                      *)
(*                                                                         *)
(* The homeserver, the seat wrapper and the homeserver's send API are      *)
(* external: a call to them succeeds, fails, or takes effect and fails     *)
(* (the answer is lost or late).                                           *)
(***************************************************************************)
EXTENDS Naturals, Sequences

CONSTANTS
  Events,        \* room events, as objects
  Kind,          \* [Events -> {"verdict", "message", "other"}]: an m.neop.verdict with a seat,
                 \* a routable human text message, or neither (echoes, edits, puppets)
  Queue,         \* Seq(Seq(Events)): the transactions of the homeserver, in order
  Misrouted,     \* verdicts the seat they are posted to refuses with 409
  Threads,       \* request threads of the AS
  Idle,          \* a thread without a request
  MaxTimeouts,   \* bound: requests the homeserver gives up waiting for
  MaxFaults,     \* bound: calls of the AS that fail
  MaxCrashes     \* bound: restarts of the AS

ASSUME ChannelTyped ==
  /\ Kind \in [Events -> {"verdict", "message", "other"}]
  /\ Queue \in Seq(Seq(Events))
  /\ Misrouted \subseteq Events
  /\ MaxTimeouts \in Nat /\ MaxFaults \in Nat /\ MaxCrashes \in Nat

Txns == 1..Len(Queue)

\* The homeserver pushes an event once.
ASSUME EventsPushedOnce ==
  \A t, u \in Txns : \A i \in 1..Len(Queue[t]), j \in 1..Len(Queue[u]) :
    Queue[t][i] = Queue[u][j] => t = u /\ i = j

\* One request: k is the event, or the processed message, it is at.
Thread == [txn : Txns, pc : {"check", "scan", "turn", "send", "apologise", "respond"},
           k : Nat \ {0}, processed : Seq(Events)]

ASSUME IdleIsNoThread == Idle \notin Thread \cup Threads

VARIABLES
  acked,      \* transactions the homeserver has got a 200 for: it sends acked + 1 next
  request,    \* the thread whose answer it waits for, or Idle
  threads,    \* [Threads -> Thread \cup {Idle}]
  seen,       \* _seen_txns, in memory
  \* history: what the seat and the room have seen
  persisted,  \* [Events -> how often the seat accepted the verdict]
  turns,      \* [Events -> how often the seat answered the message]
  replies,    \* [Events -> replies to the message in the room]
  excused,    \* [Events -> error notes to the message in the room]
  dropped,    \* messages whose error note could not be sent either
  timeouts, faults, crashes,
  early       \* [Txns -> requests the homeserver gave up on while they were scanning]

counts == <<timeouts, faults, crashes, early>>
room == <<replies, excused, dropped>>
vars == <<acked, request, threads, seen, persisted, turns, room, counts>>

Init ==
  /\ acked = 0
  /\ request = Idle
  /\ threads = [w \in Threads |-> Idle]
  /\ seen = {}
  /\ persisted = [e \in Events |-> 0]
  /\ turns = [e \in Events |-> 0]
  /\ replies = [e \in Events |-> 0]
  /\ excused = [e \in Events |-> 0]
  /\ dropped = {}
  /\ timeouts = 0 /\ faults = 0 /\ crashes = 0
  /\ early = [t \in Txns |-> 0]

At(w, label) == threads[w] # Idle /\ threads[w].pc = label
Goto(w, label, k) == threads' = [threads EXCEPT ![w].pc = label, ![w].k = k]
Txn(w) == threads[w].txn
Event(w) == Queue[Txn(w)][threads[w].k]
Scanned(w) == threads[w].k > Len(Queue[Txn(w)])
Message(w) == threads[w].processed[threads[w].k]
Handled(w) == threads[w].k > Len(threads[w].processed)

\* The call made at this step fails.
Fault == faults < MaxFaults /\ faults' = faults + 1 /\ UNCHANGED <<timeouts, crashes, early>>

(***************************************************************************)
(* The homeserver.                                                         *)
(***************************************************************************)
\* One transaction is in flight; the same one again until it is acknowledged.
SendTxn(w) ==
  /\ request = Idle
  /\ acked < Len(Queue)
  /\ threads[w] = Idle
  /\ threads' = [threads EXCEPT ![w] = [txn |-> acked + 1, pc |-> "check", k |-> 1,
                                          processed |-> <<>>]]
  /\ request' = w
  /\ UNCHANGED <<acked, seen, persisted, turns, room, counts>>

\* It gives up waiting; the thread works on.
Timeout ==
  /\ request # Idle
  /\ timeouts < MaxTimeouts
  /\ timeouts' = timeouts + 1
  /\ LET t == Txn(request)
     IN  early' = IF threads[request].pc \in {"check", "scan"} THEN [early EXCEPT ![t] = @ + 1]
                  ELSE early
  /\ request' = Idle
  /\ UNCHANGED <<acked, threads, seen, persisted, turns, room, faults, crashes>>

(***************************************************************************)
(* A request thread: process_transaction.                                  *)
(***************************************************************************)
\* An exception leaves do_PUT: the connection closes without an answer.
Die(w) ==
  /\ threads' = [threads EXCEPT ![w] = Idle]
  /\ request' = IF request = w THEN Idle ELSE request

\* Mutant: a repeated transaction is not answered.
CheckUnanswered(w) ==
  /\ At(w, "check")
  /\ IF Txn(w) \in seen
     THEN Die(w)
     ELSE Goto(w, "scan", 1) /\ UNCHANGED request
  /\ UNCHANGED <<acked, seen, persisted, turns, room, counts>>

\* Mutant: the id is remembered on arrival.
CheckMarking(w) ==
  /\ At(w, "check")
  /\ IF Txn(w) \in seen THEN Goto(w, "respond", 1) ELSE Goto(w, "scan", 1)
  /\ seen' = seen \cup {Txn(w)}
  /\ UNCHANGED <<acked, request, persisted, turns, room, counts>>

\* A transaction seen before is answered at once.
Check(w) ==
  /\ At(w, "check")
  /\ IF Txn(w) \in seen THEN Goto(w, "respond", 1) ELSE Goto(w, "scan", 1)
  /\ UNCHANGED <<acked, request, seen, persisted, turns, room, counts>>

\* Mutant: a failed post is logged and the scan goes on.
ForwardSwallowing(w) ==
  /\ At(w, "scan")
  /\ ~Scanned(w)
  /\ Kind[Event(w)] = "verdict"
  /\ Goto(w, "scan", threads[w].k + 1)
  /\ \/ persisted' = [persisted EXCEPT ![Event(w)] = @ + 1] /\ UNCHANGED counts
     \/ Fault /\ UNCHANGED persisted
  /\ UNCHANGED <<acked, request, seen, turns, room>>

\* The next event of the scan is a verdict: forward_verdict posts it to its seat.  The
\* post raises when it is refused, fails, or its answer is lost.
ForwardVerdict(w) ==
  /\ At(w, "scan")
  /\ ~Scanned(w)
  /\ LET e == Event(w)
     IN  /\ Kind[e] = "verdict"
         /\ \/ /\ e \notin Misrouted
               /\ persisted' = [persisted EXCEPT ![e] = @ + 1]
               /\ Goto(w, "scan", threads[w].k + 1)
               /\ UNCHANGED <<request, counts>>
            \/ /\ e \in Misrouted
               /\ Die(w)
               /\ UNCHANGED <<persisted, counts>>
            \/ /\ e \notin Misrouted
               /\ Fault
               /\ Die(w)
               /\ \/ UNCHANGED persisted
                  \/ persisted' = [persisted EXCEPT ![e] = @ + 1]
  /\ UNCHANGED <<acked, seen, turns, room>>

\* Any other event is routable, and kept for do_PUT, or is not, and is skipped.
ScanEvent(w) ==
  /\ At(w, "scan")
  /\ ~Scanned(w)
  /\ Kind[Event(w)] # "verdict"
  /\ threads' = [threads EXCEPT ![w].k = @ + 1,
                  ![w].processed = IF Kind[Event(w)] = "message" THEN Append(@, Event(w)) ELSE @]
  /\ UNCHANGED <<acked, request, seen, persisted, turns, room, counts>>

\* Mutant: the id is never remembered.
MarkNothing(w) ==
  /\ At(w, "scan")
  /\ Scanned(w)
  /\ Goto(w, "turn", 1)
  /\ UNCHANGED <<acked, request, seen, persisted, turns, room, counts>>

MarkSeen(w) ==
  /\ At(w, "scan")
  /\ Scanned(w)
  /\ seen' = seen \cup {Txn(w)}
  /\ Goto(w, "turn", 1)
  /\ UNCHANGED <<acked, request, persisted, turns, room, counts>>

(***************************************************************************)
(* A request thread: do_PUT, one message after the other.                  *)
(***************************************************************************)
\* _seat_forward: the seat takes a turn on the message.  (The request carries the message
\* id; whether the seat drops a repetition by it is not decided in this code.)
SeatForward(w) ==
  /\ At(w, "turn")
  /\ ~Handled(w)
  /\ \/ /\ turns' = [turns EXCEPT ![Message(w)] = @ + 1]
        /\ Goto(w, "send", threads[w].k)
        /\ UNCHANGED counts
     \/ /\ Fault
        /\ Goto(w, "apologise", threads[w].k)
        /\ \/ UNCHANGED turns
           \/ turns' = [turns EXCEPT ![Message(w)] = @ + 1]
  /\ UNCHANGED <<acked, request, seen, persisted, room>>

\* Mutant: a reply that cannot be sent ends the request.
SendReplyOrDie(w) ==
  /\ At(w, "send")
  /\ \/ /\ replies' = [replies EXCEPT ![Message(w)] = @ + 1]
        /\ Goto(w, "turn", threads[w].k + 1)
        /\ UNCHANGED <<request, counts>>
     \/ /\ Fault
        /\ Die(w)
        /\ UNCHANGED replies
  /\ UNCHANGED <<acked, seen, persisted, turns, excused, dropped>>

\* _cs_api_call of the reply, under a fresh id: the homeserver cannot tell a repetition.
SendReply(w) ==
  /\ At(w, "send")
  /\ \/ /\ replies' = [replies EXCEPT ![Message(w)] = @ + 1]
        /\ Goto(w, "turn", threads[w].k + 1)
        /\ UNCHANGED counts
     \/ /\ Fault
        /\ Goto(w, "apologise", threads[w].k)
        /\ \/ UNCHANGED replies
           \/ replies' = [replies EXCEPT ![Message(w)] = @ + 1]
  /\ UNCHANGED <<acked, request, seen, persisted, turns, excused, dropped>>

\* The error note; when it fails as well the message is passed over.
SendFallback(w) ==
  /\ At(w, "apologise")
  /\ Goto(w, "turn", threads[w].k + 1)
  /\ \/ /\ excused' = [excused EXCEPT ![Message(w)] = @ + 1]
        /\ UNCHANGED <<dropped, counts>>
     \/ /\ Fault
        /\ dropped' = dropped \cup {Message(w)}
        /\ UNCHANGED excused
  /\ UNCHANGED <<acked, request, seen, persisted, turns, replies>>

\* Mutant: every 200 counts.
RespondUnasked(w) ==
  /\ \/ At(w, "respond")
     \/ At(w, "turn") /\ Handled(w)
  /\ Die(w)
  /\ acked' = acked + 1
  /\ UNCHANGED <<seen, persisted, turns, room, counts>>

\* 200, to a homeserver that may have stopped waiting.
Respond(w) ==
  /\ \/ At(w, "respond")
     \/ At(w, "turn") /\ Handled(w)
  /\ threads' = [threads EXCEPT ![w] = Idle]
  /\ IF request = w THEN acked' = acked + 1 /\ request' = Idle
     ELSE UNCHANGED <<acked, request>>
  /\ UNCHANGED <<seen, persisted, turns, room, counts>>

\* The AS restarts: requests end unanswered and the seen transactions are forgotten.
Crash ==
  /\ crashes < MaxCrashes
  /\ crashes' = crashes + 1
  /\ threads' = [w \in Threads |-> Idle]
  /\ request' = Idle
  /\ seen' = {}
  /\ UNCHANGED <<acked, persisted, turns, room, timeouts, faults, early>>

ThreadStep(w) ==
  \/ Check(w) \/ ForwardVerdict(w) \/ ScanEvent(w) \/ MarkSeen(w)
  \/ SeatForward(w) \/ SendReply(w) \/ SendFallback(w) \/ Respond(w)

Next ==
  \/ \E w \in Threads : SendTxn(w) \/ ThreadStep(w)
  \/ Timeout
  \/ Crash

\* Threads are scheduled; the homeserver retries for as long as it has a transaction.
Fairness ==
  /\ \A w \in Threads : WF_vars(ThreadStep(w))
  /\ WF_vars(\E w \in Threads : SendTxn(w))

Spec == Init /\ [][Next]_vars /\ Fairness

-----------------------------------------------------------------------------
\* Every variable stays in its domain.
TypeOK ==
  /\ acked \in 0..Len(Queue)
  /\ request \in Threads \cup {Idle}
  /\ threads \in [Threads -> Thread \cup {Idle}]
  /\ seen \subseteq Txns
  /\ persisted \in [Events -> Nat]
  /\ turns \in [Events -> Nat]
  /\ replies \in [Events -> Nat]
  /\ excused \in [Events -> Nat]
  /\ dropped \subseteq Events
  /\ timeouts \in 0..MaxTimeouts /\ faults \in 0..MaxFaults /\ crashes \in 0..MaxCrashes
  /\ early \in [Txns -> Nat]

InTxn(t, kind) == {e \in {Queue[t][i] : i \in 1..Len(Queue[t])} : Kind[e] = kind}
Posted(t, i) == Kind[Queue[t][i]] = "verdict" /\ persisted[Queue[t][i]] > 0
Working(t) == \E w \in Threads : threads[w] # Idle /\ Txn(w) = t

\* An acknowledged transaction is never sent again, so what it carries must have arrived:
\* each of its verdicts was accepted by the seat, through timeouts, faults and restarts.
AckedVerdictsPersisted ==
  \A t \in 1..acked : \A e \in InTxn(t, "verdict") : persisted[e] > 0

\* "One bad message must not drop the whole txn" and "ALWAYS reply": once a transaction is
\* acknowledged and no thread works on it, each of its messages has been replied to,
\* answered with the error note, or failed twice; a restart is the exception.
AckedMessagesAnswered ==
  \A t \in 1..acked : ~Working(t) /\ crashes = 0 =>
    \A e \in InTxn(t, "message") : replies[e] + excused[e] > 0 \/ e \in dropped

\* "Idempotent on txn_id": a repeated request adds no turn once an earlier one has ended its
\* scan.  A second turn takes a restart, or a request given up on while it was scanning.
RepeatsAddNoTurn ==
  \A t \in Txns : \A e \in InTxn(t, "message") : turns[e] <= 1 + early[t] + crashes

\* A seat learns of a verdict only after every verdict the homeserver sent before it: those
\* ahead of it in its transaction, and those of the transactions before.
VerdictsInOrder ==
  \A t \in Txns : \A i \in 1..Len(Queue[t]) : Posted(t, i) =>
    /\ \A j \in 1..(i - 1) : Kind[Queue[t][j]] = "verdict" => persisted[Queue[t][j]] > 0
    /\ \A u \in 1..(t - 1) : \A f \in InTxn(u, "verdict") : persisted[f] > 0

\* "Duplicate txnId is a no-op (still 200), never reprocessed": without a restart no
\* message is forwarded to its seat twice.
NeverReprocessed == crashes = 0 => \A e \in Events : turns[e] <= 1

\* The homeserver's queue drains: every transaction is acknowledged in the end.
QueueDrains == <>(acked = Len(Queue))
=============================================================================
