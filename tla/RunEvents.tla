------------------------------ MODULE RunEvents ------------------------------
(***************************************************************************)
(* The palace as its clients see it (runtime/memory.py): remote calls that *)
(* may fail before or after they take effect, and the run_events store, a  *)
(* bounded log per seat that is read newest first.                         *)
(***************************************************************************)
EXTENDS Naturals, Sequences

\* One call of _post.  "done": performed and answered.  "refused": an HTTP error, a 403 of
\* the seat isolation or an error envelope, raised; nothing happened.  "lost": performed,
\* but the answer timed out, and urlopen raised.
PostOutcomes == {"done", "refused", "lost"}
Performed(out) == out # "refused"
Raises(out) == out # "done"

\* Mutant: the store is not trimmed.
PutRunEventAll(log, ev, cap) == <<ev>> \o log

\* put_run_event: a blind append; the store keeps the newest cap rows of the seat,
\* whatever their kind.
PutRunEvent(log, ev, cap) == SubSeq(<<ev>> \o log, 1, IF Len(log) < cap THEN Len(log) + 1 ELSE cap)

\* The rows of some kinds, in the order of the log.
RowsOf(log, kinds) ==
  LET kept[i \in 0..Len(log)] ==
        IF i = 0 THEN <<>>
        ELSE IF log[i].kind \in kinds THEN Append(kept[i - 1], log[i]) ELSE kept[i - 1]
  IN  kept[Len(log)]

\* get_run_events(kind): the rows of one kind, newest first.
GetRunEvents(log, k) == RowsOf(log, {k})
==============================================================================
