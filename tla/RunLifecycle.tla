---------------------------- MODULE RunLifecycle ----------------------------
(***************************************************************************)
(* What the run engine promises the people who start and approve runs,     *)
(* with plans, gates, calls and the paused-run store left out: a run is    *)
(* worked on, may wait for a human any number of times, ends once and for  *)
(* good, and performs each task of a planning round at most once.  runtime *)
(* code: State and TERMINAL of core.py and the pause/resume contract of    *)
(* approval_gate.py.                                                       *)
(***************************************************************************)
EXTENDS Naturals

CONSTANTS Runs, Tasks   \* Tasks: the (planning round, task) pairs of a run

VARIABLES
  phase,   \* [Runs -> {"new", "active", "waiting", "ended"}]
  done     \* [Runs -> [Tasks -> Nat]]: how often each task was performed

vars == <<phase, done>>

Init ==
  /\ phase = [r \in Runs |-> "new"]
  /\ done = [r \in Runs |-> [t \in Tasks |-> 0]]

Move(r, from, to) ==
  /\ phase[r] \in from
  /\ phase' = [phase EXCEPT ![r] = to]
  /\ UNCHANGED done

Start(r)  == Move(r, {"new"}, "active")
Refuse(r) == Move(r, {"new"}, "ended")
Pause(r)  == Move(r, {"active"}, "waiting")
Resume(r) == Move(r, {"waiting"}, "active")
End(r)    == Move(r, {"active"}, "ended")

\* A run that has waited may be declared over without being worked on again.
GiveUp(r) == Move(r, {"waiting"}, "ended")

Perform(r, t) ==
  /\ phase[r] = "active"
  /\ done[r][t] = 0
  /\ done' = [done EXCEPT ![r][t] = 1]
  /\ UNCHANGED phase

Leave(r) == Pause(r) \/ End(r)

Next ==
  \E r \in Runs :
    \/ Start(r) \/ Refuse(r) \/ Resume(r) \/ Leave(r) \/ GiveUp(r)
    \/ \E t \in Tasks : Perform(r, t)

\* A run being worked on is not worked on forever.
Spec == Init /\ [][Next]_vars /\ \A r \in Runs : WF_vars(Leave(r))
=============================================================================
