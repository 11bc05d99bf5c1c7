----------------------------- MODULE AtMostOnce -----------------------------
(***************************************************************************)
(* What a nightly pass promises of its emissions, whatever it is that it   *)
(* emits: an item is claimed by a durable marker before it is emitted, a   *)
(* claim is good for one emission, and an item is claimed again only after *)
(* its marker was cleared.  An emission may be lost; it is never repeated. *)
(* Vault and Flywheel implement this.                                      *)
(***************************************************************************)
EXTENDS Naturals

CONSTANT Items

VARIABLES
  marked,   \* items with a do-not-repeat marker
  claims,   \* [Items -> claims not used yet]
  emitted   \* [Items -> emissions so far]

vars == <<marked, claims, emitted>>

Init == marked = {} /\ claims = [i \in Items |-> 0] /\ emitted = [i \in Items |-> 0]

Claim(i) ==
  /\ i \notin marked
  /\ marked' = marked \cup {i}
  /\ claims' \in {claims, [claims EXCEPT ![i] = @ + 1]}   \* the claimant may be gone already
  /\ UNCHANGED emitted

Emit(i) ==
  /\ claims[i] > 0
  /\ claims' = [claims EXCEPT ![i] = @ - 1]
  /\ emitted' = [emitted EXCEPT ![i] = @ + 1]
  /\ UNCHANGED marked

Lose(i) ==
  /\ claims[i] > 0
  /\ claims' = [claims EXCEPT ![i] = @ - 1]
  /\ UNCHANGED <<marked, emitted>>

Clear(i) ==
  /\ marked' = marked \ {i}
  /\ UNCHANGED <<claims, emitted>>

Next == \E i \in Items : Claim(i) \/ Emit(i) \/ Lose(i) \/ Clear(i)

Spec == Init /\ [][Next]_vars
=============================================================================
