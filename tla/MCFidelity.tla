----------------------------- MODULE MCFidelity -----------------------------
(***************************************************************************)
(* Two persons: ann, of whom events are recorded, and bob, whose twin the  *)
(* pass visits first.  The model writes a proper draft, based on the       *)
(* version it was shown, one that validate_twin refuses, or one that says  *)
(* it is growing and brings signals of its own; the judge may answer off   *)
(* the scale or not at all.                                                *)
(***************************************************************************)
EXTENDS Fidelity

MCSeats == <<"bob", "ann">>
Proper == [text |-> 1, maturity |-> "absent", complete |-> TRUE, based |-> TRUE,
           brings |-> FALSE, signals |-> NoSignals]
MCDrafts ==
  {Proper, [Proper EXCEPT !.text = 2, !.maturity = "bogus", !.based = FALSE],
   [Proper EXCEPT !.text = 3, !.maturity = "growing", !.based = FALSE,
                  !.brings = TRUE, !.signals = [rate |-> 900, n |-> 9]]}
MCEvents ==
  [o \in Owners |-> IF o # "ann" THEN {} ELSE
     {[kind |-> "human_verdict", match |-> "missing", jac |-> 0, agreed |-> TRUE],
      [kind |-> "shadow_prediction", match |-> "words", jac |-> 300, agreed |-> FALSE]}]
MCAnswers == {NoAnswer, 1500}
==============================================================================
