------------------------------ MODULE MCNightly ------------------------------
(***************************************************************************)
(* The two nightly passes that emit: the Vault and the flywheel.  They     *)
(* share no state, so a behaviour is one of the Vault or one of the        *)
(* flywheel: job says which.                                               *)
(***************************************************************************)
EXTENDS Vault, Flywheel

VARIABLE job
nightVars == <<job, vaultVars, flyVars>>

Init == VaultInit /\ FlywheelInit /\ job \in {"vault", "flywheel"}
Next == \/ job = "vault" /\ VaultNext /\ UNCHANGED <<job, flyVars>>
        \/ job = "flywheel" /\ FlywheelNext /\ UNCHANGED <<job, vaultVars>>
Fairness == WF_nightVars(job = "vault" /\ (TickVault \/ PassStep) /\ UNCHANGED <<job, flyVars>>)
Spec == Init /\ [][Next]_nightVars /\ Fairness

\* Key a was proposed twice: without an approval and with something to redact, and again
\* with an approval of its own.
MCRecords ==
  {[key |-> "a", ver |-> 1, category |-> "fact", conf |-> 5, pii |-> {"email"},
    provenance |-> TRUE, approval |-> "none"],
   [key |-> "a", ver |-> 2, category |-> "run", conf |-> 7, pii |-> {},
    provenance |-> TRUE, approval |-> "promote"]}

\* One shape, of a seat that is not in the catalog.
MCSeatOf == [s \in Shapes |-> "ops"]
==============================================================================
