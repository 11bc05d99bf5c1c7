--------------------------- MODULE ApprovalPolicy ---------------------------
(***************************************************************************)
(* The approval policy a tenant's gate consults: acp/approval.py (the      *)
(* policy and its three-way decision), acp/approval_mode.py (report-only   *)
(* against enforce) and the decision half of the ApprovalBroker in         *)
(* runtime/approval_gate.py.                                               *)
(*                                                                         *)
(* An action is a record [scope, name]; the seat, tenant and target it     *)
(* also carries are audit fields no decision reads.  A broker is a record  *)
(*   [mode, default_mode, scope_modes, overrides, hard_deny]               *)
(* where scope_modes and overrides are partial functions (Python dicts)    *)
(* from a scope, and from a pair <<scope, name>>, to a policy mode.        *)
(***************************************************************************)

\* acp/approval.py: GW-4, the four approval scopes, and the per-scope modes.
SCOPES == {"command", "tool", "neop", "plan"}
MODES  == {"allow", "deny", "ask"}

\* GW-5: the denylist is keyed by (scope, name).
IsHardDenied(b, a) == <<a.scope, a.name>> \in b.hard_deny

\* Precedence: per-(scope, name) override, then per-scope default, then policy default.
ModeFor(b, a) ==
  IF <<a.scope, a.name>> \in DOMAIN b.overrides THEN b.overrides[<<a.scope, a.name>>]
  ELSE IF a.scope \in DOMAIN b.scope_modes      THEN b.scope_modes[a.scope]
  ELSE b.default_mode

\* The engine: hard-deny first, then the mode; "ask" means await.
PolicyDecide(b, a) ==
  IF IsHardDenied(b, a) THEN "deny"
  ELSE IF ModeFor(b, a) = "allow" THEN "allow"
  ELSE IF ModeFor(b, a) = "deny"  THEN "deny"
  ELSE "await"

\* ApprovalBroker.decide: report-only records what the policy would do and proceeds.
Decide(b, a) == IF b.mode = "report_only" THEN "allow" ELSE PolicyDecide(b, a)

\* Mutant: the grant overrides the denylist.
ResolveGrantUnchecked(b, a) == "allow"

\* A human grant is re-checked against the denylist, and against nothing else.
ResolveGrant(b, a) == IF IsHardDenied(b, a) THEN "deny" ELSE "allow"

\* Mutant: a missing verdict counts as a grant.
ResolveUnlessDenied(b, v, a) == IF v = "deny" THEN "deny" ELSE ResolveGrant(b, a)

\* ApprovalBroker.resolve: v is the verdict recorded under the action's NAME ("none" when
\* there is no entry); anything but "allow" is a denial.
Resolve(b, v, a) == IF v = "allow" THEN ResolveGrant(b, a) ELSE "deny"
=============================================================================
