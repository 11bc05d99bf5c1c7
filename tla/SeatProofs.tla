----------------------------- MODULE SeatProofs -----------------------------
(***************************************************************************)
(* For any specifications, machines, exports and restart budgets: the tool *)
(* list and the hook agree on the grants (GrantsHold), and what the audit  *)
(* missed is bounded by what can be counted (AuditGapBounded).             *)
(*                                                                         *)
(* The grants are a fact about the policy operators, once it is known that *)
(* what runs was assembled.  The audit needs an account of every shim: a   *)
(* call leaves no record only on the way out of the process, so a shim     *)
(* that answers hides nothing, whatever was started and stopped before it. *)
(***************************************************************************)
EXTENDS Seat, TLAPS

Known(s) == s.cls \in Classes /\ s.jail \in BOOLEAN /\ s.closet \in BOOLEAN

\* What was assembled, and what was spawned from it, has a class with a preset.
SeatInv ==
  /\ asm # NoSeat => Known(asm)
  /\ spawning => asm # NoSeat
  /\ jcode # NoSeat => Known(jcode) /\ asm # NoSeat
  /\ {shims, calls, records, dropped, failures} \subseteq Nat

IInv == SeatInv /\ GrantsHold /\ AuditGapBounded

-----------------------------------------------------------------------------
(* The policy.                                                              *)

\* The tier of each of jcode's tools under each class, read off the matrix.
LEMMA Tiers ==
  /\ \A c \in Classes, t \in DOMAIN Surface :
       render_tiers[c][Surface[t]] =
         CASE t = "bash" -> (IF c = "A" THEN "sandbox_only" ELSE "always_deny")
           [] t = "selfdev" -> (IF c = "A" THEN "sandbox_only" ELSE "always_deny")
           [] t = "browser" -> (IF c = "A" THEN "always_deny" ELSE "permission_required")
           [] OTHER -> (IF c = "A" THEN "auto_allow" ELSE "permission_required")
  /\ DOMAIN Surface = {"bash", "browser", "swarm", "selfdev"}
<1>1. DOMAIN Surface = {"bash", "browser", "swarm", "selfdev"}
  BY DEF Surface
<1>2. /\ Surface["bash"] = "shell_host" /\ Surface["browser"] = "browser"
      /\ Surface["swarm"] = "swarm_spawn" /\ Surface["selfdev"] = "self_dev"
  BY DEF Surface
<1> QED BY <1>1, <1>2 DEF render_tiers, Lab, Worker, SURFACES, Classes

\* What neither disabled_tools nor the hook stops is granted, and what a hook that knows the
\* seat's class stops is not; one that does not know it stops what has a surface; without a
\* hook only what the list has no name for gets through.
LEMMA ToolsAgree ==
  ASSUME NEW s, Known(s), NEW b, NEW t \in Tools \ (PalaceTools \cup DisabledTools(s))
  PROVE  /\ HookAllows(s, t, b) => Granted(s, t)
         /\ ~HookAllows(s, t, b) => ~Granted(s, t) \/ (~b.policy /\ t \in DOMAIN Surface)
         /\ Granted(s, t) \/ t \in {"selfdev", "mcp", "other_mcp_tool"}
<1>1. t \in {"bash", "browser", "swarm", "selfdev", "read", "mcp", "other_mcp_tool"}
  BY Tiers DEF Tools
<1>2. \A c \in Classes : swarm_enabled[c] = (c # "C")
  BY DEF swarm_enabled
<1>3. t \notin PalaceTools
  OBVIOUS
<1>4. CASE t = "bash"
  BY <1>2, <1>3, <1>4, Tiers DEF HookAllows, Granted, Known, DisabledTools, Rendered, Classes, ALLOWED_TOOLS_BASE
<1>5. CASE t = "browser"
  BY <1>2, <1>3, <1>5, Tiers DEF HookAllows, Granted, Known, DisabledTools, Rendered, Classes, ALLOWED_TOOLS_BASE
<1>6. CASE t = "swarm"
  <2>1. s.cls \in Classes /\ "swarm" \in DOMAIN Surface BY Tiers DEF Known
  <2>2. render_tiers[s.cls][Surface["swarm"]] = IF s.cls = "A" THEN "auto_allow" ELSE "permission_required"
    BY <2>1, Tiers
  <2>3. HookAllows(s, t, b) <=> b.policy /\ ((s.cls = "A" /\ s.jail) \/ s.cls = "B")
    BY <1>2, <1>3, <1>6, <2>1, <2>2 DEF HookAllows, Classes
  <2>4. Granted(s, t) <=> (s.cls = "A" /\ s.jail) \/ s.cls = "B"
    BY <1>6, <2>1 DEF Granted, ALLOWED_TOOLS_BASE
  <2>5. "swarm" \notin DisabledTools(s) BY <1>6
  <2>6. (s.cls = "A" /\ s.jail) \/ s.cls = "B"
    <3>1. CASE s.cls = "A" BY <2>5, <3>1 DEF DisabledTools, Rendered
    <3>2. CASE s.cls = "C" BY <1>2, <2>1, <2>2, <2>5, <3>2 DEF DisabledTools, Rendered
    <3> QED BY <2>1, <3>1, <3>2 DEF Classes
  <2> QED BY <1>6, <2>1, <2>3, <2>4, <2>6
<1>7. CASE t = "selfdev"
  BY <1>2, <1>3, <1>7, Tiers DEF HookAllows, Granted, Known, Classes, ALLOWED_TOOLS_BASE
<1>8. CASE t \in {"read", "mcp", "other_mcp_tool"}
  BY <1>3, <1>8, Tiers DEF HookAllows, Granted, ALLOWED_TOOLS_BASE
<1> QED BY <1>1, <1>4, <1>5, <1>6, <1>7, <1>8

\* The shim performs nothing that is not granted.
LEMMA PalaceAgrees ==
  ASSUME NEW s, NEW t \in PalaceTools, BuildRequest(s, t, FALSE) PROVE Granted(s, t)
BY DEF BuildRequest, Granted, PalaceTools, GATED_TOOLS, ALLOWED_TOOLS_BASE

-----------------------------------------------------------------------------
(* Launch and supervision.                                                  *)

LEMMA InitInv == SeatInit => IInv
BY DEF SeatInit, IInv, SeatInv, GrantsHold, NoUse, Performed, AuditGapBounded

\* A step that is no use of a tool leaves nothing to grant.
LEMMA NoUseHolds == ASSUME did' = NoUse PROVE GrantsHold'
BY DEF GrantsHold, NoUse, Performed

\* A shim that ends, or is replaced by another, or is left alone, and no call: the number
\* of those that have ended does not fall.
LEMMA LifeSteps ==
  ASSUME IInv, SeatInv', UNCHANGED <<auditVars, failures>>, did' = NoUse,
         \/ shim' = shim /\ shims' = shims
         \/ ~shim' /\ shims' = shims
         \/ shim' /\ shims' = shims + 1
  PROVE  IInv'
<1>1. {shims, shims', calls, records, dropped, failures} \subseteq Nat BY DEF IInv, SeatInv
<1>2. AuditGapBounded' BY <1>1 DEF IInv, AuditGapBounded, auditVars
<1> QED BY <1>2, NoUseHolds DEF IInv

LEMMA AssembleInv == ASSUME IInv, NEW s \in Specs, Assemble(s) PROVE IInv'
<1>1. s \in SeatSpec BY SeatConstants
<1>2. Known(s) BY <1>1 DEF Known, Assemble, Assembles, SeatSpec
<1>3. SeatInv' BY <1>2 DEF IInv, SeatInv, Assemble, jcodeVars, auditVars, promoteVars
<1> QED BY <1>3, LifeSteps DEF Assemble, jcodeVars, promoteVars

LEMMA LaunchInv == ASSUME IInv, NEW skip \in BOOLEAN, Launch(skip) PROVE IInv'
<1>1. SeatInv' BY DEF IInv, SeatInv, Launch, jcodeVars, auditVars, promoteVars
<1> QED BY <1>1, LifeSteps DEF Launch, jcodeVars, promoteVars

\* A spawn over a container that still runs counts that one's shim as ended.
LEMMA SpawnedInv == ASSUME IInv, Spawned PROVE IInv'
<1>1. {shims} \subseteq Nat BY DEF IInv, SeatInv
<1>2. CASE UNCHANGED jcodeVars
  <2>1. SeatInv' BY <1>2 DEF IInv, SeatInv, Spawned, jcodeVars, auditVars, promoteVars
  <2> QED BY <1>2, <2>1, LifeSteps DEF Spawned, jcodeVars, promoteVars
<1>3. CASE /\ jcode' = asm /\ shim' \in IF asm.keyref = "file" THEN BOOLEAN ELSE {ShimStarts(asm, box)}
           /\ shims' = IF shim' THEN shims + 1 ELSE shims
  <2>1. shims' \in Nat BY <1>1, <1>3
  <2>2. SeatInv' BY <1>3, <2>1 DEF IInv, SeatInv, Spawned, auditVars, promoteVars
  <2> QED BY <1>3, <2>2, LifeSteps DEF Spawned, promoteVars
<1> QED BY <1>2, <1>3 DEF Spawned

LEMMA RestartShimInv == ASSUME IInv, RestartShim PROVE IInv'
<1>1. SeatInv' BY DEF IInv, SeatInv, RestartShim, lifeVars, auditVars, promoteVars
<1> QED BY <1>1, LifeSteps DEF RestartShim, promoteVars

LEMMA CrashInv == ASSUME IInv, Crash PROVE IInv'
<1>1. SeatInv' BY DEF IInv, SeatInv, Crash, auditVars, promoteVars
<1> QED BY <1>1, LifeSteps DEF Crash, promoteVars

LEMMA StopInv == ASSUME IInv, Stop PROVE IInv'
<1>1. SeatInv' BY DEF IInv, SeatInv, Stop, auditVars, promoteVars
<1>2. shim' = shim \/ ~shim'
  <2>1. shim' = (shim /\ jcode' # NoSeat) BY DEF Stop
  <2>2. CASE jcode' = NoSeat BY <2>1, <2>2
  <2>3. CASE jcode' # NoSeat BY <2>1, <2>3
  <2> QED BY <2>2, <2>3
<1> QED BY <1>1, <1>2, LifeSteps DEF Stop, promoteVars

LEMMA EndSessionInv == ASSUME IInv, EndSession PROVE IInv'
<1>1. SeatInv' BY DEF IInv, SeatInv, EndSession, lifeVars, jcodeVars, auditVars
<1> QED BY <1>1, LifeSteps DEF EndSession, jcodeVars

-----------------------------------------------------------------------------
(* Tools.                                                                   *)

LEMMA UseToolInv ==
  ASSUME IInv, NEW t \in Tools, NEW answers \in BOOLEAN, UseTool(t, answers) PROVE IInv'
<1>1. /\ jcode # NoSeat /\ t \in Tools \ (PalaceTools \cup DisabledTools(jcode))
      /\ did' = [seat |-> jcode, tool |-> t, asked |-> answers,
                 result |-> IF answers => HookAllows(jcode, t, box) THEN "ok" ELSE "blocked"]
      /\ UNCHANGED <<box, lifeVars, jcodeVars, auditVars, promoteVars>>
  BY DEF UseTool
<1>2. Known(jcode) BY <1>1 DEF IInv, SeatInv
<1>3. /\ HookAllows(jcode, t, box) => Granted(jcode, t)
      /\ ~HookAllows(jcode, t, box) => ~Granted(jcode, t) \/ (~box.policy /\ t \in DOMAIN Surface)
      /\ Granted(jcode, t) \/ t \in {"selfdev", "mcp", "other_mcp_tool"}
  BY <1>1, <1>2, ToolsAgree
<1>4. box' = box BY <1>1
<1>5. GrantsHold' BY <1>1, <1>3, <1>4 DEF GrantsHold, Performed
<1>6. SeatInv' /\ AuditGapBounded'
  BY <1>1 DEF IInv, SeatInv, AuditGapBounded, lifeVars, jcodeVars, auditVars, promoteVars
<1> QED BY <1>5, <1>6 DEF IInv

\* A call that does not raise is recorded, dropped, or warned about; one that raises is at
\* most one more that the palace performed.
LEMMA CallCounts ==
  ASSUME SeatInv, NEW s, NEW t, NEW spoofed, NEW out \in Outcomes, NEW to,
         Call(s, t, spoofed, out, to)
  PROVE  /\ {calls', records', dropped'} \subseteq Nat /\ (warned => warned')
         /\ \/ warned'
            \/ out \notin Raised /\ calls' - (records' + dropped') = calls - (records + dropped)
            \/ out \in Raised /\ calls' - (records' + dropped') <= calls - (records + dropped) + 1
<1>1. {calls, records, dropped} \subseteq Nat BY DEF SeatInv
<1>2. CASE out \notin Raised
  <2>1. Emit(to) BY <1>2 DEF Call
  <2> QED BY <1>1, <1>2, <2>1 DEF Emit
<1>3. CASE out \in Raised
  <2>1. /\ calls' = IF out = "performed_lost" THEN calls + 1 ELSE calls
        /\ UNCHANGED <<dropped, warned, records>>
    BY <1>3 DEF Call, Raised
  <2> QED BY <1>1, <1>3, <2>1
<1> QED BY <1>2, <1>3

LEMMA UsePalaceInv ==
  ASSUME IInv, NEW t \in PalaceTools, NEW spoofed \in BOOLEAN, NEW answers \in BOOLEAN,
         NEW out \in Outcomes, UsePalace(t, spoofed, out, answers)
  PROVE  IInv'
<1> DEFINE to == IF box.audit THEN "file" ELSE "nowhere"
<1>1. /\ jcode # NoSeat /\ shim /\ Call(jcode, t, spoofed, out, to)
      /\ shim' = LivesOn(out)
      /\ did' = [seat |-> jcode, tool |-> t, asked |-> answers, result |-> out]
      /\ UNCHANGED <<box, lifeVars, jcode, shims, promoteVars>>
  BY DEF UsePalace
<1> HIDE DEF to
<1>2. /\ {calls', records', dropped'} \subseteq Nat /\ (warned => warned')
      /\ \/ warned'
         \/ out \notin Raised /\ calls' - (records' + dropped') = calls - (records + dropped)
         \/ out \in Raised /\ calls' - (records' + dropped') <= calls - (records + dropped) + 1
  BY <1>1, CallCounts DEF IInv
<1>3. SeatInv' BY <1>1, <1>2 DEF IInv, SeatInv, lifeVars, promoteVars
<1>4. {calls, records, dropped, shims, failures} \subseteq Nat BY DEF IInv, SeatInv
<1>5. AuditGapBounded'
  <2>1. failures' = failures /\ shims' = shims BY <1>1 DEF promoteVars
  <2>2. warned \/ calls <= records + dropped + (shims - 1) + failures
    BY <1>1 DEF IInv, AuditGapBounded
  <2>3. CASE out \in Raised
    <3>1. ~shim' BY <1>1, <2>3 DEF LivesOn
    <3> QED BY <1>2, <1>4, <2>1, <2>2, <2>3, <3>1 DEF AuditGapBounded
  <2>4. CASE out \notin Raised
    <3>1. shim' BY <1>1, <2>4 DEF LivesOn
    <3> QED BY <1>2, <1>4, <2>1, <2>2, <2>4, <3>1 DEF AuditGapBounded
  <2> QED BY <2>3, <2>4
<1>6. out \in Performed => BuildRequest(jcode, t, FALSE)
  BY <1>1 DEF Call, Performed, Raised, BuildRequest
<1>7. out \in Performed => Granted(jcode, t) BY <1>6, PalaceAgrees
<1>8. out # "blocked" BY DEF Outcomes
<1>9. GrantsHold' BY <1>1, <1>7, <1>8 DEF GrantsHold
<1> QED BY <1>3, <1>5, <1>9 DEF IInv

\* The writer's failure stands for the record that a raised call has not.
LEMMA PromoteInv ==
  ASSUME IInv, NEW i \in DOMAIN Items, NEW out \in Outcomes, Promote(i, out) PROVE IInv'
<1>1. UNCHANGED <<box, lifeVars, jcodeVars>> /\ did' = NoUse BY DEF Promote
<1>2. {calls, records, dropped, shims, failures} \subseteq Nat BY DEF IInv, SeatInv
<1>3. CASE ~IsPromotable(i)
  <2>1. UNCHANGED <<auditVars, failures>> BY <1>3 DEF Promote
  <2>2. SeatInv' BY <1>1, <2>1 DEF IInv, SeatInv, lifeVars, jcodeVars, auditVars
  <2> QED BY <1>1, <2>1, <2>2, LifeSteps DEF jcodeVars
<1>4. CASE IsPromotable(i)
  <2>1. /\ Call(asm, "palace_remember", FALSE, out, "tap")
        /\ failures' = IF WriterOk(out) THEN failures ELSE failures + 1
    BY <1>4 DEF Promote
  <2>2. /\ {calls', records', dropped'} \subseteq Nat /\ (warned => warned')
        /\ \/ warned'
           \/ out \notin Raised /\ calls' - (records' + dropped') = calls - (records + dropped)
           \/ out \in Raised /\ calls' - (records' + dropped') <= calls - (records + dropped) + 1
    BY <2>1, CallCounts DEF IInv
  <2>3. failures' \in Nat /\ failures' >= failures /\ (out \in Raised => failures' = failures + 1)
    BY <1>2, <2>1 DEF WriterOk, Raised
  <2>4. SeatInv' BY <1>1, <1>2, <2>2, <2>3 DEF IInv, SeatInv, lifeVars, jcodeVars
  <2>5. shim' = shim /\ shims' = shims BY <1>1 DEF jcodeVars
  <2>6. AuditGapBounded'
    <3>1. CASE warned' BY <3>1 DEF AuditGapBounded
    <3>2. CASE ~warned'
      <4>1. calls' - (records' + dropped') - failures' <= calls - (records + dropped) - failures
        BY <1>2, <2>2, <2>3, <3>2
      <4> QED BY <1>2, <2>2, <2>3, <2>5, <3>2, <4>1 DEF IInv, AuditGapBounded
    <3> QED BY <3>1, <3>2
  <2> QED BY <1>1, <2>4, <2>6, NoUseHolds DEF IInv
<1> QED BY <1>3, <1>4

LEMMA NextInv == IInv /\ [SeatNext]_seatVars => IInv'
<1> SUFFICES ASSUME IInv, [SeatNext]_seatVars PROVE IInv' OBVIOUS
<1>1. ASSUME NEW s \in Specs, Assemble(s) PROVE IInv' BY <1>1, AssembleInv
<1>2. ASSUME NEW skip \in BOOLEAN, Launch(skip) PROVE IInv' BY <1>2, LaunchInv
<1>3. CASE Spawned BY <1>3, SpawnedInv
<1>4. CASE RestartShim BY <1>4, RestartShimInv
<1>5. CASE Crash BY <1>5, CrashInv
<1>6. CASE Stop BY <1>6, StopInv
<1>7. CASE EndSession BY <1>7, EndSessionInv
<1>8. ASSUME NEW t \in Tools, NEW answers \in BOOLEAN, UseTool(t, answers) PROVE IInv'
  BY <1>8, UseToolInv
<1>9. ASSUME NEW t \in PalaceTools, NEW spoofed \in BOOLEAN, NEW answers \in BOOLEAN,
             NEW out \in Outcomes, UsePalace(t, spoofed, out, answers)
      PROVE  IInv'
  BY <1>9, UsePalaceInv
<1>10. ASSUME NEW i \in DOMAIN Items, NEW out \in Outcomes, Promote(i, out) PROVE IInv'
  BY <1>10, PromoteInv
<1>11. CASE UNCHANGED seatVars
  BY <1>11 DEF seatVars, lifeVars, jcodeVars, auditVars, promoteVars, IInv, SeatInv, GrantsHold, AuditGapBounded
<1> QED BY <1>1, <1>2, <1>3, <1>4, <1>5, <1>6, <1>7, <1>8, <1>9, <1>10, <1>11 DEF SeatNext

LEMMA Invariance == SeatBehavior => []IInv
  BY InitInv, NextInv, PTL DEF SeatBehavior

\* disabled_tools of config_render.py and decide of pre_tool_hook.py agree with the table
\* of grants, for every assembled seat, the hook answering or not.
THEOREM GrantsAlwaysHold == SeatBehavior => []GrantsHold
  BY Invariance, PTL DEF IInv

\* For any number of shims, promotions, restarts and lost answers: handle_message lets what
\* the transport raised end the process, so no shim hides two calls from the audit.
THEOREM AuditGapAlwaysBounded == SeatBehavior => []AuditGapBounded
  BY Invariance, PTL DEF IInv
=============================================================================
