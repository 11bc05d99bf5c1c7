------------------------------ MODULE SeatPolicy ------------------------------
(***************************************************************************)
(* What a jcode seat may do, as the adapter writes it down three times:    *)
(* the tier matrix (safety_policy.py), the [tools].disabled list rendered  *)
(* into config.toml (config_render.py) and the pre_tool hook that is asked *)
(* before each call (pre_tool_hook.py); and what a seat specification must *)
(* have before it is assembled and launched (seat_adapter.py, isolation.py,*)
(* the constructor of the shim).                                           *)
(***************************************************************************)
EXTENDS FiniteSets

Classes == {"A", "B", "C"}
SURFACES == {"palace", "shell_host", "browser", "self_dev", "swarm_spawn"}

Lab == [s \in SURFACES |-> CASE s \in {"palace", "swarm_spawn"} -> "auto_allow"
                             [] s = "browser" -> "always_deny"
                             [] OTHER -> "sandbox_only"]
Worker == [s \in SURFACES |-> CASE s = "palace" -> "auto_allow"
                                [] s \in {"browser", "swarm_spawn"} -> "permission_required"
                                [] OTHER -> "always_deny"]
render_tiers == [c \in Classes |-> IF c = "A" THEN Lab ELSE Worker]
swarm_enabled == [c \in Classes |-> c # "C"]     \* the presets of seat_classes.py

\* jcode's names: the hook knows the surface of four tools, the renderer of three.
Surface == [bash |-> "shell_host", browser |-> "browser", swarm |-> "swarm_spawn", selfdev |-> "self_dev"]
Rendered == {"bash", "browser", "swarm"}
ALLOWED_TOOLS_BASE == {"palace_search", "palace_remember"}
GATED_TOOLS == {"palace_get_closet"}
PalaceTools == ALLOWED_TOOLS_BASE \cup GATED_TOOLS
Tools == DOMAIN Surface \cup PalaceTools \cup {"read", "mcp", "other_mcp_tool"}

\* Mutant: class A is loose whether its jail is enforced or not.
DisabledToolsLoose(s) ==
  LET tier(t) == render_tiers[s.cls][Surface[t]]
  IN  {t \in Rendered : tier(t) \in {"always_deny", "permission_required"}}
        \ {t \in {"swarm"} : swarm_enabled[s.cls] /\ tier(t) = "permission_required"}

\* ConfigRenderer.disabled_tools as assemble calls it, with the hook wired.
DisabledTools(s) ==
  IF s.cls = "A" /\ ~s.jail THEN Rendered
  ELSE LET tier(t) == render_tiers[s.cls][Surface[t]]
       IN  {t \in Rendered : tier(t) \in {"always_deny", "permission_required"}}
             \ {t \in {"swarm"} : swarm_enabled[s.cls] /\ tier(t) = "permission_required"}

\* pre_tool_hook.decide.  assemble returns the seat's hook_env, launch does not set it: on a
\* machine where nobody does, the class is unset, and what has a surface is denied.
HookAllows(s, t, box) ==
  \/ t \in PalaceTools \cup {"read"}
  \/ /\ t \in DOMAIN Surface /\ box.policy
     /\ s.cls = "A" => s.jail
     /\ LET tier == render_tiers[s.cls][Surface[t]]
        IN  \/ tier = "auto_allow"
            \/ tier = "sandbox_only" /\ s.jail
            \/ tier = "permission_required" /\ t = "swarm" /\ swarm_enabled[s.cls]

-----------------------------------------------------------------------------
(* A seat specification: class, jail and closet; whose scope it is; where   *)
(* its model, its signing key and its working directory are.                *)
SeatSpec == [cls : Classes \cup {"unknown"}, jail : BOOLEAN, closet : BOOLEAN,
             scope : {"own", "blank", "reserved"}, complete : BOOLEAN,
             provider : {"anthropic-api", "openrouter", "amazon-bedrock"},
             keyref : {"none", "env", "file", "inline"}, mount : {"workdir", "system"}]
\* The launcher's machine: its variables and its programs.
Box == [key : BOOLEAN, signing : BOOLEAN, keyfile : BOOLEAN, docker : BOOLEAN, jcode : BOOLEAN,
        audit : BOOLEAN,    \* NEOP_AUDIT_DIR is set where the shim runs
        policy : BOOLEAN]   \* NEOP_SEAT_CLASS, NEOP_SWARM_ENABLED, NEOP_JAIL_ENFORCED are, too

\* PalaceShim.__init__ and load_signer.
ShimStarts(s, box) ==
  /\ s.scope = "own" /\ s.complete
  /\ s.keyref # "inline" /\ (s.keyref = "env" => box.signing) /\ (s.keyref = "file" => box.keyfile)
\* build_jail_spec and egress_allowlist; Bedrock has an egress host.
Jailable(s) == s.scope = "own" /\ s.complete /\ s.mount = "workdir"
\* assemble: the class has a preset, the shim starts, render knows the provider, and a
\* jail can be built; anything else raises.
Assembles(s, box) ==
  /\ s.cls \in Classes /\ ShimStarts(s, box)
  /\ s.provider \in {"anthropic-api", "openrouter"} /\ Jailable(s)
Preflight(s, box) ==
  /\ s.scope = "own" /\ s.complete /\ s.cls \in Classes /\ s.keyref # "inline"
  /\ s.provider # "amazon-bedrock" /\ box.key /\ box.docker /\ box.jcode
==============================================================================
