--------------------------------- MODULE Seat ---------------------------------
(***************************************************************************)
(* One jcode seat: assembled and launched (seat_adapter.py), supervised    *)
(* (supervisor.py), calling tools past its configuration and its hook, and *)
(* calling the palace through its shim (palace_mcp_shim.py) with an audit  *)
(* tap (audit_tap.py) behind it; when a session ends its durable memories  *)
(* are promoted through a second shim (memory_promoter.py).  jcode, Docker *)
(* and the palace are external: a hook may time out or crash, a spawn may  *)
(* raise, a process may die, an answer may be lost.                        *)
(***************************************************************************)
EXTENDS SeatPolicy, Naturals

CONSTANTS
  Specs,         \* specifications the operator assembles
  Boxes,         \* machines
  Items,         \* [id -> what is_promotable reads] of a memory export
  MAX_RESTARTS,  \* 5 in the code
  MaxLaunches, MaxCalls   \* bounds

ASSUME SeatConstants ==
  /\ Specs \subseteq SeatSpec /\ Boxes \subseteq Box /\ IsFiniteSet(DOMAIN Items)
  /\ \A i \in DOMAIN Items : Items[i] \in [active : BOOLEAN, blank : BOOLEAN, sure : BOOLEAN]
  /\ {MAX_RESTARTS, MaxLaunches, MaxCalls} \subseteq Nat

NoSeat == [cls |-> "none"]
NoUse == [seat |-> NoSeat, tool |-> "none", asked |-> FALSE, result |-> "none"]

VARIABLES
  box,                \* the machine the launcher and the jail run on
  asm,                \* the assembled seat's specification
  status, restarts,   \* SeatSupervisor._status
  spawning,           \* start is inside _spawn
  jcode,              \* specification the running container was spawned with
  shim,               \* its shim process answers
  promoting,          \* exported entries the promoter has yet to look at
  dropped, warned,    \* AuditTap.dropped and _AUDIT_DISABLED_WARNED
  \* history
  did,                \* the use of a tool just made, if any: seat, tool, whether the hook answered, result
  events,             \* started events published
  shims,              \* shim processes jcode has started
  attempts,           \* calls made of a shim
  calls, records,     \* calls decided by a shim or performed by the palace; audit records
  failures            \* entries that promotions have reported as failed

lifeVars  == <<asm, status, restarts, spawning, events>>
jcodeVars == <<jcode, shim, shims>>
auditVars == <<dropped, warned, attempts, calls, records>>
promoteVars == <<promoting, failures>>
seatVars == <<box, lifeVars, jcodeVars, auditVars, promoteVars, did>>

SeatInit ==
  /\ box \in Boxes /\ asm = NoSeat /\ jcode = NoSeat
  /\ status = "stopped" /\ restarts = 0 /\ spawning = FALSE /\ shim = FALSE
  /\ promoting = {} /\ dropped = 0 /\ warned = FALSE /\ did = NoUse
  /\ events = 0 /\ shims = 0 /\ attempts = 0 /\ calls = 0 /\ records = 0 /\ failures = 0

-----------------------------------------------------------------------------
(* Launch and supervision.                                                  *)

\* Bound: one assembly.  What does not assemble raises, leaving no more than its rendered files.
Assemble(s) ==
  /\ ~spawning /\ asm = NoSeat /\ Assembles(s, box)
  /\ asm' = s
  /\ UNCHANGED <<box, status, restarts, spawning, events, jcodeVars, auditVars, promoteVars>> /\ did' = NoUse

\* launch: the preflight unless it is skipped, the started event, then start, which marks
\* the seat and enters _spawn.  An event that cannot be published raises: its line may have
\* been written, and the seat is not started.  Nothing asks whether the seat runs already.
Launch(skip) ==
  /\ ~spawning /\ asm # NoSeat /\ events < MaxLaunches
  /\ skip \/ Preflight(asm, box)
  /\ events' = events + 1
  /\ \/ spawning' = TRUE /\ status' = "starting"
     \/ UNCHANGED <<spawning, status>>
  /\ UNCHANGED <<box, asm, restarts, jcodeVars, auditVars, promoteVars>> /\ did' = NoUse

\* _spawn returns, and the container starts its shim from mcp.json (an env: key is passed
\* on by name, a file may be missing inside the jail); or _spawn raises.
Spawned ==
  /\ spawning /\ spawning' = FALSE
  /\ \/ /\ status' = "running" /\ jcode' = asm
        /\ shim' \in IF asm.keyref = "file" THEN BOOLEAN ELSE {ShimStarts(asm, box)}
        /\ shims' = IF shim' THEN shims + 1 ELSE shims
     \/ UNCHANGED <<status, jcodeVars>>
  /\ UNCHANGED <<box, asm, restarts, events, auditVars, promoteVars>> /\ did' = NoUse

\* jcode may start a shim that has ended again.
RestartShim ==
  /\ jcode # NoSeat /\ ~shim /\ ShimStarts(jcode, box)
  /\ shim' = TRUE /\ shims' = shims + 1
  /\ UNCHANGED <<box, lifeVars, jcode, auditVars, promoteVars>> /\ did' = NoUse

RestartAllowed(n) == n + 1 <= MAX_RESTARTS

\* The container dies; note_crash counts it for good, and says whether start may be called
\* again, which needs no launch and publishes no event.
Crash ==
  /\ ~spawning /\ jcode # NoSeat /\ jcode' = NoSeat /\ shim' = FALSE
  /\ restarts' = restarts + 1
  /\ IF RestartAllowed(restarts) THEN status' = "starting" /\ spawning' = TRUE
     ELSE status' = "crashed" /\ UNCHANGED spawning
  /\ UNCHANGED <<box, asm, events, shims, auditVars, promoteVars>> /\ did' = NoUse

\* stop marks the seat before _spawn_stop, which may raise and leave the container alive.
Stop ==
  /\ ~spawning /\ (status # "stopped" \/ jcode # NoSeat)
  /\ status' = "stopped"
  /\ jcode' \in {NoSeat, jcode} /\ shim' = (shim /\ jcode' # NoSeat)
  /\ UNCHANGED <<box, asm, restarts, spawning, events, shims, auditVars, promoteVars>> /\ did' = NoUse

\* A session has ended: jcode's durable memory is exported.
EndSession ==
  /\ asm # NoSeat /\ promoting = {}
  /\ promoting' = DOMAIN Items
  /\ UNCHANGED <<box, lifeVars, jcodeVars, auditVars, failures>> /\ did' = NoUse

-----------------------------------------------------------------------------
(* Tools.                                                                   *)

\* A tool of jcode's own: not disabled, and the hook allows it or fails (fail open).
UseTool(t, answers) ==
  /\ jcode # NoSeat /\ t \in Tools \ (PalaceTools \cup DisabledTools(jcode))
  /\ did' = [seat |-> jcode, tool |-> t, asked |-> answers,
             result |-> IF answers => HookAllows(jcode, t, box) THEN "ok" ELSE "blocked"]
  /\ UNCHANGED <<box, lifeVars, jcodeVars, auditVars, promoteVars>>

Outcomes == {"refused", "ok", "denied", "performed_lost", "lost"}
Raised == {"performed_lost", "lost"}
Performed == {"ok", "performed_lost"}
\* make_shim_writer: 200 with status ok.
WriterOk(out) == out = "ok"

\* AuditTap.emit: kept, or dropped and counted.  The shim jcode starts has its own tap,
\* and without a directory warns once and keeps nothing.
Emit(to) ==
  /\ calls' = calls + 1
  /\ IF to = "nowhere" THEN warned' = TRUE /\ UNCHANGED <<records, dropped>>
     ELSE /\ UNCHANGED warned
          /\ \/ records' = records + 1 /\ UNCHANGED dropped
             \/ dropped' = dropped + 1 /\ UNCHANGED records

BuildRequest(s, t, spoofed) ==
  t \in ALLOWED_TOOLS_BASE \cup (IF s.closet THEN GATED_TOOLS ELSE {}) /\ ~spoofed

\* PalaceShim.call: refused here, answered by the palace, or raised by the transport with
\* or without the palace having performed it, and then not audited.
Call(s, t, spoofed, out, to) ==
  /\ attempts < MaxCalls /\ attempts' = attempts + 1
  /\ \/ out = "refused" /\ ~BuildRequest(s, t, spoofed) /\ Emit(to)
     \/ out \in {"ok", "denied"} /\ BuildRequest(s, t, spoofed) /\ Emit(to)
     \/ /\ out \in Raised /\ BuildRequest(s, t, spoofed)
        /\ calls' = IF out = "performed_lost" THEN calls + 1 ELSE calls
        /\ UNCHANGED <<dropped, warned, records>>

\* Mutant: whatever is raised is answered as a tool error.
LivesOnAnyway(out) == out \in Outcomes

\* handle_message for tools/call: a refusal is a tool error, any other exception leaves
\* run_stdio and ends the process.
LivesOn(out) == out \notin Raised
UsePalace(t, spoofed, out, answers) ==
  /\ jcode # NoSeat /\ shim /\ (answers => HookAllows(jcode, t, box))
  /\ Call(jcode, t, spoofed, out, IF box.audit THEN "file" ELSE "nowhere")
  /\ shim' = LivesOn(out)
  /\ did' = [seat |-> jcode, tool |-> t, asked |-> answers, result |-> out]
  /\ UNCHANGED <<box, lifeVars, jcode, shims, promoteVars>>

\* MemoryPromoter.promote, one entry, through a shim of its own: what is not promotable is
\* skipped, and a writer that raises or is refused counts as failed.
IsPromotable(i) == Items[i].active /\ ~Items[i].blank /\ Items[i].sure
Promote(i, out) ==
  /\ i \in promoting /\ promoting' = promoting \ {i}
  /\ \/ ~IsPromotable(i) /\ out = "refused" /\ UNCHANGED <<auditVars, failures>>
     \/ /\ IsPromotable(i) /\ Call(asm, "palace_remember", FALSE, out, "tap")
        /\ failures' = IF WriterOk(out) THEN failures ELSE failures + 1
  /\ UNCHANGED <<box, lifeVars, jcodeVars>> /\ did' = NoUse

SeatNext ==
  \/ \E s \in Specs : Assemble(s)
  \/ \E skip \in BOOLEAN : Launch(skip)
  \/ Spawned
  \/ RestartShim
  \/ Crash
  \/ Stop
  \/ EndSession
  \/ \E t \in Tools, answers \in BOOLEAN : UseTool(t, answers)
  \/ \E t \in PalaceTools, spoofed, answers \in BOOLEAN, out \in Outcomes :
       UsePalace(t, spoofed, out, answers)
  \/ \E i \in DOMAIN Items, out \in Outcomes : Promote(i, out)

SeatBehavior == SeatInit /\ [][SeatNext]_seatVars

-----------------------------------------------------------------------------
(* Properties. *)

\* The documents' table of what a seat is granted.
Granted(s, t) ==
  \/ t \in ALLOWED_TOOLS_BASE \cup {"read"}
  \/ t = "palace_get_closet" /\ s.closet
  \/ t \in {"bash", "swarm", "selfdev"} /\ s.cls = "A" /\ s.jail
  \/ t = "swarm" /\ s.cls = "B"

\* The tool list and the hook, written apart, agree on the grants: nothing that is granted
\* is blocked unless the hook was not told the seat's class, and nothing else is performed,
\* even when the hook fails and jcode goes on without it.  What the tool list has no name
\* for, the hook alone keeps out.
GrantsHold ==
  LET OnlyTheHook == {"selfdev", "mcp", "other_mcp_tool"}
  IN  /\ did.result = "blocked" =>
           ~Granted(did.seat, did.tool) \/ (~box.policy /\ did.tool \in DOMAIN Surface)
      /\ did.result \in Performed =>
           Granted(did.seat, did.tool) \/ (~did.asked /\ did.tool \in OnlyTheHook)

\* How much the audit can have missed is bounded by what an operator can count: a call that
\* the palace performed and the audit neither recorded nor dropped ended its shim, or was
\* reported as failed by a promotion; or a shim warned that it audits nothing.  So no shim
\* hides two calls, whatever is lost, started again, stopped or promoted in between.
AuditGapBounded ==
  LET ended == IF shim THEN shims - 1 ELSE shims
  IN  warned \/ calls <= records + dropped + ended + failures

\* audit_tap.py:24: with a tap wired in, every palace operation has a record, except for
\* those that were dropped and counted.
AuditCoversEveryCall == box.audit => calls <= records + dropped
==============================================================================
