------------------------------ MODULE MCPiAgent ------------------------------
(***************************************************************************)
(* Small instances of PiAgent for TLC.                                     *)
(***************************************************************************)
EXTENDS PiAgent, TLC

T(id, tool, deps) == [task_id |-> id, tool |-> tool, scope |-> "tool", depends_on |-> deps]

\* look (allowed), then two gated mails: the second needs the first and the look.
TwoMails == [plan_id |-> "plan",
             tasks |-> <<T("t1", "look", {}), T("t2", "mail", {"t1"}),
                         T("t3", "mail", {"t1", "t2"})>>]
\* A step without a tool, then a tool that tools.json does not list.
OffList == [plan_id |-> "plan", tasks |-> <<T("t1", "none", {}), T("t2", "rogue", {"t1"})>>]
MCImplicit == [plan_id |-> "implicit", tasks |-> <<T("t1", "mail", {})>>]

MCNames == {"plan", "implicit", "look", "mail", "rogue"}

Ask == [mode |-> "enforce", default_mode |-> "ask", scope_modes |-> [plan |-> "allow"],
        overrides |-> <<"tool", "look">> :> "allow", hard_deny |-> {}]
AskPlan == [Ask EXCEPT !.scope_modes = [tool |-> "allow"]]
Strict == [Ask EXCEPT !.hard_deny = {<<"tool", "mail">>}]
Observe == [Strict EXCEPT !.mode = "report_only"]

SerialBrokers == {Ask, AskPlan}
Tightened == {Ask, Strict, Observe}

\* One planned run that pauses twice.
OnePlans == {TwoMails, OffList}
OneRun == "m1" :> "r1"
OneFamily == "m1" :> "meta"
OneWrites == "m1" :> {"memory", "twin"}

\* Two messages to one reactive NEop of one seat: the default run_id is the same.
SharedRun == "m1" :> "r1" @@ "m2" :> "r1"
BothReactive == "m1" :> "reactive" @@ "m2" :> "reactive"
NoWrites == "m1" :> {} @@ "m2" :> {}
WorkerSymmetry == Permutations(Workers)
=============================================================================
