--------------------------------- MODULE Acp ---------------------------------
(***************************************************************************)
(* Delegation between NEops: the capability registry (acp/capabilities.py),*)
(* signed envelopes (envelope.py), the router that verifies and dispatches *)
(* one envelope (router.py) and the coordinator's chain of delegations     *)
(* (chain.py).  The coordinator runs chain after chain with one router;    *)
(* folders are deployed and removed meanwhile, and the registry is as old  *)
(* as the router.  A run is module PiAgent's.                              *)
(***************************************************************************)
EXTENDS Naturals, Sequences, SequencesExt

CONSTANTS
  Agents,      \* the agents folders in the order of their names
  Publishes,   \* [agents -> the capabilities in their frontmatter, in order]
  IdOf,        \* [agents -> neop_id of the frontmatter]
  Ring,        \* actors with a key pair; the coordinator is one
  Asked,       \* capability lists a chain may be asked for
  MAX_HOPS,    \* 5 in the code
  MaxChains    \* bound: chains per router

AgentSet == {Agents[i] : i \in DOMAIN Agents}
Caps == UNION {{c[i] : i \in DOMAIN c} : c \in Asked}
NoNeop == "none"

ASSUME AcpConstants ==
  /\ Publishes \in [AgentSet -> Seq(STRING)] /\ IdOf \in [AgentSet -> STRING]
  /\ "coordinator" \in Ring /\ Asked \subseteq Seq(STRING) /\ {MAX_HOPS, MaxChains} \subseteq Nat

VARIABLES
  deployed,   \* agents whose folder has a neop.md
  registry,   \* [Caps -> neop_id or NoNeop], read when the router was made
  chain,      \* run_chain: the chain in progress or the last one
  audit,      \* the router's audit list: <<chain number, sender, addressee, hop>>
  \* history
  chains,     \* chains started with this router
  ran         \* NEops dispatched by this chain, in order

acpVars == <<deployed, registry, chain, audit, chains, ran>>

\* First publisher wins.
BuildRegistry(present) ==
  [c \in Caps |->
     LET able == {i \in DOMAIN Agents : Agents[i] \in present /\ c \in Range(Publishes[Agents[i]])}
     IN  IF able = {} THEN NoNeop ELSE IdOf[Agents[CHOOSE i \in able : \A j \in able : i <= j]]]

NoChain == [pc |-> "over", caps |-> <<>>, visited |-> {}, hop |-> 0, status |-> "none"]

AcpInit ==
  /\ deployed = {} /\ registry = BuildRegistry(deployed) /\ chain = NoChain
  /\ audit = <<>> /\ chains = 0 /\ ran = <<>>

-----------------------------------------------------------------------------
\* The delegate envelope of a hop: from the coordinator, signed with its key.
Envelope(c) == [from |-> "coordinator", signer |-> "coordinator", intent |-> "delegate",
                to |-> registry[c.caps[c.hop + 1]], cap |-> c.caps[c.hop + 1], hop |-> c.hop]
INTENTS == {"delegate", "request_input", "redirect", "escalate", "inform", "refuse"}
VerifySignature(env) == env.from \in Ring /\ env.signer = env.from

\* Mutant: cycles are not looked for.
AdmitCycles(env, visited) ==
  IF ~VerifySignature(env) \/ env.intent \notin INTENTS \/ env.hop > MAX_HOPS
     \/ registry[env.cap] = NoNeop \/ registry[env.cap] \notin deployed
  THEN "refuse" ELSE "dispatch"


\* Router.route up to the dispatch: ACP-1 signature and schema, ACP-3 hops, ACP-4
\* capability, ACP-2 cycle, and the folder of the target.
Admit(env, visited) ==
  IF ~VerifySignature(env) \/ env.intent \notin INTENTS \/ env.hop > MAX_HOPS
     \/ registry[env.cap] = NoNeop \/ registry[env.cap] \in visited \/ registry[env.cap] \notin deployed
  THEN "refuse" ELSE "dispatch"

End(status) == chain' = [chain EXCEPT !.pc = "over", !.status = status]

\* A router is made, with a registry of what is deployed now.
StartRouter ==
  /\ chain.pc = "over"
  /\ registry' = BuildRegistry(deployed)
  /\ chain' = NoChain /\ audit' = <<>> /\ chains' = 0 /\ ran' = <<>>
  /\ UNCHANGED deployed

\* run_chain: COC-5, more than one hop needs an explicit intent.
StartChain(caps, explicit) ==
  /\ chain.pc = "over" /\ chains < MaxChains
  /\ chains' = chains + 1 /\ ran' = <<>>
  /\ chain' = IF Len(caps) > 1 /\ ~explicit
              THEN [NoChain EXCEPT !.caps = caps, !.status = "refused"]
              ELSE [NoChain EXCEPT !.caps = caps, !.pc = "hop"]
  /\ UNCHANGED <<deployed, registry, audit>>

\* One turn of the loop: the envelope is built, audited and refused or admitted.
RouteHop ==
  /\ chain.pc = "hop" /\ chain.hop < Len(chain.caps)
  /\ LET env == Envelope(chain)
     IN  /\ audit' = Append(audit, <<chains, env.from, env.to, env.hop>>)
         /\ IF Admit(env, chain.visited) = "refuse"
            THEN End("refused") /\ UNCHANGED ran
            ELSE /\ chain' = [chain EXCEPT !.pc = "run"]
                 /\ ran' = Append(ran, env.to)
  /\ UNCHANGED <<deployed, registry, chains>>

\* The run returns, in whatever state, and the answer is signed by the target: one that
\* has no key ends the chain with an exception although it ran.
Inform ==
  /\ chain.pc = "run"
  /\ LET target == Envelope(chain).to
     IN  IF target \notin Ring THEN End("raised")
         ELSE chain' = [chain EXCEPT !.pc = "hop", !.visited = @ \cup {target}, !.hop = @ + 1]
  /\ UNCHANGED <<deployed, registry, audit, chains, ran>>

\* The run raises, or its folder has gone since it was resolved.
RunRaises ==
  /\ chain.pc = "run"
  /\ End("raised")
  /\ UNCHANGED <<deployed, registry, audit, chains, ran>>

EndChain ==
  /\ chain.pc = "hop" /\ chain.hop = Len(chain.caps)
  /\ End("done")
  /\ UNCHANGED <<deployed, registry, audit, chains, ran>>

Deploy(a) ==
  /\ deployed' = IF a \in deployed THEN deployed \ {a} ELSE deployed \cup {a}
  /\ UNCHANGED <<registry, chain, audit, chains, ran>>

ChainStep == RouteHop \/ Inform \/ RunRaises \/ EndChain

AcpNext ==
  \/ \E caps \in Asked, explicit \in BOOLEAN : StartChain(caps, explicit)
  \/ StartRouter
  \/ ChainStep
  \/ \E a \in AgentSet : Deploy(a)

AcpSpec == AcpInit /\ [][AcpNext]_acpVars

-----------------------------------------------------------------------------
(* Properties. *)

\* What a chain says of itself is what happened: the NEops that ran are the first
\* publishers of a prefix of what was asked, in that order, none of them twice and no more
\* than MAX_HOPS + 1; "done" means all of it, and each run of the chain has its audit
\* entry.  Deployments between the hops and a registry older than they are included.
ChainHonest ==
  /\ Len(ran) <= MAX_HOPS + 1 /\ IsInjective(ran)
  /\ Len(ran) <= Len(chain.caps) /\ \A i \in DOMAIN ran : ran[i] = registry[chain.caps[i]]
  /\ chain.status = "done" => Len(ran) = Len(chain.caps)
  /\ chain.status = "refused" => Len(ran) < Len(chain.caps)
  /\ \A i \in DOMAIN ran : <<chains, "coordinator", ran[i], i - 1>> \in Range(audit)

\* Every chain comes to an end: a chain does not stay open.
ChainOpen == chain.pc # "over"
==============================================================================
