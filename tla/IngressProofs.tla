---------------------------- MODULE IngressProofs ----------------------------
(***************************************************************************)
(* The front door, the delegation chain and the org chart, for any         *)
(* payloads, folders, clocks, agents, capability lists and seats: the rate *)
(* limit is kept (RateKept), a folder that is there all through a search   *)
(* loses to no later one (StandingFolderWins), what a chain says of itself *)
(* is what happened (ChainHonest), and a chart is refused, answered and    *)
(* delegated along as it should be (OrgChartHolds).                        *)
(*                                                                         *)
(* The limit is not inductive: the messages that were let through have to  *)
(* be among those that were counted.  While a folder is looked for, the    *)
(* candidates that were passed over are not among those that stood.        *)
(* A chain's claims rest on the loop of                                    *)
(* run_chain: before hop n exactly n NEops have run, and they are the      *)
(* visited ones, so the router's cycle test keeps the list injective.  The *)
(* validation of a chart numbers the seats of a walk: a walk that ends at  *)
(* the top counts each seat's steps to it, and what is above a seat is that*)
(* many steps lower; a walk that meets a seat again is a circle.  What the *)
(* recursive functions of the chart compute is shown by induction over     *)
(* their domain (UpTo of RunEventsProofs).                                 *)
(***************************************************************************)
EXTENDS FrontDoor, Acp, Hierarchy, RunEventsProofs, FiniteSetTheorems, TLAPS

-----------------------------------------------------------------------------
(* The front door.                                                          *)

\* Of the messages counted in a minute some were let through, and not too many.
LimitInv ==
  /\ minute \in [Keys -> Nat] /\ admitted \in [Keys -> Nat]
  /\ Shared => \A k \in Keys : admitted[k] <= minute[k] /\ admitted[k] <= PerMinute

\* What was tested and passed over has not been there all the while.
Passed(n) == \A i \in 1..3 : i < n /\ Candidates[i] \in Roots =>
               Place(Candidates[i], req.raw.tenant, req.neop) \notin req.stood
SearchInv == req.pc = "resolve" => req.next \in 1..3 /\ req.stood \subseteq installed /\ Passed(req.next)

\* While the model is asked nothing has been tested.
ClassifyInv == req.pc = "classify" => req.next = 1

ReqShape ==
  req.pc # "idle" => req = [pc |-> req.pc, raw |-> req.raw, tries |-> req.tries, neop |-> req.neop,
                            next |-> req.next, stood |-> req.stood]

ReqInv == ReqShape /\ SearchInv /\ ClassifyInv
DoorInv == LimitInv /\ ReqInv /\ StandingFolderWins

LEMMA DoorInit == FrontDoorInit => DoorInv
<1> SUFFICES ASSUME FrontDoorInit PROVE DoorInv OBVIOUS
<1>1. PerMinute \in Nat BY FrontDoorConstants
<1> QED BY <1>1 DEF FrontDoorInit, NoReq, DoorInv, LimitInv, ReqInv, ReqShape, SearchInv, ClassifyInv, StandingFolderWins

\* A message is counted before it is let through.
LEMMA ReceiveInv ==
  ASSUME DoorInv, NEW raw \in Raws, NEW now \in Nows, Receive(raw, now) PROVE DoorInv'
<1> DEFINE k == <<raw.tenant, raw.who, now \div 60>>
           counter == IF Shared THEN minute ELSE [key \in Keys |-> 0]
<1>1. k \in Keys BY DEF Keys
<1>2. ReqInv' /\ StandingFolderWins'
  <2>1. search' = {} /\ installed' = installed BY DEF Receive
  <2>2. \/ req' = NoReq
        \/ \E pc \in {"classify", "resolve"} : \E neop :
             req' = [pc |-> pc, raw |-> raw, tries |-> 0, neop |-> neop, next |-> 1, stood |-> installed]
    BY DEF Receive, Respond
  <2> QED BY <2>1, <2>2 DEF NoReq, ReqInv, ReqShape, SearchInv, ClassifyInv, Passed, StandingFolderWins
<1>3. UNCHANGED <<minute, admitted>> \/
      (/\ minute' = IF Shared THEN [minute EXCEPT ![k] = counter[k] + 1] ELSE minute
       /\ admitted' = admitted \/ (~(counter[k] + 1 > PerMinute) /\ admitted' = [admitted EXCEPT ![k] = @ + 1]))
  BY DEF Receive, CheckRate
<1> HIDE DEF k
<1>4. counter[k] \in Nat /\ PerMinute \in Nat /\ (Shared => counter[k] = minute[k])
  BY <1>1, FrontDoorConstants DEF DoorInv, LimitInv
<1> HIDE DEF counter
<1>5. LimitInv'
  <2>1. CASE UNCHANGED <<minute, admitted>> BY <2>1 DEF DoorInv, LimitInv
  <2>2. CASE Shared /\ ~UNCHANGED <<minute, admitted>>
    <3>1. minute' = [minute EXCEPT ![k] = minute[k] + 1] /\ Shared
      BY <1>3, <1>4, <2>2
    <3>2. admitted' = admitted \/ (minute[k] + 1 <= PerMinute /\ admitted' = [admitted EXCEPT ![k] = @ + 1])
      BY <1>1, <1>3, <1>4, <2>2 DEF DoorInv, LimitInv
    <3>3. minute' \in [Keys -> Nat] /\ admitted' \in [Keys -> Nat]
      BY <1>1, <3>1, <3>2 DEF DoorInv, LimitInv
    <3>4. \A j \in Keys : admitted'[j] <= minute'[j] /\ admitted'[j] <= PerMinute
      BY <1>1, <1>4, <3>1, <3>2 DEF DoorInv, LimitInv
    <3> QED BY <3>3, <3>4 DEF LimitInv
  <2>3. CASE ~Shared /\ ~UNCHANGED <<minute, admitted>>
    <3>1. minute' = minute /\ admitted' \in [Keys -> Nat]
      BY <1>1, <1>3, <2>3 DEF DoorInv, LimitInv
    <3>2. ~Shared' BY <2>3
    <3> QED BY <3>1, <3>2 DEF DoorInv, LimitInv
  <2> QED BY <2>1, <2>2, <2>3, FrontDoorConstants
<1> QED BY <1>2, <1>5 DEF DoorInv

\* Beyond the last candidate, and before each, only earlier ones override.
LEMMA CandidateOrder ==
  /\ Len(Candidates) = 3
  /\ \A root \in {"tenant", "builtin", "operator"} : \E i \in 1..3 : Candidates[i] = root
  /\ \A i, n \in 1..3 : Overrides(Candidates[i], Candidates[n]) => i < n
<1>1. Candidates = <<"tenant", "builtin", "operator">> BY DEF Candidates
<1>2. Candidates[1] = "tenant" /\ Candidates[2] = "builtin" /\ Candidates[3] = "operator" /\ Len(Candidates) = 3
  BY <1>1
<1>3. \A i \in 1..3 : i = 1 \/ i = 2 \/ i = 3 OBVIOUS
<1> QED BY <1>2, <1>3 DEF Overrides

\* A candidate that is not there has not stood, and one that is found overrides the rest.
LEMMA DecideInv ==
  ASSUME SearchInv, req.pc = "resolve", NEW root, Decide(root),
         IF root = "none" THEN req.next = 3 /\ ~Found ELSE root = Candidates[req.next]
  PROVE  StandingFolderWins'
<1> SUFFICES ASSUME NEW r \in Roots, Overrides(r, root)
             PROVE  Place(r, req.raw.tenant, req.neop) \notin req.stood
  BY DEF Decide, StandingFolderWins
<1>1. PICK i \in 1..3 : Candidates[i] = r BY FrontDoorConstants, CandidateOrder
<1>2. req.next \in 1..3 /\ req.stood \subseteq installed /\ Passed(req.next) BY DEF SearchInv
<1>3. CASE i < req.next BY <1>1, <1>2, <1>3 DEF Passed
<1>4. CASE ~(i < req.next)
  <2>1. root = "none" BY <1>1, <1>2, <1>4, CandidateOrder
  <2>2. i = 3 /\ req.next = 3 /\ ~Found BY <1>2, <1>4, <2>1
  <2> QED BY <1>1, <1>2, <2>2 DEF Found
<1> QED BY <1>3, <1>4

LEMMA TestFolderInv == ASSUME DoorInv, TestFolder PROVE DoorInv'
<1>1. LimitInv' BY DEF DoorInv, LimitInv, TestFolder
<1>2. /\ SearchInv /\ req.pc = "resolve" /\ req.next \in 1..3 /\ req.stood \subseteq installed /\ Passed(req.next)
      /\ req = [pc |-> req.pc, raw |-> req.raw, tries |-> req.tries, neop |-> req.neop, next |-> req.next,
                stood |-> req.stood]
  BY DEF DoorInv, ReqInv, ReqShape, SearchInv, TestFolder
<1>3. Len(Candidates) = 3 BY CandidateOrder
<1>4. CASE Found
  <2>1. Decide(Candidates[req.next]) /\ req' = [req EXCEPT !.pc = "start"] BY <1>4 DEF TestFolder
  <2>2. Candidates[req.next] # "none" BY <1>4, FrontDoorConstants DEF Found
  <2>3. StandingFolderWins' BY <1>2, <2>1, <2>2, DecideInv
  <2>4. ReqInv' BY <1>2, <2>1 DEF ReqInv, ReqShape, SearchInv, ClassifyInv
  <2> QED BY <1>1, <2>3, <2>4 DEF DoorInv
<1>5. CASE ~Found /\ req.next < 3
  <2>1. req' = [req EXCEPT !.next = @ + 1] /\ UNCHANGED <<installed, search>> BY <1>3, <1>5 DEF TestFolder
  <2>2. /\ req'.pc = req.pc /\ req'.raw = req.raw /\ req'.neop = req.neop /\ req'.stood = req.stood
        /\ req'.next = req.next + 1 /\ ReqShape'
    BY <1>2, <2>1 DEF ReqShape
  <2>3. ASSUME NEW i \in 1..3, i < req.next + 1, Candidates[i] \in Roots
        PROVE  Place(Candidates[i], req.raw.tenant, req.neop) \notin req.stood
    <3>1. CASE i < req.next BY <1>2, <2>3, <3>1 DEF Passed
    <3>2. CASE i = req.next BY <1>2, <1>5, <2>3, <3>2 DEF Found
    <3> QED BY <1>2, <2>3, <3>1, <3>2
  <2>4. ReqInv' BY <1>2, <1>5, <2>1, <2>2, <2>3 DEF ReqInv, SearchInv, ClassifyInv, Passed
  <2> QED BY <1>1, <2>1, <2>4 DEF DoorInv, StandingFolderWins
<1>6. CASE ~Found /\ ~(req.next < 3)
  <2>1. Decide("none") /\ req' = NoReq BY <1>3, <1>6 DEF TestFolder, Respond
  <2>2. StandingFolderWins' BY <1>2, <1>6, <2>1, DecideInv
  <2>3. ReqInv' BY <2>1 DEF ReqInv, ReqShape, SearchInv, ClassifyInv, NoReq
  <2> QED BY <1>1, <2>2, <2>3 DEF DoorInv
<1> QED BY <1>4, <1>5, <1>6

\* The other steps neither count, nor let through, nor decide.
LEMMA DoorQuiet ==
  ASSUME DoorInv, UNCHANGED <<minute, admitted, search>>, ReqInv' PROVE DoorInv'
BY DEF DoorInv, LimitInv, StandingFolderWins

LEMMA AnswerQuiet == ASSUME req' = NoReq PROVE ReqInv'
BY DEF NoReq, ReqInv, ReqShape, SearchInv, ClassifyInv

\* The model's answer begins the search.
LEMMA ClassifiedInv == ASSUME DoorInv, NEW v \in Verdicts, Classified(v) PROVE DoorInv'
<1>1. /\ req.next = 1 /\ UNCHANGED <<minute, admitted, search, installed>>
      /\ req = [pc |-> req.pc, raw |-> req.raw, tries |-> req.tries, neop |-> req.neop, next |-> req.next,
                stood |-> req.stood]
  BY DEF DoorInv, ReqInv, ReqShape, ClassifyInv, Classified
<1>2. CASE req' = NoReq BY <1>1, <1>2, AnswerQuiet, DoorQuiet
<1>3. ASSUME NEW neop, req' = [req EXCEPT !.pc = "resolve", !.neop = neop, !.stood = installed] PROVE DoorInv'
  <2>1. req'.pc = "resolve" /\ req'.next = 1 /\ req'.stood = installed' /\ ReqShape'
    BY <1>1, <1>3 DEF ReqShape
  <2>2. ReqInv' BY <2>1 DEF ReqInv, SearchInv, ClassifyInv, Passed
  <2> QED BY <1>1, <2>2, DoorQuiet
<1> QED BY <1>2, <1>3 DEF Classified, Respond

\* The model is asked again, the run starts or is over.
LEMMA OnwardInv ==
  ASSUME DoorInv, Overloaded \/ ClassifierFails \/ Start \/ \E raised \in BOOLEAN : RunReturns(raised)
  PROVE  DoorInv'
<1>1. UNCHANGED <<minute, admitted, search>> BY DEF Overloaded, ClassifierFails, Start, RunReturns
<1>2. CASE req' = NoReq BY <1>1, <1>2, AnswerQuiet, DoorQuiet
<1>3. CASE req' # NoReq
  <2>1. \/ req' = [req EXCEPT !.tries = @ + 1] /\ req.pc = "classify"
        \/ req' = [req EXCEPT !.pc = "run"] /\ req.pc = "start"
    BY <1>3 DEF Overloaded, ClassifierFails, Start, RunReturns, Respond
  <2>2. req = [pc |-> req.pc, raw |-> req.raw, tries |-> req.tries, neop |-> req.neop, next |-> req.next,
               stood |-> req.stood]
    BY <2>1 DEF DoorInv, ReqInv, ReqShape
  <2>3. ReqInv' BY <2>1, <2>2 DEF DoorInv, ReqInv, ReqShape, SearchInv, ClassifyInv
  <2> QED BY <1>1, <2>3, DoorQuiet
<1> QED BY <1>2, <1>3

\* A folder that changes has not stood.
LEMMA ChangeFolderInv == ASSUME DoorInv, NEW f \in Folders, ChangeFolder(f) PROVE DoorInv'
<1>1. UNCHANGED <<minute, admitted, search>> BY DEF ChangeFolder
<1>2. CASE req.pc # "resolve"
  <2>1. req' = req BY <1>2 DEF ChangeFolder
  <2>2. ReqInv' BY <1>2, <2>1 DEF DoorInv, ReqInv, ReqShape, SearchInv, ClassifyInv
  <2> QED BY <1>1, <2>2, DoorQuiet
<1>3. CASE req.pc = "resolve"
  <2>1. /\ req' = [req EXCEPT !.stood = @ \ {f}] /\ installed \ {f} \subseteq installed'
        /\ req = [pc |-> req.pc, raw |-> req.raw, tries |-> req.tries, neop |-> req.neop, next |-> req.next,
                  stood |-> req.stood]
        /\ req.next \in 1..3 /\ req.stood \subseteq installed /\ Passed(req.next)
    BY <1>3 DEF ChangeFolder, DoorInv, ReqInv, ReqShape, SearchInv
  <2>2. /\ req'.pc = "resolve" /\ req'.raw = req.raw /\ req'.neop = req.neop /\ req'.stood = req.stood \ {f}
        /\ req'.next = req.next /\ ReqShape'
    BY <1>3, <2>1 DEF ReqShape
  <2>3. Passed(req.next)' BY <2>1, <2>2 DEF Passed
  <2>4. ReqInv' BY <2>1, <2>2, <2>3 DEF ReqInv, SearchInv, ClassifyInv
  <2> QED BY <1>1, <2>4, DoorQuiet
<1> QED BY <1>2, <1>3

LEMMA DoorStep == DoorInv /\ [FrontDoorNext]_doorVars => DoorInv'
<1> SUFFICES ASSUME DoorInv, [FrontDoorNext]_doorVars PROVE DoorInv' OBVIOUS
<1>1. ASSUME NEW raw \in Raws, NEW now \in Nows, Receive(raw, now) PROVE DoorInv'
  BY <1>1, ReceiveInv
<1>2. CASE TestFolder BY <1>2, TestFolderInv
<1>3. ASSUME NEW v \in Verdicts, Classified(v) PROVE DoorInv' BY <1>3, ClassifiedInv
<1>4. CASE Overloaded \/ ClassifierFails \/ Start \/ \E raised \in BOOLEAN : RunReturns(raised)
  BY <1>4, OnwardInv
<1>5. ASSUME NEW f \in Folders, ChangeFolder(f) PROVE DoorInv' BY <1>5, ChangeFolderInv
<1>6. CASE UNCHANGED doorVars
  <2>1. ReqInv' BY <1>6 DEF doorVars, DoorInv, ReqInv, ReqShape, SearchInv, ClassifyInv, Passed
  <2> QED BY <1>6, <2>1, DoorQuiet DEF doorVars
<1> QED BY <1>1, <1>2, <1>3, <1>4, <1>5, <1>6 DEF FrontDoorNext, HandleStep

LEMMA DoorInvariance == FrontDoorSpec => []DoorInv
BY DoorInit, DoorStep, PTL DEF FrontDoorSpec

\* GW-3 (RateLimiter.check): with one limiter, no more messages of one human in one minute
\* than the limit go on to the classifier, for any limit, payloads and clocks.
THEOREM RateAlwaysKept == FrontDoorSpec => []RateKept
<1>1. DoorInv => RateKept BY DEF DoorInv, LimitInv, RateKept
<1> QED BY <1>1, DoorInvariance, PTL

\* loader.resolve: however folders come and go between its tests, wherever the joined paths
\* lead and whichever roots are given, no candidate that was there all through a search loses
\* to a later one or to "not found".
THEOREM StandingFolderAlwaysWins == FrontDoorSpec => []StandingFolderWins
<1>1. DoorInv => StandingFolderWins BY DEF DoorInv
<1> QED BY <1>1, DoorInvariance, PTL

-----------------------------------------------------------------------------
(* The chain.                                                               *)

\* What the registry of this router can answer, and what the router writes down.
Targets == {registry[c] : c \in Caps}
Entry == Nat \X {"coordinator"} \X Targets \X Nat

ChainTyped ==
  /\ chain = [pc |-> chain.pc, caps |-> chain.caps, visited |-> chain.visited, hop |-> chain.hop,
              status |-> chain.status]
  /\ chain.pc \in {"over", "hop", "run"} /\ chain.caps \in Asked \cup {<<>>} /\ chain.hop \in Nat
  /\ chains \in Nat /\ ran \in Seq(Targets) /\ audit \in Seq(Entry)

\* The loop of run_chain: before hop n, n NEops have run; while one runs, it is the last.
LoopInv ==
  chain.pc # "over" =>
    /\ chain.status = "none" /\ chain.hop <= Len(chain.caps)
    /\ chain.visited = {ran[i] : i \in 1..chain.hop}
    /\ IF chain.pc = "hop" THEN Len(ran) = chain.hop
       ELSE Len(ran) = chain.hop + 1 /\ chain.hop < Len(chain.caps)

ChainInv == ChainTyped /\ LoopInv /\ ChainHonest

\* The parts of the claim that no hop changes.
RanInv ==
  /\ Len(ran) <= MAX_HOPS + 1 /\ Len(ran) <= Len(chain.caps)
  /\ \A i, j \in 1..Len(ran) : ran[i] = ran[j] => i = j
  /\ \A i \in 1..Len(ran) : /\ ran[i] = registry[chain.caps[i]]
                            /\ \E n \in 1..Len(audit) : audit[n] = <<chains, "coordinator", ran[i], i - 1>>
StatusInv ==
  /\ chain.status = "done" => Len(ran) = Len(chain.caps)
  /\ chain.status = "refused" => Len(ran) < Len(chain.caps)

LEMMA HonestParts == ChainTyped => (ChainHonest <=> RanInv /\ StatusInv)
<1> SUFFICES ASSUME ChainTyped PROVE ChainHonest <=> RanInv /\ StatusInv OBVIOUS
<1>1. DOMAIN ran = 1..Len(ran) /\ DOMAIN audit = 1..Len(audit) BY DEF ChainTyped
<1>2. IsInjective(ran) <=> \A i, j \in 1..Len(ran) : ran[i] = ran[j] => i = j
  BY <1>1 DEF IsInjective
<1>3. \A x : x \in Range(audit) <=> \E n \in 1..Len(audit) : audit[n] = x
  BY <1>1 DEF Range
<1> QED BY <1>1, <1>2, <1>3 DEF ChainHonest, RanInv, StatusInv

LEMMA HonestAfter == ASSUME ChainTyped', LoopInv', RanInv', StatusInv' PROVE ChainInv'
<1>1. (ChainTyped => (ChainHonest <=> RanInv /\ StatusInv))' BY HonestParts, PTL
<1> QED BY <1>1 DEF ChainInv

LEMMA CapsTyped ==
  ASSUME ChainTyped
  PROVE  /\ chain.caps \in Seq(STRING) /\ Len(chain.caps) \in Nat /\ Len(ran) \in Nat
         /\ \A i \in 1..Len(chain.caps) : registry[chain.caps[i]] \in Targets
<1>1. chain.caps \in Seq(STRING) /\ Len(chain.caps) \in Nat /\ Len(ran) \in Nat
  <2>1. chain.caps \in Asked => chain.caps \in Seq(STRING) BY AcpConstants
  <2>2. <<>> \in Seq(STRING) OBVIOUS
  <2>3. chain.caps \in Seq(STRING) BY <2>1, <2>2 DEF ChainTyped
  <2>4. ran \in Seq(Targets) BY DEF ChainTyped
  <2> QED BY <2>3, <2>4
<1>2. \A i \in 1..Len(chain.caps) : chain.caps[i] \in Caps
  <2>1. CASE chain.caps = <<>> BY <2>1
  <2>2. CASE chain.caps \in Asked
    <3>1. DOMAIN chain.caps = 1..Len(chain.caps) BY <1>1
    <3>2. \A i \in 1..Len(chain.caps) : chain.caps[i] \in {chain.caps[j] : j \in DOMAIN chain.caps}
      BY <3>1
    <3>3. {chain.caps[j] : j \in DOMAIN chain.caps} \in {{c[j] : j \in DOMAIN c} : c \in Asked}
      BY <2>2
    <3> QED BY <3>2, <3>3 DEF Caps
  <2> QED BY <2>1, <2>2 DEF ChainTyped
<1> QED BY <1>1, <1>2 DEF Targets

LEMMA EmptyChain ==
  ASSUME ran' = <<>>, chains' \in Nat, audit' \in Seq(Entry)', chain' = [NoChain EXCEPT !.caps = chain'.caps,
         !.pc = chain'.pc, !.status = chain'.status], chain'.pc \in {"over", "hop"},
         chain'.caps \in Asked \cup {<<>>},
         chain'.status = "none" \/ (chain'.status = "refused" /\ Len(chain'.caps) > 1 /\ chain'.pc = "over")
  PROVE  ChainInv'
<1>1. /\ chain'.hop = 0 /\ chain'.visited = {}
      /\ chain' = [pc |-> chain'.pc, caps |-> chain'.caps, visited |-> chain'.visited, hop |-> chain'.hop,
                   status |-> chain'.status]
  BY DEF NoChain
<1>2. ran' \in Seq(Targets') /\ Len(ran') = 0 OBVIOUS
<1>3. ChainTyped' BY <1>1, <1>2 DEF ChainTyped
<1>4. Len(chain'.caps) \in Nat /\ MAX_HOPS \in Nat BY <1>3, AcpConstants DEF ChainTyped
<1>5. LoopInv' BY <1>1, <1>2, <1>4 DEF LoopInv
<1>6. RanInv' /\ StatusInv' BY <1>1, <1>2, <1>4 DEF RanInv, StatusInv
<1> QED BY <1>3, <1>5, <1>6, HonestAfter

LEMMA AcpInitInv == AcpInit => ChainInv
<1> SUFFICES ASSUME AcpInit PROVE ChainInv OBVIOUS
<1>1. /\ chain.pc = "over" /\ chain.caps = <<>> /\ chain.hop = 0 /\ chain.visited = {} /\ chain.status = "none"
      /\ Len(ran) = 0 /\ ran \in Seq(Targets) /\ audit \in Seq(Entry)
  BY DEF AcpInit, NoChain
<1>2. ChainTyped BY <1>1 DEF ChainTyped, AcpInit, NoChain
<1>3. RanInv /\ StatusInv /\ LoopInv BY <1>1, AcpConstants DEF RanInv, StatusInv, LoopInv
<1> QED BY <1>2, <1>3, HonestParts DEF ChainInv

LEMMA StartRouterInv == ASSUME ChainInv, StartRouter PROVE ChainInv'
<1>1. chain' = NoChain /\ audit' = <<>> /\ chains' = 0 /\ ran' = <<>> BY DEF StartRouter
<1>2. audit' \in Seq(Entry)' /\ chains' \in Nat BY <1>1
<1>3. chain'.caps = <<>> /\ chain'.pc = "over" /\ chain'.status = "none" BY <1>1 DEF NoChain
<1>4. chain' = [NoChain EXCEPT !.caps = chain'.caps, !.pc = chain'.pc, !.status = chain'.status]
  BY <1>1, <1>3 DEF NoChain
<1> QED BY <1>1, <1>2, <1>3, <1>4, EmptyChain

LEMMA StartChainInv ==
  ASSUME ChainInv, NEW caps \in Asked, NEW explicit \in BOOLEAN, StartChain(caps, explicit) PROVE ChainInv'
<1>1. /\ chains' \in Nat /\ ran' = <<>> /\ UNCHANGED <<registry, audit>>
  BY DEF StartChain, ChainInv, ChainTyped
<1>2. audit' \in Seq(Entry)' BY <1>1 DEF ChainInv, ChainTyped, Entry, Targets
<1>3. CASE Len(caps) > 1 /\ ~explicit
  <2>1. chain' = [NoChain EXCEPT !.caps = caps, !.status = "refused"] BY <1>3 DEF StartChain
  <2>2. chain'.caps = caps /\ chain'.pc = "over" /\ chain'.status = "refused" BY <2>1 DEF NoChain
  <2>3. chain' = [NoChain EXCEPT !.caps = chain'.caps, !.pc = chain'.pc, !.status = chain'.status]
    BY <2>1, <2>2 DEF NoChain
  <2> QED BY <1>1, <1>2, <1>3, <2>2, <2>3, EmptyChain
<1>4. CASE ~(Len(caps) > 1 /\ ~explicit)
  <2>1. chain' = [NoChain EXCEPT !.caps = caps, !.pc = "hop"] BY <1>4 DEF StartChain
  <2>2. chain'.caps = caps /\ chain'.pc = "hop" /\ chain'.status = "none" BY <2>1 DEF NoChain
  <2>3. chain' = [NoChain EXCEPT !.caps = chain'.caps, !.pc = chain'.pc, !.status = chain'.status]
    BY <2>1, <2>2 DEF NoChain
  <2> QED BY <1>1, <1>2, <2>2, <2>3, EmptyChain
<1> QED BY <1>3, <1>4

\* The chain ends: with what has run, in whatever status is true of that.
LEMMA EndInv ==
  ASSUME ChainInv, NEW status, End(status), UNCHANGED <<registry, chains, ran>>,
         audit' \in Seq(Entry), \A n \in 1..Len(audit) : n \in 1..Len(audit') /\ audit'[n] = audit[n],
         status = "done" => Len(ran) = Len(chain.caps), status = "refused" => Len(ran) < Len(chain.caps)
  PROVE  ChainInv'
<1>1. /\ chain'.pc = "over" /\ chain'.status = status /\ chain'.caps = chain.caps
      /\ chain'.visited = chain.visited /\ chain'.hop = chain.hop
      /\ chain' = [pc |-> chain'.pc, caps |-> chain'.caps, visited |-> chain'.visited, hop |-> chain'.hop,
                   status |-> chain'.status]
  BY DEF ChainInv, ChainTyped, End
<1>2. ChainTyped' BY <1>1 DEF ChainInv, ChainTyped, Entry, Targets
<1>3. LoopInv' BY <1>1 DEF LoopInv
<1>4. StatusInv' BY <1>1 DEF StatusInv
<1>5. RanInv BY HonestParts DEF ChainInv
<1>6. RanInv'
  <2>1. ASSUME NEW i \in 1..Len(ran)
        PROVE  \E n \in 1..Len(audit') : audit'[n] = <<chains, "coordinator", ran[i], i - 1>>
    <3>1. PICK n \in 1..Len(audit) : audit[n] = <<chains, "coordinator", ran[i], i - 1>>
      BY <1>5 DEF RanInv
    <3>2. n \in 1..Len(audit') /\ audit'[n] = <<chains, "coordinator", ran[i], i - 1>> BY <3>1
    <3> QED BY <3>2
  <2> QED BY <1>1, <1>5, <2>1 DEF RanInv
<1> QED BY <1>2, <1>3, <1>4, <1>6, HonestAfter

\* One hop: audited, and if it is admitted the target has not run before.
LEMMA RouteHopInv == ASSUME ChainInv, RouteHop PROVE ChainInv'
<1> DEFINE env == Envelope(chain)
           entry == <<chains, env.from, env.to, env.hop>>
<1>1. /\ chain.pc = "hop" /\ chain.hop < Len(chain.caps) /\ UNCHANGED <<registry, chains>>
      /\ audit' = Append(audit, entry)
  BY DEF RouteHop
<1>2. /\ env.from = "coordinator" /\ env.to = registry[chain.caps[chain.hop + 1]] /\ env.hop = chain.hop
      /\ registry[env.cap] = env.to
  BY DEF Envelope
<1>3. /\ chain.hop \in Nat /\ Len(chain.caps) \in Nat /\ Len(ran) = chain.hop
      /\ chain.visited = {ran[i] : i \in 1..chain.hop} /\ chain.status = "none"
  BY <1>1, CapsTyped DEF ChainInv, ChainTyped, LoopInv
<1>4. env.to \in Targets
  <2>1. chain.hop + 1 \in 1..Len(chain.caps) BY <1>1, <1>3
  <2>2. \A i \in 1..Len(chain.caps) : registry[chain.caps[i]] \in Targets BY CapsTyped DEF ChainInv
  <2> QED BY <1>2, <2>1, <2>2
<1>5. entry \in Entry BY <1>2, <1>3, <1>4 DEF Entry, ChainInv, ChainTyped
<1>6. /\ audit' \in Seq(Entry) /\ audit'[Len(audit')] = entry /\ Len(audit') \in 1..Len(audit')
      /\ \A n \in 1..Len(audit) : n \in 1..Len(audit') /\ audit'[n] = audit[n]
  BY <1>1, <1>5 DEF ChainInv, ChainTyped
<1> HIDE DEF entry
<1>7. CASE Admit(env, chain.visited) = "refuse"
  <2>1. End("refused") /\ ran' = ran BY <1>7 DEF RouteHop
  <2> QED BY <1>1, <1>3, <1>6, <2>1, EndInv
<1>8. CASE Admit(env, chain.visited) # "refuse"
  <2>1. /\ chain' = [chain EXCEPT !.pc = "run"] /\ ran' = Append(ran, env.to)
    BY <1>8 DEF RouteHop
  <2>2. env.hop <= MAX_HOPS /\ env.to \notin chain.visited
    <3>1. ~(env.hop > MAX_HOPS) /\ registry[env.cap] \notin chain.visited BY <1>8 DEF Admit
    <3> QED BY <1>2, <1>3, <3>1, AcpConstants
  <2>3. entry = <<chains, "coordinator", env.to, chain.hop>> BY <1>2 DEF entry
  <2> HIDE DEF env
  <2>4. /\ chain'.pc = "run" /\ chain'.status = "none" /\ chain'.caps = chain.caps
        /\ chain'.visited = chain.visited /\ chain'.hop = chain.hop
        /\ chain' = [pc |-> chain'.pc, caps |-> chain'.caps, visited |-> chain'.visited, hop |-> chain'.hop,
                     status |-> chain'.status]
    BY <1>3, <2>1 DEF ChainInv, ChainTyped
  <2>5. /\ ran' \in Seq(Targets) /\ Len(ran') = chain.hop + 1 /\ ran'[chain.hop + 1] = env.to
        /\ \A i \in 1..chain.hop : ran'[i] = ran[i]
    BY <1>3, <1>4, <2>1 DEF ChainInv, ChainTyped
  <2>6. ChainTyped' BY <1>1, <1>6, <2>4, <2>5 DEF ChainInv, ChainTyped, Targets, Entry
  <2>7. LoopInv' BY <1>1, <1>3, <2>4, <2>5 DEF LoopInv
  <2>8. StatusInv' BY <2>4 DEF StatusInv
  <2>9. RanInv'
    <3>1. RanInv BY HonestParts DEF ChainInv
    <3>2. Len(ran') <= MAX_HOPS + 1 /\ Len(ran') <= Len(chain'.caps)
      BY <1>1, <1>2, <1>3, <2>2, <2>4, <2>5, AcpConstants
    <3>3. \A i, j \in 1..Len(ran') : ran'[i] = ran'[j] => i = j
      <4>1. \A i \in 1..chain.hop : ran'[i] # ran'[chain.hop + 1]
        BY <1>3, <2>2, <2>5
      <4>2. \A i, j \in 1..chain.hop : ran'[i] = ran'[j] => i = j
        <5>1. \A i, j \in 1..Len(ran) : ran[i] = ran[j] => i = j BY <3>1 DEF RanInv
        <5> QED BY <1>3, <2>5, <5>1
      <4>3. \A i \in 1..Len(ran') : i \in 1..chain.hop \/ i = chain.hop + 1
        BY <1>3, <2>5
      <4> QED BY <4>1, <4>2, <4>3
    <3>4. ASSUME NEW i \in 1..Len(ran')
          PROVE  /\ ran'[i] = registry'[chain'.caps[i]]
                 /\ \E n \in 1..Len(audit') : audit'[n] = <<chains', "coordinator", ran'[i], i - 1>>
      <4>1. CASE i = chain.hop + 1
        <5>1. i - 1 = chain.hop /\ ran'[i] = env.to BY <1>3, <2>5, <4>1
        <5>2. audit'[Len(audit')] = <<chains', "coordinator", ran'[i], i - 1>>
          BY <1>1, <1>6, <2>3, <5>1
        <5>3. ran'[i] = registry'[chain'.caps[i]] BY <1>1, <1>2, <2>4, <4>1, <5>1
        <5> QED BY <1>6, <5>2, <5>3
      <4>2. CASE i \in 1..chain.hop
        <5>1. i \in 1..Len(ran) /\ ran'[i] = ran[i] BY <1>3, <2>5, <4>2
        <5>2. PICK n \in 1..Len(audit) : audit[n] = <<chains, "coordinator", ran[i], i - 1>>
          BY <3>1, <5>1 DEF RanInv
        <5>3. n \in 1..Len(audit') /\ audit'[n] = <<chains', "coordinator", ran'[i], i - 1>>
          BY <1>1, <1>6, <5>1, <5>2
        <5>4. ran'[i] = registry'[chain'.caps[i]] BY <1>1, <2>4, <3>1, <5>1 DEF RanInv
        <5> QED BY <5>3, <5>4
      <4> QED BY <1>3, <2>5, <4>1, <4>2
    <3> QED BY <3>2, <3>3, <3>4 DEF RanInv
  <2> QED BY <2>6, <2>7, <2>8, <2>9, HonestAfter
<1> QED BY <1>7, <1>8

\* The target answers and is visited from now on; or it has no key, and the chain is over.
LEMMA InformInv == ASSUME ChainInv, Inform PROVE ChainInv'
<1> DEFINE target == Envelope(chain).to
<1>1. chain.pc = "run" /\ UNCHANGED <<registry, audit, chains, ran>> BY DEF Inform
<1>2. audit' \in Seq(Entry) /\ \A n \in 1..Len(audit) : n \in 1..Len(audit') /\ audit'[n] = audit[n]
  BY <1>1 DEF ChainInv, ChainTyped
<1>3. RanInv BY HonestParts DEF ChainInv
<1>4. /\ chain.hop \in Nat /\ Len(ran) = chain.hop + 1 /\ chain.hop < Len(chain.caps) /\ Len(chain.caps) \in Nat
      /\ chain.visited = {ran[i] : i \in 1..chain.hop} /\ chain.status = "none"
  BY <1>1, CapsTyped DEF ChainInv, ChainTyped, LoopInv
<1>5. target = ran[chain.hop + 1] BY <1>3, <1>4 DEF Envelope, RanInv
<1>6. CASE target \notin Ring
  <2>1. End("raised") BY <1>6 DEF Inform
  <2> QED BY <1>1, <1>2, <2>1, EndInv
<1>7. CASE target \in Ring
  <2>1. chain' = [chain EXCEPT !.pc = "hop", !.visited = @ \cup {target}, !.hop = @ + 1]
    BY <1>7 DEF Inform
  <2> HIDE DEF target
  <2>2. /\ chain'.pc = "hop" /\ chain'.status = "none" /\ chain'.caps = chain.caps
        /\ chain'.visited = chain.visited \cup {target} /\ chain'.hop = chain.hop + 1
        /\ chain' = [pc |-> chain'.pc, caps |-> chain'.caps, visited |-> chain'.visited, hop |-> chain'.hop,
                     status |-> chain'.status]
    BY <1>4, <2>1 DEF ChainInv, ChainTyped
  <2>3. ChainTyped' BY <1>1, <1>4, <2>2 DEF ChainInv, ChainTyped, Targets, Entry
  <2>4. chain'.visited = {ran'[i] : i \in 1..chain'.hop} BY <1>1, <1>4, <1>5, <2>2
  <2>5. LoopInv'
    <3>1. chain'.hop <= Len(chain'.caps) /\ Len(ran') = chain'.hop BY <1>1, <1>4, <2>2
    <3> QED BY <2>2, <2>4, <3>1 DEF LoopInv
  <2>6. RanInv' /\ StatusInv' BY <1>1, <1>3, <2>2 DEF RanInv, StatusInv
  <2> QED BY <2>3, <2>5, <2>6, HonestAfter
<1> QED BY <1>6, <1>7

LEMMA RunRaisesInv == ASSUME ChainInv, RunRaises PROVE ChainInv'
<1>1. End("raised") /\ UNCHANGED <<registry, audit, chains, ran>> BY DEF RunRaises
<1>2. audit' \in Seq(Entry) /\ \A n \in 1..Len(audit) : n \in 1..Len(audit') /\ audit'[n] = audit[n]
  BY <1>1 DEF ChainInv, ChainTyped
<1> QED BY <1>1, <1>2, EndInv

LEMMA EndChainInv == ASSUME ChainInv, EndChain PROVE ChainInv'
<1>1. End("done") /\ UNCHANGED <<registry, audit, chains, ran>> BY DEF EndChain
<1>2. audit' \in Seq(Entry) /\ \A n \in 1..Len(audit) : n \in 1..Len(audit') /\ audit'[n] = audit[n]
  BY <1>1 DEF ChainInv, ChainTyped
<1>3. Len(ran) = Len(chain.caps) BY DEF EndChain, ChainInv, LoopInv
<1> QED BY <1>1, <1>2, <1>3, EndInv

\* Deployments change neither the registry of the router nor the chain.
LEMMA ChainQuiet == ASSUME ChainInv, UNCHANGED <<registry, chain, audit, chains, ran>> PROVE ChainInv'
BY DEF ChainInv, ChainTyped, LoopInv, ChainHonest, Targets, Entry

LEMMA ChainStepInv == ChainInv /\ [AcpNext]_acpVars => ChainInv'
<1> SUFFICES ASSUME ChainInv, [AcpNext]_acpVars PROVE ChainInv' OBVIOUS
<1>1. ASSUME NEW caps \in Asked, NEW explicit \in BOOLEAN, StartChain(caps, explicit) PROVE ChainInv'
  BY <1>1, StartChainInv
<1>2. CASE StartRouter BY <1>2, StartRouterInv
<1>3. CASE RouteHop BY <1>3, RouteHopInv
<1>4. CASE Inform BY <1>4, InformInv
<1>5. CASE RunRaises BY <1>5, RunRaisesInv
<1>6. CASE EndChain BY <1>6, EndChainInv
<1>7. ASSUME NEW a \in AgentSet, Deploy(a) PROVE ChainInv'
  BY <1>7, ChainQuiet DEF Deploy
<1>8. CASE UNCHANGED acpVars BY <1>8, ChainQuiet DEF acpVars
<1> QED BY <1>1, <1>2, <1>3, <1>4, <1>5, <1>6, <1>7, <1>8 DEF AcpNext, ChainStep

\* run_chain and Router.route: for any agents, key ring, capability lists and hop limit, the
\* NEops that ran are the first publishers of a prefix of what was asked, none twice, each
\* with its audit entry, and "done" and "refused" are said of nothing else.
THEOREM ChainsAlwaysHonest == AcpSpec => []ChainHonest
<1>1. ChainInv => ChainHonest BY DEF ChainInv
<1> QED BY <1>1, AcpInitInv, ChainStepInv, PTL DEF AcpSpec

-----------------------------------------------------------------------------
(* The org chart.                                                           *)

Depth == Cardinality(Seats)

\* Every seat reports to a seat of the chart or to nobody.
Known == reports \in [Seats -> Seats \cup {Top}]

\* h counts the steps to the top from the seats of C, and s is one of them.
Certifies(s, C, h) ==
  /\ C \subseteq Seats /\ s \in C /\ h \in [C -> 0..(Depth - 1)]
  /\ \A x \in C : IF reports[x] = Top THEN h[x] = 0 ELSE reports[x] \in C /\ h[x] = h[reports[x]] + 1
Ends(s) == \E C \in SUBSET Seats : \E h \in [C -> 0..(Depth - 1)] : Certifies(s, C, h)

\* p numbers the seats of the walk so far in the order they were met; cur is above the last.
Path(p) ==
  /\ p \in [seen -> 1..Cardinality(seen)]
  /\ \A x \in seen : IF p[x] = Cardinality(seen) THEN reports[x] = cur
                     ELSE reports[x] \in seen /\ p[reports[x]] = p[x] + 1

Cyclic == \E s \in Seats, n \in 1..Depth : s \in Below(s, n)

OrgInv ==
  /\ verdict # "none" => /\ reports \in [Seats -> Seats \cup {Top, Unknown}]
                         /\ todo \subseteq Seats /\ holds \subseteq Seats
  /\ verdict \in {"valid", "cycle"} \/ (verdict = "checking" /\ cur # Top) => Known
  /\ verdict = "checking" =>
       /\ seen \subseteq Seats /\ cur \in Seats \cup {Top} /\ \E p \in [seen -> 1..Cardinality(seen)] : Path(p)
       /\ \A s \in Seats \ todo : Ends(s) \/ s \in seen \/ s = cur
  /\ verdict = "valid" => \A s \in Seats : Ends(s)
  /\ verdict = "cycle" => Cyclic

-----------------------------------------------------------------------------
\* A set of numbers has a least one.
LEMMA LeastIn ==
  ASSUME NEW A, A \subseteq Nat, A # {}
  PROVE  \E i \in A : \A j \in A : i <= j
<1>1. IsWellFoundedOn(OpToRel(<, Nat), Nat) BY NatLessThanWellFounded
<1>2. PICK x \in A : \A y \in A : ~(<<y, x>> \in OpToRel(<, Nat)) BY <1>1, WFMin
<1>3. \A y \in A : ~(y < x) BY <1>2 DEF OpToRel
<1> QED BY <1>3

\* A function can be iterated any number of times.
Iterates(g, n, S, a, step) ==
  g \in [0..n -> S] /\ g[0] = a /\ \A i \in 1..n : g[i] = step[g[i - 1]]

LEMMA Iterate ==
  ASSUME NEW N \in Nat, NEW S, NEW a \in S, NEW step \in [S -> S]
  PROVE  \E g : Iterates(g, N, S, a, step)
<1> DEFINE T == {n \in 0..N : \E g : Iterates(g, n, S, a, step)}
<1>1. 0 \in T
  <2> DEFINE g == [i \in 0..0 |-> a]
  <2>1. g \in [0..0 -> S] /\ g[0] = a /\ \A i \in 1..0 : g[i] = step[g[i - 1]] OBVIOUS
  <2> HIDE DEF g
  <2>2. Iterates(g, 0, S, a, step) BY <2>1 DEF Iterates
  <2> QED BY <2>2
<1>2. ASSUME NEW n \in 0..N, n \in T, n < N PROVE n + 1 \in T
  <2>1. PICK g : Iterates(g, n, S, a, step) BY <1>2
  <2> DEFINE h == [i \in 0..(n + 1) |-> IF i <= n THEN g[i] ELSE step[g[n]]]
  <2>2. g[n] \in S BY <2>1 DEF Iterates
  <2>3. h \in [0..(n + 1) -> S] BY <2>1, <2>2 DEF Iterates
  <2>4. h[0] = a BY <2>1 DEF Iterates
  <2>5. ASSUME NEW i \in 1..(n + 1) PROVE h[i] = step[h[i - 1]]
    <3>1. CASE i = n + 1
      <4>1. h[i] = step[g[n]] /\ h[i - 1] = g[n] BY <3>1
      <4> QED BY <4>1
    <3>2. CASE i \in 1..n
      <4>1. h[i] = g[i] /\ h[i - 1] = g[i - 1] BY <3>2
      <4> QED BY <2>1, <3>2, <4>1 DEF Iterates
    <3> QED BY <3>1, <3>2
  <2>6. Iterates(h, n + 1, S, a, step) BY <2>3, <2>4, <2>5 DEF Iterates
  <2>7. n + 1 \in 0..N BY <1>2
  <2> QED BY <2>6, <2>7
<1> HIDE DEF T
<1>3. \A n \in 0..N : n \in T BY <1>1, <1>2, UpTo
<1>4. N \in T BY <1>3
<1> QED BY <1>4 DEF T

LEMMA DepthTyped == Depth \in Nat
BY FS_CardinalityType, HierarchyConstants DEF Depth

\* The reference relation, unfolded.
LEMMA AboveIs ==
  ASSUME Known
  PROVE  /\ 1 <= Depth => \A s \in Seats : \A t : <<s, t>> \in Above[1] <=> t = reports[s]
         /\ \A n \in 2..Depth : \A s \in Seats : \A t :
              <<s, t>> \in Above[n] <=> \E u \in Seats : <<s, u>> \in Above[n - 1] /\ t = reports[u]
<1> DEFINE K == Depth
           S == SUBSET (Seats \X (Seats \cup {Top}))
           First == {<<s, reports[s]>> : s \in Seats}
           Up(A) == {<<p[1], reports[p[2]]>> : p \in {q \in A : q[2] \in Seats}}
           Body(f) == [n \in 1..K |-> IF n = 1 THEN First ELSE Up(f[n - 1])]
<1> SUFFICES ASSUME 1 <= K
             PROVE  /\ \A s \in Seats : \A t : <<s, t>> \in Above[1] <=> t = reports[s]
                    /\ \A n \in 2..K : \A s \in Seats : \A t :
                         <<s, t>> \in Above[n] <=> \E u \in Seats : <<s, u>> \in Above[n - 1] /\ t = reports[u]
  BY DepthTyped
<1>1. K \in Nat /\ K - 1 \in Nat BY DepthTyped
<1>2. First \in S BY DEF Known
<1>3. \A A \in S : Up(A) \in S
  <2> SUFFICES ASSUME NEW A \in S, NEW p \in {q \in A : q[2] \in Seats}
               PROVE  <<p[1], reports[p[2]]>> \in Seats \X (Seats \cup {Top})
    OBVIOUS
  <2>1. p \in Seats \X (Seats \cup {Top}) /\ p[2] \in Seats OBVIOUS
  <2> QED BY <2>1 DEF Known
<1> DEFINE step == [A \in S |-> Up(A)]
<1>4. step \in [S -> S] BY <1>3
<1>5. \A A \in S : step[A] = Up(A) OBVIOUS
<1> HIDE DEF step, S, First, Up, K
<1>6. PICK g : Iterates(g, K - 1, S, First, step) BY <1>1, <1>2, <1>4, Iterate
<1> DEFINE f == [n \in 1..K |-> g[n - 1]]
<1>7. f = Body(f)
  <2>1. ASSUME NEW n \in 1..K PROVE f[n] = Body(f)[n]
    <3>1. CASE n = 1 BY <1>6, <3>1 DEF Iterates
    <3>2. CASE n # 1
      <4>1. n - 1 \in 1..(K - 1) /\ n - 1 \in 1..K /\ (n - 1) - 1 \in 0..(K - 1) BY <1>1, <3>2
      <4>2. f[n] = step[g[(n - 1) - 1]] /\ f[n - 1] = g[(n - 1) - 1] BY <1>6, <4>1 DEF Iterates
      <4>3. g[(n - 1) - 1] \in S BY <1>6, <4>1 DEF Iterates
      <4>4. f[n] = Up(f[n - 1]) BY <1>5, <4>2, <4>3
      <4>5. Body(f)[n] = Up(f[n - 1]) BY <3>2
      <4> QED BY <4>4, <4>5
    <3> QED BY <3>1, <3>2
  <2>2. Body(f) = [n \in 1..K |-> Body(f)[n]] OBVIOUS
  <2>3. f = [n \in 1..K |-> f[n]] OBVIOUS
  <2> HIDE DEF f, Body
  <2> QED BY <2>1, <2>2, <2>3
<1> DEFINE above == CHOOSE e : e = Body(e)
<1>8. above = Body(above) BY <1>7
<1>9. Above = above BY DEF Above, First, Up, K, Depth
<1> HIDE DEF above
<1>10. Above[1] = First BY <1>1, <1>8, <1>9
<1>11. \A n \in 2..K : Above[n] = Up(Above[n - 1]) BY <1>1, <1>8, <1>9
<1> HIDE DEF Body, f
<1> DEFINE T == {n \in 0..(K - 1) : Above[n + 1] \in S}
<1>12. 0 \in T BY <1>1, <1>2, <1>10
<1>13. ASSUME NEW n \in 0..(K - 1), n \in T, n < K - 1 PROVE n + 1 \in T
  <2>1. (n + 1) + 1 \in 2..K /\ ((n + 1) + 1) - 1 = n + 1 /\ n + 1 \in 0..(K - 1) BY <1>1, <1>13
  <2>2. Above[(n + 1) + 1] = Up(Above[n + 1]) BY <1>11, <2>1
  <2> QED BY <1>3, <1>13, <2>1, <2>2
<1> HIDE DEF T
<1>14. \A n \in 0..(K - 1) : n \in T BY <1>1, <1>12, <1>13, UpTo
<1>15. ASSUME NEW n \in 2..K PROVE Above[n - 1] \in S
  <2>1. n - 2 \in 0..(K - 1) /\ (n - 2) + 1 = n - 1 BY <1>1
  <2> QED BY <1>14, <2>1 DEF T
<1>16. ASSUME NEW s \in Seats, NEW t PROVE <<s, t>> \in Above[1] <=> t = reports[s]
  BY <1>10 DEF First
<1>17. ASSUME NEW n \in 2..K, NEW s \in Seats, NEW t
       PROVE  <<s, t>> \in Above[n] <=> \E u \in Seats : <<s, u>> \in Above[n - 1] /\ t = reports[u]
  <2>1. Above[n] = Up(Above[n - 1]) /\ Above[n - 1] \in S BY <1>11, <1>15
  <2>2. ASSUME <<s, t>> \in Above[n] PROVE \E u \in Seats : <<s, u>> \in Above[n - 1] /\ t = reports[u]
    <3>1. PICK q \in Above[n - 1] : q[2] \in Seats /\ <<s, t>> = <<q[1], reports[q[2]]>>
      BY <2>1, <2>2 DEF Up
    <3>2. q = <<q[1], q[2]>> BY <2>1 DEF S
    <3> QED BY <3>1, <3>2
  <2>3. ASSUME NEW u \in Seats, <<s, u>> \in Above[n - 1], t = reports[u] PROVE <<s, t>> \in Above[n]
    <3>1. <<s, u>>[1] = s /\ <<s, u>>[2] = u OBVIOUS
    <3> QED BY <2>1, <2>3, <3>1 DEF Up
  <2> QED BY <2>2, <2>3
<1> QED BY <1>16, <1>17 DEF K

-----------------------------------------------------------------------------
\* On the way up from a seat whose chain ends, n steps lower the height by n, and lead to one seat.
LEMMA CertifiedAbove ==
  ASSUME Known, NEW s \in Seats, NEW C, NEW h, Certifies(s, C, h)
  PROVE  \A n \in 1..Depth : /\ \A t \in Seats : <<s, t>> \in Above[n] => t \in C /\ h[s] = h[t] + n
                             /\ \A t, u : <<s, t>> \in Above[n] /\ <<s, u>> \in Above[n] => t = u
<1>1. Depth \in Nat /\ Top \notin Seats BY DepthTyped, HierarchyConstants
<1>2. \A x \in C : /\ h[x] \in 0..(Depth - 1) /\ x \in Seats
                   /\ reports[x] # Top => reports[x] \in C /\ h[x] = h[reports[x]] + 1
  BY DEF Certifies
<1>3. s \in C BY DEF Certifies
<1> DEFINE P(n) == /\ \A t \in Seats : <<s, t>> \in Above[n] => t \in C /\ h[s] = h[t] + n
                   /\ \A t, u : <<s, t>> \in Above[n] /\ <<s, u>> \in Above[n] => t = u
           T == {n \in 0..Depth : n # 0 => P(n)}
<1>4. 0 \in T BY <1>1
<1>5. ASSUME NEW n \in 0..Depth, n \in T, n < Depth PROVE n + 1 \in T
  <2>1. n + 1 \in 0..Depth /\ 1 <= Depth BY <1>1, <1>5
  <2>2. CASE n = 0
    <3>1. \A t : <<s, t>> \in Above[1] <=> t = reports[s] BY <2>1, AboveIs
    <3>2. \A t \in Seats : t = reports[s] => t \in C /\ h[s] = h[t] + 1 BY <1>1, <1>2, <1>3
    <3>3. P(1) BY <3>1, <3>2
    <3> QED BY <2>1, <2>2, <3>3
  <2>3. CASE n # 0
    <3>1. P(n) BY <1>5, <2>3
    <3>2. n + 1 \in 2..Depth /\ (n + 1) - 1 = n BY <1>1, <1>5, <2>3
    <3>3. \A t : <<s, t>> \in Above[n + 1] <=> \E u \in Seats : <<s, u>> \in Above[n] /\ t = reports[u]
      BY <3>2, AboveIs
    <3>4. ASSUME NEW t \in Seats, <<s, t>> \in Above[n + 1] PROVE t \in C /\ h[s] = h[t] + (n + 1)
      <4>1. PICK u \in Seats : <<s, u>> \in Above[n] /\ t = reports[u] BY <3>3, <3>4
      <4>2. u \in C /\ h[s] = h[u] + n BY <3>1, <4>1
      <4>3. t \in C /\ h[u] = h[t] + 1 BY <1>1, <1>2, <4>1, <4>2
      <4>4. h[t] \in Nat /\ h[s] \in Nat /\ h[u] \in Nat BY <1>2, <1>3, <4>2, <4>3
      <4> QED BY <4>2, <4>3, <4>4
    <3>5. ASSUME NEW t, NEW u, <<s, t>> \in Above[n + 1], <<s, u>> \in Above[n + 1] PROVE t = u
      <4>1. PICK t1 \in Seats : <<s, t1>> \in Above[n] /\ t = reports[t1] BY <3>3, <3>5
      <4>2. PICK u1 \in Seats : <<s, u1>> \in Above[n] /\ u = reports[u1] BY <3>3, <3>5
      <4> QED BY <3>1, <4>1, <4>2
    <3>6. P(n + 1) BY <3>4, <3>5
    <3> QED BY <2>1, <3>6
  <2> QED BY <2>2, <2>3
<1> HIDE DEF T
<1>6. \A n \in 0..Depth : n \in T BY <1>1, <1>4, <1>5, UpTo
<1>7. ASSUME NEW n \in 1..Depth PROVE P(n)
  <2>1. n \in 0..Depth /\ n # 0 BY <1>1
  <2> QED BY <1>6, <2>1 DEF T
<1> QED BY <1>7

\* escalation_chain, unfolded: its list after n rounds.
LEMMA ChainUnfolds ==
  ASSUME Known, NEW seat \in Seats
  PROVE  \E g : /\ g[0] = <<>> /\ EscalationChain(seat) = g[Depth]
                /\ \A n \in 0..Depth : g[n] \in Seq(Seats)
                /\ \A n \in 1..Depth :
                     LET next == reports[IF g[n - 1] = <<>> THEN seat ELSE g[n - 1][Len(g[n - 1])]]
                     IN  g[n] = IF next = Top THEN g[n - 1] ELSE Append(g[n - 1], next)
<1> DEFINE K == Depth
           S == Seq(Seats)
           Next(out) == reports[IF out = <<>> THEN seat ELSE out[Len(out)]]
           Up(out) == IF Next(out) = Top THEN out ELSE Append(out, Next(out))
           Body(f) == [n \in 0..K |-> IF n = 0 THEN <<>> ELSE Up(f[n - 1])]
           step == [out \in S |-> Up(out)]
<1>1. K \in Nat BY DepthTyped
<1>2. \A out \in S : Up(out) \in S
  <2> SUFFICES ASSUME NEW out \in S PROVE Up(out) \in S OBVIOUS
  <2>1. (IF out = <<>> THEN seat ELSE out[Len(out)]) \in Seats OBVIOUS
  <2>2. Next(out) \in Seats \cup {Top} BY <2>1 DEF Known
  <2> HIDE DEF Next
  <2> QED BY <2>2
<1>3. step \in [S -> S] /\ <<>> \in S BY <1>2
<1>4. \A out \in S : step[out] = Up(out) OBVIOUS
<1> HIDE DEF step, S, Up, K
<1>5. PICK g : Iterates(g, K, S, <<>>, step) BY <1>1, <1>3, Iterate
<1>6. /\ g \in [0..K -> S] /\ g[0] = <<>>
      /\ \A n \in 1..K : g[n] = Up(g[n - 1])
  <2>1. g \in [0..K -> S] /\ g[0] = <<>> /\ \A n \in 1..K : g[n] = step[g[n - 1]] BY <1>5 DEF Iterates
  <2>2. \A n \in 1..K : n - 1 \in 0..K BY <1>1
  <2> QED BY <1>4, <2>1, <2>2
<1>7. g = Body(g)
  <2>1. \A n \in 0..K : n # 0 => n \in 1..K BY <1>1
  <2>2. \A n \in 0..K : g[n] = Body(g)[n] BY <1>6, <2>1
  <2>3. g = [n \in 0..K |-> g[n]] BY <1>6
  <2>4. Body(g) = [n \in 0..K |-> Body(g)[n]] OBVIOUS
  <2> HIDE DEF Body
  <2> QED BY <2>2, <2>3, <2>4
<1> DEFINE up == CHOOSE e : e = Body(e)
<1>8. up = Body(up) BY <1>7
<1>9. EscalationChain(seat) = up[K] BY DEF EscalationChain, Up, K, Depth
<1> HIDE DEF up
<1>10. up[0] = <<>> BY <1>1, <1>8
<1>11. \A n \in 1..K : up[n] = Up(up[n - 1])
  <2>1. \A n \in 1..K : n \in 0..K /\ n # 0 BY <1>1
  <2> QED BY <1>8, <2>1
<1> HIDE DEF Body
<1> DEFINE T == {n \in 0..K : up[n] \in S}
<1>12. 0 \in T BY <1>1, <1>3, <1>10
<1>13. ASSUME NEW n \in 0..K, n \in T, n < K PROVE n + 1 \in T
  <2>1. n + 1 \in 1..K /\ (n + 1) - 1 = n /\ n + 1 \in 0..K BY <1>1, <1>13
  <2> QED BY <1>2, <1>11, <1>13, <2>1
<1> HIDE DEF T
<1>14. \A n \in 0..K : n \in T BY <1>1, <1>12, <1>13, UpTo
<1>15. \A n \in 0..K : up[n] \in Seq(Seats) BY <1>14 DEF T, S
<1> QED BY <1>9, <1>10, <1>11, <1>15 DEF Up, K

\* escalation_chain lists the seats above, each as many steps up as its place says, to the top.
LEMMA ChainIs ==
  ASSUME Known, NEW s \in Seats, NEW C, NEW h, Certifies(s, C, h)
  PROVE  LET c == EscalationChain(s)
         IN  c \in Seq(Seats) /\ Len(c) = h[s] /\ \A i \in 1..Len(c) : <<s, c[i]>> \in Above[i]
<1>1. Depth \in Nat /\ Top \notin Seats BY DepthTyped, HierarchyConstants
<1>2. \A x \in C : /\ h[x] \in 0..(Depth - 1) /\ x \in Seats
                   /\ IF reports[x] = Top THEN h[x] = 0 ELSE reports[x] \in C /\ h[x] = h[reports[x]] + 1
  BY DEF Certifies
<1>3. s \in C BY DEF Certifies
<1>4. PICK g : /\ g[0] = <<>> /\ EscalationChain(s) = g[Depth]
               /\ \A n \in 0..Depth : g[n] \in Seq(Seats)
               /\ \A n \in 1..Depth :
                    LET next == reports[IF g[n - 1] = <<>> THEN s ELSE g[n - 1][Len(g[n - 1])]]
                    IN  g[n] = IF next = Top THEN g[n - 1] ELSE Append(g[n - 1], next)
  BY ChainUnfolds
<1> DEFINE Lists(out, n) == /\ Len(out) = IF n < h[s] THEN n ELSE h[s]
                            /\ \A i \in 1..Len(out) : <<s, out[i]>> \in Above[i]
           T == {n \in 0..Depth : Lists(g[n], n)}
<1>5. 0 \in T BY <1>1, <1>2, <1>3, <1>4
<1>6. ASSUME NEW n \in 0..Depth, n \in T, n < Depth PROVE n + 1 \in T
  <2> DEFINE out == g[n]
             last == IF out = <<>> THEN s ELSE out[Len(out)]
             next == reports[last]
  <2>1. n + 1 \in 0..Depth /\ n + 1 \in 1..Depth /\ (n + 1) - 1 = n BY <1>1, <1>6
  <2>2. g[n + 1] = IF next = Top THEN out ELSE Append(out, next) BY <1>4, <2>1
  <2>3. out \in Seq(Seats) /\ Lists(out, n) /\ Len(out) \in Nat BY <1>4, <1>6
  <2>4. h[s] \in 0..(Depth - 1) BY <1>2, <1>3
  <2>5. last \in C /\ h[s] = h[last] + Len(out)
    <3>1. CASE out = <<>> BY <1>3, <2>4, <3>1
    <3>2. CASE out # <<>>
      <4>1. Len(out) \in 1..Len(out) /\ Len(out) \in 1..Depth
        <5>1. Len(out) # 0 BY <2>3, <3>2
        <5>2. Len(out) <= n BY <2>3, <2>4
        <5> HIDE DEF out
        <5> QED BY <1>1, <1>6, <2>3, <5>1, <5>2
      <4>2. out[Len(out)] \in Seats /\ <<s, out[Len(out)]>> \in Above[Len(out)] BY <2>3, <4>1
      <4>3. out[Len(out)] \in C /\ h[s] = h[out[Len(out)]] + Len(out) BY <4>1, <4>2, CertifiedAbove
      <4> QED BY <3>2, <4>3
    <3> QED BY <3>1, <3>2
  <2>6. h[last] \in 0..(Depth - 1) /\ IF next = Top THEN h[last] = 0 ELSE next \in C /\ h[last] = h[next] + 1
    BY <1>2, <2>5
  <2>7. CASE next = Top
    <3>1. Len(out) = h[s] /\ n >= h[s]
      <4>1. h[last] = 0 BY <2>6, <2>7
      <4>2. Len(out) = IF n < h[s] THEN n ELSE h[s] BY <2>3
      <4> HIDE DEF out, last
      <4>3. Len(out) = h[s] BY <2>3, <2>4, <2>5, <4>1
      <4> QED BY <2>4, <4>2, <4>3
    <3>2. Lists(out, n + 1) BY <2>3, <2>4, <3>1
    <3> QED BY <2>1, <2>2, <2>7, <3>2
  <2>8. CASE next # Top
    <3>1. h[next] \in Nat BY <1>2, <2>6, <2>8
    <3>2. Len(out) < h[s]
      <4>1. h[last] = h[next] + 1 BY <2>6, <2>8
      <4> HIDE DEF out, last, next
      <4> QED BY <2>3, <2>5, <3>1, <4>1
    <3>3. n < h[s] /\ Len(out) = n BY <2>3, <2>4, <3>2
    <3>4. next \in Seats BY <1>2, <2>6, <2>8
    <3>5. <<s, next>> \in Above[n + 1]
      <4>1. CASE n = 0
        <5>1. 1 <= Depth /\ out = <<>> BY <1>1, <1>6, <2>3, <3>3, <4>1
        <5> QED BY <4>1, <5>1, AboveIs
      <4>2. CASE n # 0
        <5>1. n + 1 \in 2..Depth BY <1>1, <1>6, <4>2
        <5>2. n \in 1..Len(out) /\ out # <<>> BY <2>3, <3>3, <4>2
        <5>3. last = out[n] /\ out[n] \in Seats /\ <<s, out[n]>> \in Above[n] BY <2>3, <3>3, <5>2
        <5> QED BY <2>1, <5>1, <5>3, AboveIs
      <4> QED BY <4>1, <4>2
    <3> DEFINE new == Append(out, next)
    <3>6. Len(new) = n + 1 /\ new[n + 1] = next /\ \A i \in 1..n : new[i] = out[i]
      BY <2>3, <3>3, <3>4
    <3>7. g[n + 1] = new BY <2>2, <2>8
    <3> HIDE DEF new, next, out
    <3>8. ASSUME NEW i \in 1..(n + 1) PROVE <<s, new[i]>> \in Above[i]
      <4>1. CASE i = n + 1 BY <3>5, <3>6, <4>1
      <4>2. CASE i # n + 1
        <5>1. i \in 1..n BY <3>8, <4>2
        <5> QED BY <2>3, <3>3, <3>6, <5>1
      <4> QED BY <4>1, <4>2
    <3>9. Lists(new, n + 1) BY <2>4, <3>3, <3>6, <3>8
    <3> QED BY <2>1, <3>7, <3>9
  <2> QED BY <2>7, <2>8
<1> HIDE DEF T
<1>7. \A n \in 0..Depth : n \in T BY <1>1, <1>5, <1>6, UpTo
<1>8. Depth \in T /\ Depth \in 0..Depth BY <1>1, <1>7
<1>9. h[s] \in 0..(Depth - 1) BY <1>2, <1>3
<1>10. Len(g[Depth]) = h[s] /\ \A i \in 1..Len(g[Depth]) : <<s, g[Depth][i]>> \in Above[i] BY <1>8, <1>9 DEF T
<1> QED BY <1>4, <1>8, <1>10

\* On a chart whose chains end, the lists and the reference agree.
LEMMA ChainAbove ==
  ASSUME Known, NEW s \in Seats, Ends(s)
  PROVE  LET c == EscalationChain(s)
         IN  /\ DOMAIN c \subseteq 1..Depth
             /\ \A t \in Seats : \A n \in 1..Depth : s \in Below(t, n) <=> n \in DOMAIN c /\ c[n] = t
             /\ \A i, j \in DOMAIN c : c[i] = c[j] => i = j
             /\ \A n \in 1..Depth : s \notin Below(s, n)
<1> DEFINE c == EscalationChain(s)
<1>1. PICK C, h : Certifies(s, C, h) BY DEF Ends
<1>2. Depth \in Nat BY DepthTyped
<1>3. \A x \in C : h[x] \in 0..(Depth - 1) BY <1>1 DEF Certifies
<1>4. h[s] \in 0..(Depth - 1) BY <1>1, <1>3 DEF Certifies
<1>5. \A n \in 1..Depth : /\ \A t \in Seats : <<s, t>> \in Above[n] => t \in C /\ h[s] = h[t] + n
                          /\ \A t, u : <<s, t>> \in Above[n] /\ <<s, u>> \in Above[n] => t = u
  BY <1>1, CertifiedAbove
<1>6. c \in Seq(Seats) /\ Len(c) = h[s] /\ \A i \in 1..Len(c) : <<s, c[i]>> \in Above[i]
  BY <1>1, ChainIs
<1> HIDE DEF c
<1>7. DOMAIN c = 1..h[s] /\ DOMAIN c \subseteq 1..Depth BY <1>2, <1>4, <1>6
<1>8. ASSUME NEW t \in Seats, NEW n \in 1..Depth PROVE s \in Below(t, n) <=> n \in DOMAIN c /\ c[n] = t
  <2>1. s \in Below(t, n) <=> <<s, t>> \in Above[n] BY DEF Below
  <2>2. ASSUME <<s, t>> \in Above[n] PROVE n \in DOMAIN c /\ c[n] = t
    <3>1. h[t] \in Nat /\ h[s] = h[t] + n BY <1>3, <1>5, <2>2
    <3>2. n \in 1..h[s] BY <1>4, <3>1
    <3> QED BY <1>5, <1>6, <1>7, <2>2, <3>2
  <2>3. ASSUME n \in DOMAIN c, c[n] = t PROVE <<s, t>> \in Above[n] BY <1>6, <1>7, <2>3
  <2> QED BY <2>1, <2>2, <2>3
<1>9. ASSUME NEW i \in DOMAIN c, NEW j \in DOMAIN c, c[i] = c[j] PROVE i = j
  <2>1. i \in 1..Depth /\ j \in 1..Depth /\ c[i] \in Seats /\ c[j] \in Seats BY <1>6, <1>7
  <2>2. h[s] = h[c[i]] + i /\ h[s] = h[c[j]] + j /\ c[i] \in C BY <1>5, <1>6, <1>7, <2>1
  <2> QED BY <1>3, <1>4, <1>9, <2>1, <2>2
<1>10. ASSUME NEW n \in 1..Depth, s \in Below(s, n) PROVE FALSE
  <2>1. h[s] = h[s] + n BY <1>5, <1>10 DEF Below
  <2> QED BY <1>4, <2>1
<1> QED BY <1>7, <1>8, <1>9, <1>10 DEF c

\* delegate on an accepted chart: the nearest holder below, if there is one.
LEMMA DelegateNearest ==
  ASSUME Known, \A x \in Seats : Ends(x), holds \subseteq Seats, NEW s \in Seats
  PROVE  LET d == Delegate(s)
         IN  IF d = Top THEN \A n \in 1..Depth : Below(s, n) \cap holds = {}
             ELSE \E n \in 1..Depth : /\ d \in Below(s, n) \cap holds
                                      /\ \A m \in 1..(n - 1) : Below(s, m) \cap holds = {}
<1> DEFINE holders == Subordinates(s) \cap holds
           dist(x) == Distance(x, s)
           Nearest(x) == x \in holders /\ \A t \in holders : dist(x) < dist(t) \/ (dist(x) = dist(t) /\ x <= t)
<1>1. Seats \subseteq Nat /\ Top \notin Seats /\ Depth \in Nat BY HierarchyConstants, DepthTyped
<1>2. ASSUME NEW x \in holders PROVE dist(x) \in 1..Depth /\ x \in Below(s, dist(x))
  <2> DEFINE c == EscalationChain(x)
  <2>1. x \in Seats /\ \E i \in DOMAIN c : c[i] = s BY <1>2 DEF Subordinates
  <2>2. dist(x) \in DOMAIN c /\ c[dist(x)] = s BY <2>1 DEF Distance
  <2> QED BY <2>1, <2>2, ChainAbove
<1>3. ASSUME NEW n \in 1..Depth, NEW x \in Below(s, n) \cap holds PROVE x \in holders /\ dist(x) = n
  <2> DEFINE c == EscalationChain(x)
  <2>1. x \in Seats BY <1>3 DEF Below
  <2>2. n \in DOMAIN c /\ c[n] = s BY <1>3, <2>1, ChainAbove
  <2>3. x # s BY <1>3, <2>1, ChainAbove
  <2>4. x \in holders BY <1>3, <2>1, <2>2, <2>3 DEF Subordinates
  <2>5. dist(x) \in DOMAIN c /\ c[dist(x)] = s BY <2>2 DEF Distance
  <2>6. \A i, j \in DOMAIN c : c[i] = c[j] => i = j BY <2>1, ChainAbove
  <2> QED BY <2>2, <2>4, <2>5, <2>6
<1>4. holders \subseteq Seats BY DEF Subordinates
<1>5. Delegate(s) = IF holders = {} THEN Top ELSE CHOOSE x : Nearest(x)
  <2>1. Delegate(s) = IF holders = {} THEN Top
          ELSE CHOOSE x \in holders : \A t \in holders :
                 Distance(x, s) < Distance(t, s) \/ (Distance(x, s) = Distance(t, s) /\ x <= t)
    BY DEF Delegate
  <2> QED BY <2>1
<1> HIDE DEF holders, dist
<1>6. CASE holders = {} BY <1>3, <1>5, <1>6
<1>7. CASE holders # {}
  <2>1. {dist(x) : x \in holders} \subseteq Nat /\ {dist(x) : x \in holders} # {} BY <1>1, <1>2, <1>7
  <2>2. PICK n \in {dist(x) : x \in holders} : \A m \in {dist(x) : x \in holders} : n <= m
    BY <2>1, LeastIn
  <2> DEFINE near == {x \in holders : dist(x) = n}
  <2>3. near \subseteq Nat /\ near # {} BY <1>1, <1>4, <2>2
  <2>4. PICK x \in near : \A y \in near : x <= y BY <2>3, LeastIn
  <2>5. Nearest(x)
    <3> SUFFICES ASSUME NEW t \in holders PROVE dist(x) < dist(t) \/ (dist(x) = dist(t) /\ x <= t)
      BY <2>4
    <3>1. dist(x) = n /\ n <= dist(t) /\ n \in Nat /\ dist(t) \in Nat BY <2>1, <2>2, <2>4
    <3>2. dist(t) = n => x <= t BY <2>4
    <3> QED BY <3>1, <3>2
  <2> DEFINE d == CHOOSE y : Nearest(y)
  <2>6. Nearest(d) BY <2>5
  <2>7. Delegate(s) = d BY <1>5, <1>7
  <2> HIDE DEF d
  <2>8. d \in holders /\ d # Top /\ d \in holds BY <1>1, <1>4, <2>6 DEF holders
  <2>9. dist(d) \in 1..Depth /\ d \in Below(s, dist(d)) BY <1>2, <2>8
  <2>10. ASSUME NEW m \in 1..(dist(d) - 1), NEW y \in Below(s, m) \cap holds PROVE FALSE
    <3>1. m \in 1..Depth /\ m < dist(d) BY <1>1, <2>9
    <3>2. y \in holders /\ dist(y) = m BY <1>3, <3>1
    <3> QED BY <2>6, <2>9, <3>1, <3>2
  <2> QED BY <2>7, <2>8, <2>9, <2>10
<1> QED BY <1>6, <1>7

\* Where the walk of an accepted chain has come to an end, the walk counts the steps.
LEMMA WalkEnds ==
  ASSUME Known, seen \subseteq Seats, cur = Top, NEW p, Path(p)
  PROVE  \A s \in seen : Ends(s)
<1> DEFINE N == Cardinality(seen)
           h == [x \in seen |-> N - p[x]]
<1>1. N \in Nat /\ N <= Depth /\ Depth \in Nat /\ Top \notin Seats
  BY FS_Subset, FS_CardinalityType, HierarchyConstants DEF Depth
<1>2. p \in [seen -> 1..N] /\ \A x \in seen : IF p[x] = N THEN reports[x] = Top
                                              ELSE reports[x] \in seen /\ p[reports[x]] = p[x] + 1
  BY DEF Path
<1> HIDE DEF N
<1>3. \A x \in seen : h[x] = N - p[x] /\ h[x] \in 0..(Depth - 1) BY <1>1, <1>2
<1>4. h \in [seen -> 0..(Depth - 1)] BY <1>3
<1>5. ASSUME NEW x \in seen PROVE IF reports[x] = Top THEN h[x] = 0 ELSE reports[x] \in seen /\ h[x] = h[reports[x]] + 1
  <2>1. CASE p[x] = N BY <1>1, <1>2, <1>3, <2>1
  <2>2. CASE p[x] # N
    <3>1. reports[x] \in seen /\ p[reports[x]] = p[x] + 1 /\ reports[x] # Top BY <1>1, <1>2, <2>2
    <3>2. p[x] \in 1..N BY <1>2
    <3> QED BY <1>1, <1>3, <3>1, <3>2
  <2> QED BY <2>1, <2>2
<1> HIDE DEF h
<1>6. \A s \in seen : Certifies(s, seen, h) BY <1>4, <1>5 DEF Certifies
<1> QED BY <1>4, <1>6 DEF Ends

\* Where the walk meets a seat again, the chart has a circle.
LEMMA WalkMeets ==
  ASSUME Known, seen \subseteq Seats, cur \in seen, NEW p, Path(p)
  PROVE  Cyclic
<1> DEFINE N == Cardinality(seen)
           k == p[cur]
           T == {j \in 0..(N - k) : \E x \in seen : p[x] = k + j /\ IF j = 0 THEN x = cur ELSE <<cur, x>> \in Above[j]}
<1>1. N \in Nat /\ N <= Depth /\ Depth \in Nat /\ Top \notin Seats
  BY FS_Subset, FS_CardinalityType, HierarchyConstants DEF Depth
<1>2. p \in [seen -> 1..N] /\ \A x \in seen : IF p[x] = N THEN reports[x] = cur
                                              ELSE reports[x] \in seen /\ p[reports[x]] = p[x] + 1
  BY DEF Path
<1>3. k \in 1..N /\ cur \in Seats BY <1>2
<1> HIDE DEF N
\* One step further up.
<1>4. ASSUME NEW j \in 0..(N - k), NEW x \in seen, IF j = 0 THEN x = cur ELSE <<cur, x>> \in Above[j], NEW y, y = reports[x]
      PROVE  <<cur, y>> \in Above[j + 1]
  <2>1. CASE j = 0
    <3>1. 1 <= Depth BY <1>1, <1>3
    <3> QED BY <1>3, <1>4, <2>1, <3>1, AboveIs
  <2>2. CASE j # 0
    <3>1. j + 1 \in 2..Depth /\ (j + 1) - 1 = j BY <1>1, <1>3, <2>2
    <3>2. x \in Seats OBVIOUS
    <3> QED BY <1>3, <1>4, <2>2, <3>1, <3>2, AboveIs
  <2> QED BY <2>1, <2>2
<1>5. N - k \in Nat BY <1>1, <1>3
<1>6. 0 \in T BY <1>3, <1>5
<1>7. ASSUME NEW j \in 0..(N - k), j \in T, j < N - k PROVE j + 1 \in T
  <2>1. PICK x \in seen : p[x] = k + j /\ IF j = 0 THEN x = cur ELSE <<cur, x>> \in Above[j] BY <1>7
  <2>2. p[x] # N BY <1>1, <1>3, <1>7, <2>1
  <2>3. reports[x] \in seen /\ p[reports[x]] = k + (j + 1) BY <1>2, <1>3, <2>1, <2>2
  <2>4. <<cur, reports[x]>> \in Above[j + 1] BY <1>4, <2>1
  <2>5. j + 1 \in 0..(N - k) /\ j + 1 # 0 BY <1>1, <1>3, <1>7
  <2> QED BY <2>3, <2>4, <2>5
<1> HIDE DEF T
<1>8. \A j \in 0..(N - k) : j \in T BY <1>5, <1>6, <1>7, UpTo
<1>9. N - k \in T /\ N - k \in 0..(N - k) BY <1>5, <1>8
<1>10. PICK x \in seen : p[x] = k + (N - k) /\ IF N - k = 0 THEN x = cur ELSE <<cur, x>> \in Above[N - k]
  BY <1>9 DEF T
<1>11. p[x] = N BY <1>1, <1>3, <1>10
<1>12. reports[x] = cur BY <1>2, <1>11
<1>13. <<cur, cur>> \in Above[(N - k) + 1] BY <1>4, <1>9, <1>10, <1>12
<1>14. (N - k) + 1 \in 1..Depth BY <1>1, <1>3
<1> QED BY <1>3, <1>13, <1>14 DEF Cyclic, Below

-----------------------------------------------------------------------------
LEMMA OrgInit == HierarchyInit => OrgInv
BY DEF HierarchyInit, OrgInv

\* What the invariant says depends on the chart, the walk and the verdict.
LEMMA OrgFrame ==
  ASSUME UNCHANGED reports
  PROVE  /\ Known' <=> Known
         /\ Cyclic' <=> Cyclic
         /\ \A s : Ends(s)' <=> Ends(s)
<1>1. Known' <=> Known BY DEF Known
<1>2. Above' = Above BY DEF Above
<1>3. \A s, n : Below(s, n)' = Below(s, n) BY <1>2 DEF Below
<1>4. Cyclic' <=> Cyclic BY <1>3 DEF Cyclic
<1>5. \A s : Ends(s)' <=> Ends(s) BY DEF Ends, Certifies
<1> QED BY <1>1, <1>4, <1>5

LEMMA ConstructInv ==
  ASSUME OrgInv, NEW boss \in [Seats -> Seats \cup {Top, Unknown}], NEW able \in SUBSET Seats, Construct(boss, able)
  PROVE  OrgInv'
<1>1. /\ reports' \in [Seats -> Seats \cup {Top, Unknown}] /\ holds' \subseteq Seats
      /\ todo' = Seats /\ cur' = Top /\ seen' = {} /\ verdict' = "checking"
  BY DEF Construct
<1>2. Path(<<>>)' /\ <<>> \in [seen -> 1..Cardinality(seen)]' BY <1>1 DEF Path
<1> QED BY <1>1, <1>2 DEF OrgInv

\* The next walk starts with a seat of its own, and the last one has shown that its seats end.
LEMMA NextSeatInv == ASSUME OrgInv, NEW s \in Seats, NextSeat(s) PROVE OrgInv'
<1>1. /\ verdict = "checking" /\ Unknown \notin {reports[x] : x \in Seats} /\ cur = Top /\ s \in todo
      /\ todo' = todo \ {s} /\ cur' = s /\ seen' = {} /\ UNCHANGED <<reports, holds, verdict>>
  BY DEF NextSeat
<1>2. Known BY <1>1 DEF OrgInv, Known
<1>3. Top \notin Seats BY HierarchyConstants
<1>4. \A x \in seen : Ends(x) BY <1>1, <1>2, WalkEnds DEF OrgInv
<1>5. ASSUME NEW t \in Seats \ todo' PROVE Ends(t) \/ t = cur' BY <1>1, <1>3, <1>4 DEF OrgInv
<1>6. Path(<<>>)' /\ <<>> \in [seen -> 1..Cardinality(seen)]' BY <1>1 DEF Path
<1>7. Known' /\ \A t : Ends(t)' <=> Ends(t) BY <1>1, <1>2, OrgFrame
<1>8. todo' \subseteq Seats /\ holds' \subseteq Seats BY <1>1 DEF OrgInv
<1>9. reports' \in [Seats -> Seats \cup {Top, Unknown}] BY <1>1 DEF OrgInv
<1> QED BY <1>1, <1>5, <1>6, <1>7, <1>8, <1>9 DEF OrgInv

\* The seat the walk is at is numbered last.
LEMMA ClimbInv == ASSUME OrgInv, Climb PROVE OrgInv'
<1>1. /\ verdict = "checking" /\ cur # Top /\ cur \notin seen
      /\ seen' = seen \cup {cur} /\ cur' = reports[cur] /\ UNCHANGED <<reports, holds, todo, verdict>>
  BY DEF Climb
<1>2. Known /\ seen \subseteq Seats /\ cur \in Seats BY <1>1 DEF OrgInv
<1>3. PICK p : Path(p) BY <1>1 DEF OrgInv
<1> DEFINE N == Cardinality(seen)
           q == [x \in seen \cup {cur} |-> IF x = cur THEN N + 1 ELSE p[x]]
<1>4. N \in Nat /\ Cardinality(seen') = N + 1
  BY <1>1, <1>2, FS_Subset, FS_CardinalityType, FS_AddElement, HierarchyConstants
<1>5. p \in [seen -> 1..N] /\ \A x \in seen : IF p[x] = N THEN reports[x] = cur
                                              ELSE reports[x] \in seen /\ p[reports[x]] = p[x] + 1
  BY <1>3 DEF Path
<1> HIDE DEF N
<1>6. q \in [seen' -> 1..(N + 1)] BY <1>1, <1>4, <1>5
<1>7. ASSUME NEW x \in seen'
      PROVE  IF q[x] = N + 1 THEN reports[x] = cur' ELSE reports[x] \in seen' /\ q[reports[x]] = q[x] + 1
  <2>1. CASE x = cur BY <1>1, <2>1
  <2>2. CASE x # cur
    <3>1. x \in seen /\ q[x] = p[x] /\ p[x] \in 1..N BY <1>1, <1>5, <2>2
    <3>2. q[x] # N + 1 BY <1>4, <3>1
    <3>3. CASE p[x] = N
      <4>1. reports[x] = cur /\ q[cur] = N + 1 BY <1>5, <3>1, <3>3
      <4> QED BY <1>1, <3>1, <3>2, <3>3, <4>1
    <3>4. CASE p[x] # N
      <4>1. reports[x] \in seen /\ p[reports[x]] = p[x] + 1 BY <1>5, <3>1, <3>4
      <4>2. q[reports[x]] = p[reports[x]] /\ reports[x] \in seen' BY <1>1, <4>1
      <4> QED BY <3>1, <3>2, <4>1, <4>2
    <3> QED BY <3>3, <3>4
  <2> QED BY <2>1, <2>2
<1> HIDE DEF q
<1>8. \E r \in [seen -> 1..Cardinality(seen)]' : Path(r)' BY <1>1, <1>4, <1>6, <1>7 DEF Path
<1>9. seen' \subseteq Seats /\ cur' \in Seats \cup {Top} BY <1>1, <1>2 DEF Known
<1>10. Known' /\ \A t : Ends(t)' <=> Ends(t) BY <1>1, <1>2, OrgFrame
<1>11. \A t \in Seats \ todo' : Ends(t) \/ t \in seen' BY <1>1 DEF OrgInv
<1>12. reports' \in [Seats -> Seats \cup {Top, Unknown}] /\ todo' \subseteq Seats /\ holds' \subseteq Seats
  BY <1>1 DEF OrgInv
<1> QED BY <1>1, <1>8, <1>9, <1>10, <1>11, <1>12 DEF OrgInv

\* The verdicts.
LEMMA ConcludeInv == ASSUME OrgInv, FindUnknown \/ Meet \/ Accept PROVE OrgInv'
<1>1. verdict = "checking" /\ UNCHANGED <<reports, holds, todo, cur, seen>>
  BY DEF FindUnknown, Meet, Accept, Conclude
<1>2. /\ Known' <=> Known
      /\ Cyclic' <=> Cyclic
      /\ \A s : Ends(s)' <=> Ends(s)
  BY <1>1, OrgFrame
<1>3. reports' \in [Seats -> Seats \cup {Top, Unknown}] /\ todo' \subseteq Seats /\ holds' \subseteq Seats
  BY <1>1 DEF OrgInv
<1>4. PICK p : Path(p) BY <1>1 DEF OrgInv
<1>5. Top \notin Seats BY HierarchyConstants
<1>6. CASE FindUnknown
  <2>1. verdict' = "unknown" BY <1>6 DEF FindUnknown, Conclude
  <2> QED BY <1>3, <2>1 DEF OrgInv
<1>7. CASE Meet
  <2>1. verdict' = "cycle" /\ cur # Top /\ cur \in seen BY <1>7 DEF Meet, Conclude
  <2>2. Known /\ seen \subseteq Seats BY <1>1, <2>1 DEF OrgInv
  <2>3. Cyclic BY <1>4, <2>1, <2>2, WalkMeets
  <2> QED BY <1>2, <1>3, <2>1, <2>2, <2>3 DEF OrgInv
<1>8. CASE Accept
  <2>1. verdict' = "valid" /\ cur = Top /\ todo = {} /\ Unknown \notin {reports[x] : x \in Seats}
    BY <1>8 DEF Accept, Conclude
  <2>2. Known BY <1>1, <2>1 DEF OrgInv, Known
  <2>3. \A s \in seen : Ends(s) BY <1>1, <1>4, <2>1, <2>2, WalkEnds DEF OrgInv
  <2>4. \A s \in Seats : Ends(s) BY <1>1, <1>5, <2>1, <2>3 DEF OrgInv
  <2> QED BY <1>2, <1>3, <2>1, <2>2, <2>4 DEF OrgInv
<1> QED BY <1>6, <1>7, <1>8

LEMMA OrgInvariance == HierarchySpec => []OrgInv
<1>1. ASSUME OrgInv, UNCHANGED orgVars PROVE OrgInv'
  <2>1. UNCHANGED <<reports, holds, todo, cur, seen, verdict>> BY <1>1 DEF orgVars
  <2>2. (Known' <=> Known) /\ (Cyclic' <=> Cyclic) /\ \A s : Ends(s)' <=> Ends(s) BY <2>1, OrgFrame
  <2>3. \A p : Path(p)' <=> Path(p) BY <2>1 DEF Path
  <2> QED BY <1>1, <2>1, <2>2, <2>3 DEF OrgInv
<1>2. ASSUME OrgInv, HierarchyNext PROVE OrgInv'
  BY <1>2, ConstructInv, NextSeatInv, ClimbInv, ConcludeInv DEF HierarchyNext, HierarchyStep
<1> QED BY <1>1, <1>2, OrgInit, PTL DEF HierarchySpec

\* OrgChart, escalation_chain, subordinates and delegate, for any finite set of seats: a chart
\* is refused for a circle only when it has one, and on a chart that is accepted work goes down
\* to the nearest holder below and to nobody else, and every escalation meets everybody above.
THEOREM OrgChartAlwaysHolds == HierarchySpec => []OrgChartHolds
<1>1. OrgInv => OrgChartHolds
  <2> SUFFICES ASSUME OrgInv PROVE OrgChartHolds OBVIOUS
  <2>1. verdict = "cycle" => Cyclic BY DEF OrgInv
  <2>2. ASSUME verdict = "valid"
        PROVE  /\ ~Cyclic
               /\ \A s \in Seats : \A t \in Seats : (\E n \in 1..Depth : s \in Below(t, n)) <=> s \in Subordinates(t)
    <3>1. Known /\ \A s \in Seats : Ends(s) BY <2>2 DEF OrgInv
    <3>2. ~Cyclic BY <3>1, ChainAbove DEF Cyclic
    <3>3. ASSUME NEW s \in Seats, NEW t \in Seats
          PROVE  (\E n \in 1..Depth : s \in Below(t, n)) <=> s \in Subordinates(t)
      <4> DEFINE c == EscalationChain(s)
      <4>1. /\ DOMAIN c \subseteq 1..Depth
            /\ \A n \in 1..Depth : s \in Below(t, n) <=> n \in DOMAIN c /\ c[n] = t
            /\ \A n \in 1..Depth : s \notin Below(s, n)
        BY <3>1, ChainAbove
      <4>2. s \in Subordinates(t) <=> s # t /\ \E n \in DOMAIN c : c[n] = t BY DEF Subordinates
      <4> HIDE DEF c
      <4> QED BY <4>1, <4>2
    <3> QED BY <3>2, <3>3
  <2>3. ASSUME verdict = "valid", NEW s \in Seats
        PROVE  LET d == Delegate(s)
               IN  IF d = Top THEN \A n \in 1..Depth : Below(s, n) \cap holds = {}
                   ELSE \E n \in 1..Depth : /\ d \in Below(s, n) \cap holds
                                            /\ \A m \in 1..(n - 1) : Below(s, m) \cap holds = {}
    BY <2>3, DelegateNearest DEF OrgInv
  <2> HIDE DEF OrgInv
  <2> QED BY <2>1, <2>2, <2>3 DEF OrgChartHolds, Cyclic, Depth
<1> QED BY <1>1, OrgInvariance, PTL
==============================================================================
