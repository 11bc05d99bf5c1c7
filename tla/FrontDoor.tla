------------------------------ MODULE FrontDoor ------------------------------
(***************************************************************************)
(* The front door: one inbound message through frontdoor/gateway.py (who   *)
(* is it, may he), the routing decision COC-1..5 of orchestrator.py with   *)
(* the live classifier and its retries, the folder loader.py finds, and    *)
(* the run.  Messages are handled one after another; folders come and go   *)
(* while one is handled.  The run itself is module PiAgent.                *)
(*                                                                         *)
(* The loader joins a root, the tenant and the name as it was written to a *)
(* path.  Nothing is assumed of the place that leads to: two names may     *)
(* lead to one, and the loader does not look whether it is in the root.    *)
(***************************************************************************)
EXTENDS Naturals, Sequences, FiniteSets

CONSTANTS
  Raws,         \* adapter payloads
  Verdicts,     \* what the classifier model may answer: [neop, conf], conf in hundredths
  Folders,      \* places that are deployed to and removed from
  Place(_, _, _), \* where the path joined of a root, a tenant (for "tenant" only) and a name leads
  Roots,        \* the roots handle was given; built-ins have a default
  Nows,         \* now_s of a message, in seconds, in any order
  PerMinute,    \* PER_SEAT_PER_MIN (60 in the code)
  Shared,       \* a rate limiter was passed to handle; without one each call makes its own
  MaxMessages   \* bound: messages

Raw == [token : BOOLEAN, hmac : BOOLEAN, complete : BOOLEAN, scoped : BOOLEAN,
        tenant : STRING, who : STRING, mentions : Seq(STRING), at : Seq(STRING), intent : BOOLEAN]
Chains == {"recon+echo"}   \* names with a plus

ASSUME FrontDoorConstants ==
  /\ Raws \subseteq Raw /\ "builtin" \in Roots /\ Roots \subseteq {"tenant", "builtin", "operator"}
  /\ Verdicts \subseteq [neop : STRING, conf : 0..100]
  /\ Nows \subseteq Nat /\ {PerMinute, MaxMessages} \subseteq Nat /\ Shared \in BOOLEAN

VARIABLES
  minute,     \* _minute: [<<tenant, requester, minute>> -> count]
  installed,  \* folders with a neop.md
  req,        \* the message being handled
  answers,    \* responses given: how many, and the last
  \* history
  admitted,   \* [<<tenant, requester, minute>> -> messages that passed the limiter]
  search      \* the last message's ended search, if any: {[tenant, neop, found, stood]}, found a
              \* root or "none", stood the folders that were there all through it

doorVars == <<minute, installed, req, answers, admitted, search>>

Keys == {<<r.tenant, r.who, now \div 60>> : r \in Raws, now \in Nows}
NoReq == [pc |-> "idle"]

FrontDoorInit ==
  /\ minute = [k \in Keys |-> 0] /\ installed = {} /\ req = NoReq /\ answers = [given |-> 0, last |-> "none"]
  /\ admitted = minute /\ search = {}

-----------------------------------------------------------------------------
\* _direct_mention: the first mentioned actor of the payload, else the first @token of the
\* text.  Only a leading @ is cut off: a Matrix id keeps its server.
DirectMention(raw) ==
  IF raw.mentions # <<>> THEN Head(raw.mentions) ELSE IF raw.at # <<>> THEN Head(raw.at) ELSE "none"

CONF_GATE == 70

\* route, given the answer of the classifier.
Route(raw, verdict) ==
  IF DirectMention(raw) # "none" THEN [action |-> "dispatch", neop |-> DirectMention(raw)]
  ELSE IF verdict.conf < CONF_GATE THEN [action |-> "disambiguate", neop |-> "none"]
  ELSE IF verdict.neop \in Chains /\ ~raw.intent THEN [action |-> "refuse", neop |-> verdict.neop]
  ELSE [action |-> "dispatch", neop |-> verdict.neop]

\* Mutant: the built-in before the tenant's override.
CandidatesBuiltinFirst == <<"builtin", "tenant", "operator">>

\* The candidates of resolve, in its order; a root that was not given is passed over.
Candidates == <<"tenant", "builtin", "operator">>

\* Mutant: the limit is compared with the count before this message.
CheckRateBefore(k, m) == [count |-> m[k] + 1, over |-> m[k] > PerMinute]

\* RateLimiter.check: a message counts, over the limit or not.  The second test, of runs in
\* progress, always passes: nobody calls enter.
CheckRate(k, m) == [count |-> m[k] + 1, over |-> m[k] + 1 > PerMinute]

Respond(type) == /\ answers' = [given |-> answers.given + 1, last |-> type]
                 /\ req' = NoReq

-----------------------------------------------------------------------------
\* authenticate, normalize, resolve_identity and the rate limit, up to the classifier.
Receive(raw, now) ==
  /\ req.pc = "idle" /\ answers.given < MaxMessages
  /\ LET k == <<raw.tenant, raw.who, now \div 60>>
         rate == CheckRate(k, IF Shared THEN minute ELSE [key \in Keys |-> 0])
     IN  IF ~(raw.token /\ raw.hmac) THEN Respond("unauthenticated") /\ UNCHANGED <<minute, admitted>>
         ELSE IF ~(raw.complete /\ raw.scoped) THEN Respond("malformed") /\ UNCHANGED <<minute, admitted>>
         ELSE /\ minute' = IF Shared THEN [minute EXCEPT ![k] = rate.count] ELSE minute
              /\ IF rate.over THEN Respond("limited") /\ UNCHANGED admitted
                 ELSE /\ req' = [pc |-> IF DirectMention(raw) = "none" THEN "classify" ELSE "resolve",
                                 raw |-> raw, tries |-> 0, neop |-> DirectMention(raw),
                                 next |-> 1, stood |-> installed]
                      /\ admitted' = [admitted EXCEPT ![k] = @ + 1]
                      /\ UNCHANGED answers
  /\ search' = {} /\ UNCHANGED installed

\* The model answers: parsed, and routed.
Classified(verdict) ==
  /\ req.pc = "classify"
  /\ LET decision == Route(req.raw, verdict)
     IN  IF decision.action = "dispatch"
         THEN /\ req' = [req EXCEPT !.pc = "resolve", !.neop = decision.neop, !.stood = installed]
              /\ UNCHANGED answers
         ELSE Respond(decision.action)
  /\ UNCHANGED <<minute, installed, admitted, search>>

\* Mutant: an overloaded model is asked until it answers.
OverloadedAgain ==
  /\ req.pc = "classify"
  /\ req' = [req EXCEPT !.tries = 1 - @]
  /\ UNCHANGED <<minute, installed, answers, admitted, search>>

\* 429 or 503: asked again after 1, 2 and 4 seconds, then the error is raised.
Overloaded ==
  /\ req.pc = "classify"
  /\ IF req.tries < 3 THEN req' = [req EXCEPT !.tries = @ + 1] /\ UNCHANGED answers
     ELSE Respond("classifier_error")
  /\ UNCHANGED <<minute, installed, admitted, search>>

\* No key, another HTTP error, an empty or unparseable answer.
ClassifierFails ==
  /\ req.pc = "classify"
  /\ Respond("classifier_error")
  /\ UNCHANGED <<minute, installed, admitted, search>>

\* resolve, one candidate: is its neop.md there now?
Found == Candidates[req.next] \in Roots /\ Place(Candidates[req.next], req.raw.tenant, req.neop) \in installed
Decide(root) == search' = {[tenant |-> req.raw.tenant, neop |-> req.neop, found |-> root,
                             stood |-> req.stood]}
TestFolder ==
  /\ req.pc = "resolve"
  /\ IF Found THEN /\ Decide(Candidates[req.next])
                   /\ req' = [req EXCEPT !.pc = "start"] /\ UNCHANGED answers
     ELSE IF req.next < Len(Candidates) THEN req' = [req EXCEPT !.next = @ + 1] /\ UNCHANGED <<answers, search>>
     ELSE Decide("none") /\ Respond("not_found")
  /\ UNCHANGED <<minute, installed, admitted>>

\* dispatch loads the folder that was found.  It may be gone by now: the run is REJECTED
\* without an engine, and the message is answered with that like with any other state.
Start ==
  /\ req.pc = "start"
  /\ IF Found THEN req' = [req EXCEPT !.pc = "run"] /\ UNCHANGED answers ELSE Respond("response")
  /\ UNCHANGED <<minute, installed, admitted, search>>

\* The run returns, in whatever state, or raises.
RunReturns(raised) ==
  /\ req.pc = "run"
  /\ Respond(IF raised THEN "raised" ELSE "response")
  /\ UNCHANGED <<minute, installed, admitted, search>>

\* A folder is deployed or removed.
ChangeFolder(f) ==
  /\ installed' = IF f \in installed THEN installed \ {f} ELSE installed \cup {f}
  /\ req' = IF req.pc = "resolve" THEN [req EXCEPT !.stood = @ \ {f}] ELSE req
  /\ UNCHANGED <<minute, answers, admitted, search>>

HandleStep == (\E v \in Verdicts : Classified(v)) \/ Overloaded \/ ClassifierFails \/ TestFolder \/ Start
              \/ \E raised \in BOOLEAN : RunReturns(raised)

FrontDoorNext ==
  \/ \E raw \in Raws, now \in Nows : Receive(raw, now)
  \/ HandleStep
  \/ \E f \in Folders : ChangeFolder(f)

FrontDoorSpec == FrontDoorInit /\ [][FrontDoorNext]_doorVars

-----------------------------------------------------------------------------
(* Properties. *)

\* GW-3: of the messages of one human in one minute no more than the limit go on to the
\* classifier, whatever the order of their clocks and however many were refused.
RateKept == Shared => \A k \in Keys : admitted[k] <= PerMinute

\* First match wins, and a tenant overrides any built-in, although folders come and go
\* between the loader's tests: no candidate that was there all through a search loses to a
\* later one, or to no answer at all.  (One that came or went during the search may.)
Overrides(root, found) == \/ found = "none"
                          \/ root = "tenant" /\ found # "tenant"
                          \/ root = "builtin" /\ found = "operator"
StandingFolderWins ==
  \A s \in search : \A root \in Roots :
    Overrides(root, s.found) => Place(root, s.tenant, s.neop) \notin s.stood

\* Every message gets its answer: the classifier is not asked for ever, and handling ends.
Handling == req.pc # "idle"
==============================================================================
