------------------------------- MODULE AuditSale -------------------------------
(***************************************************************************)
(* Selling /audit (app.py): _AuditGate refuses what KYA could not deliver, *)
(* then the x402 middleware takes the payment, then the route assesses the *)
(* agent and signs the verdict.  Gate and route read the request, resolve  *)
(* names and fetch the agent independently of one another, over the shared *)
(* state of Upstream, each in a thread pool worker of its own.             *)
(*                                                                         *)
(* The payment is external: OKX's facilitator verifies it between gate and *)
(* route, and "by the time we run, payment is real and settled"            *)
(* (app.py:370-371).                                                       *)
(***************************************************************************)
EXTENDS Upstream

CONSTANTS
  Requests,     \* the requests buyers send, a subset of AllRequests
  Blocked,      \* agents whose primary endpoint guard_url() refuses
  NoRequest

(* What a request says about the agent to audit, and where: the query      *)
(* string, the JSON body, each with an id, a name or nothing; "bad" is an  *)
(* id that is not numeric.  All that is named is agent .agent.             *)
AllRequests == [method : {"GET", "POST"}, query : {"none", "id", "name", "bad"},
                body : {"none", "id", "name", "bad"}, agent : Agents]

ASSUME RequestsAssumption == Requests \subseteq AllRequests /\ NoRequest \notin AllRequests

ASSUME BlockedAssumption == Blocked \subseteq Agents

VARIABLES
  pc,         \* where each buyer's request stands
  request,    \* the request, NoRequest when there is none
  paid,       \* buyers whose payment for the current request settled
  outcome,    \* the HTTP status of the last answer, 0 before it, or Dropped
  basis,      \* what gate and route were told when they fetched the agent
  delisted    \* history: buyers whose agent left the marketplace meanwhile

buyerVars == <<pc, request, paid, outcome, basis, delisted>>

vars == <<upstreamVars, buyerVars>>

Buyers == Threads

(* What a buyer sees whose connection a redeploy cut: no HTTP status.      *)
Dropped == 1

Statuses == {0, Dropped, 200, 400, 402, 404, 500, 502, 503}

Stages == {"idle", "gate_probe", "gate_probed", "gate_parse", "gate_resolve", "gate_resolved",
           "gate_fetch", "gate_fetched", "pay", "route_parse", "route_resolve",
           "route_resolved", "route_fetch", "route_fetched"}

BuyerTypeOK ==
  /\ pc \in [Buyers -> Stages]
  /\ request \in [Buyers -> Requests \cup {NoRequest}]
  /\ paid \subseteq Buyers
  /\ outcome \in [Buyers -> Statuses]
  /\ basis \in [Buyers -> [gate : Kinds, route : Kinds]]
  /\ delisted \subseteq Buyers

TypeOK == UpstreamTypeOK /\ BuyerTypeOK

Unread == [gate |-> "none", route |-> "none"]

Init ==
  /\ UpstreamInit
  /\ pc = [b \in Buyers |-> "idle"]
  /\ request = [b \in Buyers |-> NoRequest]
  /\ paid = {}
  /\ outcome = [b \in Buyers |-> 0]
  /\ basis = [b \in Buyers |-> Unread]
  /\ delisted = {}

-----------------------------------------------------------------------------
(* How a handler of buyer b moves on.                                      *)

Goto(b, stage) ==
  /\ pc' = [pc EXCEPT ![b] = stage]
  /\ UNCHANGED <<request, paid, outcome, basis, delisted>>

Respond(b, status) ==
  /\ pc' = [pc EXCEPT ![b] = "idle"]
  /\ outcome' = [outcome EXCEPT ![b] = status]
  /\ UNCHANGED <<request, paid, basis, delisted>>

Told(b) == answer[b]

Waiting(b) == call[b] # NoCall

(* Which identifier a handler ends up with: query first, then the body.    *)
(* The gate reads the body of any method and takes a name from it; the     *)
(* route reads the body of a POST only and takes only an id.               *)
GateReads(r) == IF r.query # "none" THEN r.query ELSE r.body

RouteReads(r) ==
  IF r.query # "none" THEN r.query
  ELSE IF r.method = "POST" /\ r.body # "name" THEN r.body ELSE "none"

-----------------------------------------------------------------------------
(* A buyer, or one that was answered 402 before, sends a request.          *)
Ask(b, r) ==
  /\ pc[b] = "idle"
  /\ pc' = [pc EXCEPT ![b] = "gate_probe"]
  /\ request' = [request EXCEPT ![b] = r]
  /\ paid' = paid \ {b}
  /\ outcome' = [outcome EXCEPT ![b] = 0]
  /\ basis' = [basis EXCEPT ![b] = Unread]
  /\ delisted' = delisted \ {b}
  /\ answer' = [answer EXCEPT ![b] = "none"]
  /\ UNCHANGED <<up, listed, cache_age, last_good, session_ok, probe_age, call>>

(* if not probe_upstream(): 503                                            *)
GateProbe(b) ==
  /\ pc[b] = "gate_probe"
  /\ ProbeCached(b) \/ ProbeStart(b)
  /\ Goto(b, "gate_probed")

(* Mutant of GateProbed: a dead upstream refuses nobody.                   *)
GateProbedRegardless(b) ==
  /\ pc[b] = "gate_probed" /\ ~Waiting(b)
  /\ Goto(b, "gate_parse")
  /\ UNCHANGED upstreamVars

GateProbed(b) ==
  /\ pc[b] = "gate_probed" /\ ~Waiting(b)
  /\ IF Told(b) = "alive" THEN Goto(b, "gate_parse") ELSE Respond(b, 503)
  /\ UNCHANGED upstreamVars

(* missing_agent and bad_agent_id are refused here: 400                    *)
GateParse(b) ==
  /\ pc[b] = "gate_parse"
  /\ CASE GateReads(request[b]) \in {"none", "bad"} -> Respond(b, 400)
       [] GateReads(request[b]) = "id" -> Goto(b, "gate_fetch")
       [] GateReads(request[b]) = "name" -> Goto(b, "gate_resolve")
  /\ UNCHANGED upstreamVars

GateResolve(b) ==
  /\ pc[b] = "gate_resolve"
  /\ SearchStart(b, request[b].agent)
  /\ Goto(b, "gate_resolved")

(* The handler of a RuntimeError in the gate also clears session_ok.       *)
GateRefuse503(b) ==
  /\ session_ok' = FALSE
  /\ Respond(b, 503)
  /\ UNCHANGED <<up, listed, cache_age, last_good, probe_age, call, answer>>

(* Mutant of GateResolved: the failed search is left unanswered.           *)
GateResolvedOrStuck(b) ==
  /\ pc[b] = "gate_resolved" /\ ~Waiting(b)
  /\ \/ Told(b) = "id" /\ Goto(b, "gate_fetch")
     \/ Told(b) = "notfound" /\ Respond(b, 404)
  /\ UNCHANGED upstreamVars

GateResolved(b) ==
  /\ pc[b] = "gate_resolved" /\ ~Waiting(b)
  /\ \/ Told(b) = "id" /\ Goto(b, "gate_fetch") /\ UNCHANGED upstreamVars
     \/ Told(b) = "notfound" /\ Respond(b, 404) /\ UNCHANGED upstreamVars
     \/ Told(b) = "error" /\ GateRefuse503(b)

GateFetch(b) ==
  /\ pc[b] = "gate_fetch"
  /\ FetchCached(b, request[b].agent) \/ FetchStart(b, request[b].agent)
  /\ Goto(b, "gate_fetched")

GatePass(b) ==
  /\ Told(b) \in {"record", "cached", "fallback"}
  /\ pc' = [pc EXCEPT ![b] = "pay"]
  /\ basis' = [basis EXCEPT ![b].gate = Told(b)]
  /\ UNCHANGED <<request, paid, outcome, delisted>>
  /\ UNCHANGED upstreamVars

GateFetched(b) ==
  /\ pc[b] = "gate_fetched" /\ ~Waiting(b)
  /\ \/ GatePass(b)
     \/ Told(b) = "notfound" /\ Respond(b, 404) /\ UNCHANGED upstreamVars
     \/ Told(b) = "error" /\ GateRefuse503(b)

-----------------------------------------------------------------------------
(* External: the x402 middleware asks for a payment, or accepts one.       *)

AskPayment(b) ==
  /\ pc[b] = "pay"
  /\ Respond(b, 402)
  /\ UNCHANGED upstreamVars

Settle(b) ==
  /\ pc[b] = "pay"
  /\ pc' = [pc EXCEPT ![b] = "route_parse"]
  /\ paid' = paid \cup {b}
  /\ UNCHANGED <<request, outcome, basis, delisted>>
  /\ UNCHANGED upstreamVars

-----------------------------------------------------------------------------
(* audit(): _verdict_for(_resolve(aid, nm)), signed and served.            *)

RouteParse(b) ==
  /\ pc[b] = "route_parse"
  /\ CASE RouteReads(request[b]) \in {"none", "bad"} -> Respond(b, 400)
       [] RouteReads(request[b]) = "id" -> Goto(b, "route_fetch")
       [] RouteReads(request[b]) = "name" -> Goto(b, "route_resolve")
  /\ UNCHANGED upstreamVars

RouteResolve(b) ==
  /\ pc[b] = "route_resolve"
  /\ SearchStart(b, request[b].agent)
  /\ Goto(b, "route_resolved")

(* _resolve() runs outside the try of _verdict_for(): its RuntimeError is  *)
(* nobody's, and FastAPI answers 500.                                      *)
RouteResolved(b) ==
  /\ pc[b] = "route_resolved" /\ ~Waiting(b)
  /\ \/ Told(b) = "id" /\ Goto(b, "route_fetch")
     \/ Told(b) = "notfound" /\ Respond(b, 404)
     \/ Told(b) = "error" /\ Respond(b, 500)
  /\ UNCHANGED upstreamVars

RouteFetch(b) ==
  /\ pc[b] = "route_fetch"
  /\ FetchCached(b, request[b].agent) \/ FetchStart(b, request[b].agent)
  /\ Goto(b, "route_fetched")

(* The agent is read; how the rest of the route ends.                      *)
RouteAnswers(b, status) ==
  /\ Told(b) \in {"record", "cached", "fallback"}
  /\ pc' = [pc EXCEPT ![b] = "idle"]
  /\ outcome' = [outcome EXCEPT ![b] = status]
  /\ basis' = [basis EXCEPT ![b].route = Told(b)]
  /\ UNCHANGED <<request, paid, delisted>>

(* assess(), the signature and full_audit() end well, unless the agent's   *)
(* primary endpoint is one fetch_identity() lets BlockedTarget out for.    *)
RouteServe(b) == request[b].agent \notin Blocked /\ RouteAnswers(b, 200)

(* They also open the store nine times, and probe endpoints that answer as *)
(* they like.  A locked database, a redirect that cannot be parsed and a   *)
(* refused endpoint are neither AgentNotFound nor RuntimeError: nothing    *)
(* catches them, for any agent.                                            *)
RouteRaises(b) == RouteAnswers(b, 500)

RouteFetched(b) ==
  /\ pc[b] = "route_fetched" /\ ~Waiting(b)
  /\ \/ RouteServe(b)
     \/ RouteRaises(b)
     \/ Told(b) = "notfound" /\ Respond(b, 404)
     \/ Told(b) = "error" /\ Respond(b, 502)
  /\ UNCHANGED upstreamVars

-----------------------------------------------------------------------------
(* A subprocess a handler waits for is answered and read.                  *)
Resume(b) ==
  /\ Reply(b) \/ ProbeReturn(b) \/ FetchReturn(b) \/ SearchReturn(b)
  /\ UNCHANGED buyerVars

Handle(b) ==
  \/ GateProbe(b) \/ GateProbed(b) \/ GateParse(b)
  \/ GateResolve(b) \/ GateResolved(b) \/ GateFetch(b) \/ GateFetched(b)
  \/ AskPayment(b) \/ Settle(b)
  \/ RouteParse(b) \/ RouteResolve(b) \/ RouteResolved(b)
  \/ RouteFetch(b) \/ RouteFetched(b)
  \/ Resume(b)

Relist(a) ==
  /\ ListOrDelist(a)
  /\ delisted' = delisted \cup {b \in Buyers : /\ a \in listed /\ pc[b] # "idle"
                                               /\ request[b].agent = a}
  /\ UNCHANGED <<pc, request, paid, outcome, basis>>

World == (UpOrDown \/ Tick) /\ UNCHANGED buyerVars

(* A redeploy drops every connection: the buyers in flight get no answer.  *)
Redeploy ==
  /\ Restart
  /\ pc' = [b \in Buyers |-> "idle"]
  /\ outcome' = [b \in Buyers |-> IF pc[b] = "idle" THEN outcome[b] ELSE Dropped]
  /\ UNCHANGED <<request, paid, basis, delisted>>

Next ==
  \/ \E b \in Buyers : Handle(b) \/ \E r \in Requests : Ask(b, r)
  \/ \E a \in Agents : Relist(a)
  \/ World
  \/ Redeploy

Spec == Init /\ [][Next]_vars

(* Handlers run to their end and time passes; nobody has to ask.           *)
Fairness ==
  /\ WF_vars(Tick /\ UNCHANGED buyerVars)
  /\ \A b \in Buyers : WF_vars(Handle(b))

LiveSpec == Spec /\ Fairness

-----------------------------------------------------------------------------
Served(b, status) == pc[b] = "idle" /\ outcome[b] = status

(* Whatever happens between payment and verdict, the ways to pay and get   *)
(* no verdict are these five.  A redeploy cut the connection; gate and     *)
(* route read different identifiers out of the request; the agent left     *)
(* meanwhile, or had left and the gate let it pass from memory; the route  *)
(* searched for a name once more; or the agent was read and KYA's own      *)
(* assessment raised.  In particular an id the gate saw is never answered  *)
(* 502, nor 500 before it was read again, for an upstream that failed      *)
(* (app.py:54-59,118-120,155-163,384, data.py:113-117).                    *)
PaidLossIsExplained ==
  \A b \in paid : pc[b] = "idle" /\ outcome[b] # 200 =>
    LET r == request[b]
    IN  \/ outcome[b] = Dropped
        \/ outcome[b] = 400 /\ GateReads(r) # RouteReads(r)
        \/ outcome[b] = 404 /\ (b \in delisted \/ basis[b].gate # "record")
        \/ outcome[b] = 500 /\ (RouteReads(r) = "name" \/ basis[b].route # "none")

(* Every request is answered, or dropped by a redeploy: no stage of gate or *)
(* route waits for ever (data.py:84, the 30 s subprocess timeout).          *)
EveryRequestEnds == \A b \in Buyers : pc[b] # "idle" ~> pc[b] = "idle"

(* A marketplace that stays down is eventually not sold from, with nobody   *)
(* polling /health: the buyers' own requests withdraw the sale              *)
(* (app.py:88-97, data.py:53-69).                                           *)
SaleIsWithdrawn == <>[](~up) => <>[](\A b \in Buyers : pc[b] # "pay")

(* tests/test_upstream_degrade.py:1: "Upstream dead must never mean 'buyer  *)
(* pays, gets nothing'": no 500 for want of a reading of the marketplace.   *)
PaidIsServed == \A b \in paid : Served(b, 500) => basis[b].route # "none"
=============================================================================
