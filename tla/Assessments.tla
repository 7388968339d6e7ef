----------------------------- MODULE Assessments -----------------------------
(***************************************************************************)
(* What the engine says of one agent as the evidence on it changes.        *)
(* Between two assessments one source of verify.assess() has something new *)
(* to report; every other source reports what it did.  The verdict is a    *)
(* function of the evidence, so its history is that of the evidence.       *)
(***************************************************************************)
EXTENDS Engine, FiniteSets

CONSTANTS
  Starts,        \* evidence on the agents the runs begin with
  Fees,          \* prices a service may be listed at
  SalesCounts,   \* how far sales get between two assessments
  Ratings,       \* security ratings
  Settlements,   \* what the on-chain reader may find
  OtherAgents,   \* what else the owner's wallet may be known to run
  MaxChanges     \* bound: changes of evidence

VARIABLES evidence, changes

vars == <<evidence, changes>>

ProbeResults == {"x402", "api", "broken", "timeout", "refused", "blocked"}

Service == [fee : Nat, endpoint : Endpoints \cup {NoEndpoint}]

OnChain == [tx : Nat, payers : Nat, top1 : 0..100, identical : 0..100, volume : Nat]

Fleet == [known : Nat, sales : Nat, templated : Nat]

Reviews == {r \in [rated : 0..30, positive : 0..30, reviewers : 0..30, distinct : 0..30,
                   own : BOOLEAN] :
              r.positive <= r.rated /\ r.distinct <= r.reviewers}

NoReviews == [rated |-> 0, positive |-> 0, reviewers |-> 0, distinct |-> 0, own |-> FALSE]

Evidence ==
  [isAsp : BOOLEAN, services : SUBSET Service, probes : [Endpoints -> ProbeResults],
   flapping : BOOLEAN, slow : BOOLEAN,
   approval : {Absent} \cup Nat, online : {Absent} \cup Nat, status : {Absent} \cup Nat,
   sales : {Absent} \cup Nat, security : {Absent} \cup 0..500,
   described : BOOLEAN, test_named : BOOLEAN, reviews : Reviews,
   settlement : {Absent} \cup OnChain, content : {"clean", "warn", "critical"},
   malicious : BOOLEAN, domain : {"absent", "match", "mismatch"}, payto : BOOLEAN,
   age : {Absent} \cup Nat, fleet : {Absent} \cup Fleet]

ASSUME AbsentAssumption == Absent \notin Nat

ASSUME StartsAssumption == Starts \subseteq Evidence

ASSUME SourcesAssumption ==
  /\ Fees \subseteq Nat
  /\ SalesCounts \subseteq Nat
  /\ Ratings \subseteq 0..500
  /\ Settlements \subseteq OnChain
  /\ OtherAgents \subseteq Fleet

ASSUME MaxChangesAssumption == MaxChanges \in Nat

Init == evidence \in Starts /\ changes = 0

-----------------------------------------------------------------------------
(* The sources, in the order assess() asks them.                           *)

Reports(field, value) ==
  /\ value # evidence[field]
  /\ evidence' = [evidence EXCEPT ![field] = value]

(* fetch_agent(): the listing.                                             *)
ListingEdited ==
  \/ \E a \in {Absent, 2, 4} : Reports("approval", a)
  \/ \E o \in {Absent, 0, 1} : Reports("online", o)
  \/ \E s \in {Absent, 0, 1} : Reports("status", s)
  \/ \E b \in BOOLEAN :
       Reports("isAsp", b) \/ Reports("described", b) \/ Reports("test_named", b)

Rated == \E r \in Ratings \cup {Absent} : Reports("security", r)

(* The agent's own sales are part of its fleet's: store.record_owner() runs *)
(* before store.fleet_for().                                               *)
OwnedWith(others, sold) ==
  IF others = Absent THEN Absent
  ELSE [others EXCEPT !.known = @ + 1, !.sales = @ + sold]

SoldMore(fleet, more) == IF fleet = Absent THEN Absent ELSE [fleet EXCEPT !.sales = @ + more]

SalesGrow ==
  \E n \in SalesCounts :
    /\ n > Sales(evidence)
    /\ evidence' = [evidence EXCEPT !.sales = n, !.fleet = SoldMore(@, n - Sales(evidence))]

ServiceListed ==
  \E f \in Fees, u \in Endpoints \cup {NoEndpoint} :
    Reports("services", evidence.services \cup {[fee |-> f, endpoint |-> u]})

(* With no endpoint left there is nothing to scan or to identify.          *)
Unhosted(e) ==
  IF Urls(e) # {} THEN e
  ELSE [e EXCEPT !.malicious = FALSE, !.domain = "absent", !.payto = FALSE, !.age = Absent]

ServiceDelisted ==
  \E s \in evidence.services :
    evidence' = Unhosted([evidence EXCEPT !.services = @ \ {s}])

(* probe_endpoints() and the history store.uptime() keeps of it.           *)
Probed ==
  \E u \in Urls(evidence), k \in ProbeResults :
    Reports("probes", [evidence.probes EXCEPT ![u] = k])

HistoryRead == \E b \in BOOLEAN : Reports("flapping", b) \/ Reports("slow", b)

(* scan_malicious(), scan_injection().                                     *)
Scanned ==
  \/ Urls(evidence) # {} /\ \E b \in BOOLEAN : Reports("malicious", b)
  \/ \E c \in {"clean", "warn", "critical"} : Reports("content", c)

(* fetch_feedback(): another review, by a new reviewer, a known one or the *)
(* agent itself.                                                           *)
Reviewed ==
  \E good \in BOOLEAN, by \in {"new", "known", "own"} :
    LET r == evidence.reviews
        seen == by = "known" \/ (by = "own" /\ r.own)
    IN  /\ by = "known" => r.reviewers > 0
        /\ r.rated < 30 /\ r.reviewers < 30
        /\ Reports("reviews", [rated     |-> r.rated + 1,
                               positive  |-> r.positive + Part(good, 1),
                               reviewers |-> r.reviewers + 1,
                               distinct  |-> r.distinct + Part(~seen, 1),
                               own       |-> r.own \/ by = "own"])

(* fetch_identity(), fetch_domain_intel().                                 *)
Identified ==
  /\ Urls(evidence) # {}
  /\ \/ \E d \in {"absent", "match", "mismatch"} : Reports("domain", d)
     \/ \E b \in BOOLEAN : Reports("payto", b)
     \/ \E d \in {Absent, 6, 7, 29, 30} : Reports("age", d)

(* store.fleet_for(), settlement.fetch_settlements().                      *)
OwnerIndexed ==
  \E o \in OtherAgents \cup {Absent} : Reports("fleet", OwnedWith(o, Sales(evidence)))

SettlementsRead == \E s \in Settlements \cup {Absent} : Reports("settlement", s)

Next ==
  /\ changes < MaxChanges
  /\ changes' = changes + 1
  /\ \/ ListingEdited \/ Rated \/ SalesGrow
     \/ ServiceListed \/ ServiceDelisted
     \/ Probed \/ HistoryRead
     \/ Scanned \/ Reviewed \/ Identified
     \/ OwnerIndexed \/ SettlementsRead

Spec == Init /\ [][Next]_vars

-----------------------------------------------------------------------------
TypeOK ==
  /\ evidence \in Evidence
  /\ Score(evidence) \in 0..100
  /\ MaxSafe(evidence) \in Nat
  /\ changes \in 0..MaxChanges

(* Ten paid sales at least, and either half a dollar settled or a count    *)
(* too costly to fake (engine.py:276-304).                                 *)
Earned(e) ==
  /\ Sales(e) >= 10
  /\ PaidFees(e) # {}
  /\ Volume(e) >= 500 \/ Sales(e) >= 100

Clean(e) ==
  /\ ~e.malicious /\ e.content = "clean"
  /\ ~e.flapping \/ Urls(e) = {}
  /\ e.domain # "mismatch" /\ ~e.reviews.own
  /\ e.age = Absent \/ e.age >= 30
  /\ e.settlement = Absent \/ ~Washed(e.settlement)
  /\ ClusterRisk(e) # "high"

(* guide.py:74: SAFE means "Proven by settled volume, live, clean", however *)
(* many good signals pile up.  (A history of flapping counts only where    *)
(* there is an endpoint it is about.)                                       *)
SafeIsEarned ==
  Verdict(evidence) = "SAFE" =>
    /\ Earned(evidence)
    /\ Healthy(evidence) = Urls(evidence)
    /\ Clean(evidence)

HardFailure(e) ==
  \/ Found(e, {"blocked"}) # {}
  \/ Urls(e) # {} /\ Found(e, {"refused", "timeout"}) = Urls(e) /\ Found(e, {"refused"}) # {}
  \/ e.status \notin {Absent, 1}
  \/ e.malicious \/ e.content = "critical"
  \/ e.domain = "mismatch" \/ e.reviews.own
  \/ e.test_named /\ Sales(e) = 0
  \/ e.settlement # Absent /\ e.settlement.tx > 0 /\ Washed(e.settlement)

(* guide.py:71-72: "One hard failure overrides a pile of good signals": it  *)
(* blocks the agent and takes all its credit, whatever it has settled; the  *)
(* score and the ceiling "must never disagree" (engine.py:752).             *)
HardFailureBlocks ==
  HardFailure(evidence) => Verdict(evidence) = "BLOCK" /\ MaxSafe(evidence) = 0

Rank(verdict) == CASE verdict = "SAFE" -> 2 [] verdict = "CAUTION" -> 1 [] OTHER -> 0

(* Bad news: one source that had judged the agent has worse to say of it,  *)
(* of the services it went on listing.                                     *)

(* A server error and no answer at all are not told apart: the engine takes *)
(* silence for the better sign of the two (engine.py:198-210).              *)
Standing(probe) ==
  CASE probe = "x402"                  -> 4
    [] probe = "api"                   -> 3
    [] probe \in {"broken", "timeout"} -> 2
    [] probe = "refused"               -> 1
    [] probe = "blocked"               -> 0

WorseProbe(old, new) ==
  \E u \in Urls(old) : Standing(new.probes[u]) < Standing(old.probes[u])

WorseListing(old, new) ==
  \/ old.isAsp /\ ~new.isAsp
  \/ old.approval = 4 /\ new.approval = 2
  \/ old.online # 0 /\ new.online = 0
  \/ old.status # 0 /\ new.status = 0
  \/ old.described /\ ~new.described
  \/ ~old.test_named /\ new.test_named

(* With no sale a rating that falls below 4.50 also sheds the suspicion of *)
(* being too good, which weighs a whole star (engine.py:308,515): a fall    *)
(* counts where that signal stays.                                          *)
WorseRating(old, new) ==
  /\ old.security # Absent /\ new.security # Absent /\ new.security < old.security
  /\ AnomalyRating(new) = AnomalyRating(old)

(* A bad review counts where its author is known, a new author makes a ring *)
(* of reviewers look less like one; a review by the agent itself counts     *)
(* whatever it says.                                                        *)
WorseReviews(old, new) ==
  \/ /\ new.reviews.rated > old.reviews.rated
     /\ new.reviews.positive = old.reviews.positive
     /\ new.reviews.distinct = old.reviews.distinct
  \/ new.reviews.own /\ ~old.reviews.own

WorseIdentity(old, new) ==
  \/ old.domain # new.domain /\ (old.domain = "match" \/ new.domain = "mismatch")
  \/ old.payto /\ ~new.payto
  \/ new.age # Absent /\ (old.age = Absent \/ new.age < old.age)

WorseScan(old, new) ==
  \/ new.malicious /\ ~old.malicious
  \/ old.content # new.content /\ (old.content = "clean" \/ new.content = "critical")
  \/ new.flapping /\ ~old.flapping
  \/ new.slow /\ ~old.slow

WorseFleet(old, new) ==
  /\ new.fleet # Absent
  /\ \/ old.fleet = Absent
     \/ /\ new.fleet # old.fleet
        /\ new.fleet.known >= old.fleet.known /\ new.fleet.templated >= old.fleet.templated
        /\ new.fleet.sales <= old.fleet.sales

(* An organic book that shrinks counts where the volume it leaves is no     *)
(* larger.  It may be larger: with nothing on chain any more the volume is  *)
(* sales times fee again, whatever little was measured (engine.py:628-637). *)
WorseSettlement(old, new) ==
  /\ new.settlement # old.settlement /\ new.settlement # Absent
  /\ \/ new.settlement.tx > 0 /\ Washed(new.settlement)
     \/ old.settlement = Absent /\ new.settlement.tx = 0
     \/ /\ old.settlement # Absent /\ ~Washed(old.settlement)
        /\ Volume(new) <= Volume(old)

BadNews(old, new) ==
  /\ new.services = old.services
  /\ \/ WorseProbe(old, new) \/ WorseScan(old, new)
     \/ WorseListing(old, new) \/ WorseIdentity(old, new)
     \/ WorseRating(old, new) \/ WorseReviews(old, new)
     \/ WorseFleet(old, new) \/ WorseSettlement(old, new)

(* Bad news does not improve the verdict nor raise the ceiling, whichever   *)
(* caps, deltas and volume basis it switches between (engine.py:544-550,    *)
(* 598-660): tighter caps never let a lost penalty through.  Four turns for *)
(* the worse are no bad news in this sense, since the engine may reward     *)
(* them: a server error that becomes silence, a rating that falls below     *)
(* 4.50 with no sale made, a bad review by a new author of a ring, and a    *)
(* measured book that vanishes and leaves a larger floor.  Nor is a first   *)
(* rating or approval, however low: to have one raises the confidence.      *)
BadNewsNeverHelps ==
  [][BadNews(evidence, evidence') =>
       /\ Rank(Verdict(evidence')) <= Rank(Verdict(evidence))
       /\ MaxSafe(evidence') <= MaxSafe(evidence)]_vars

(* Selling more never costs an agent that charges anything: neither score   *)
(* nor ceiling drops as sales pass the code's thresholds at 1, 10, 20, 100  *)
(* and half a dollar (engine.py:262-304; tests/test_engine.py:169).         *)
SaleNeverHurts ==
  [][Sales(evidence') > Sales(evidence) /\ PaidFees(evidence) # {} =>
       /\ Score(evidence') >= Score(evidence)
       /\ MaxSafe(evidence') >= MaxSafe(evidence)]_vars

-----------------------------------------------------------------------------
(* What the repository says of the engine, against what it does.           *)

(* engine.py:615-617: min is the fee statistic "that adding a service can   *)
(* only LOWER": an agent that charges never raises its dollar ceiling by    *)
(* listing another service at the endpoints it has.                         *)
ListingNeverRaisesCeiling ==
  [][/\ PaidFees(evidence) # {} /\ evidence.services \subseteq evidence'.services
     /\ Urls(evidence') = Urls(evidence)
     /\ evidence'.services # evidence.services
     => MaxSafe(evidence') <= MaxSafe(evidence)]_vars
=============================================================================
