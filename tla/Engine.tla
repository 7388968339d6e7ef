-------------------------------- MODULE Engine --------------------------------
(***************************************************************************)
(* oracle/engine.py: score_agent(), from the evidence on an agent to a      *)
(* score, a verdict and a dollar ceiling.  Every signal moves the score  *)
(* by a delta and may impose a cap; the score is 50 plus the deltas, held  *)
(* under the lowest cap.                                                   *)
(*                                                                         *)
(* Money is in thousandths of a USDT, ratios in percent, the security      *)
(* rating in hundredths of a star, max_safe_usd in ten-thousandths of a    *)
(* dollar, the four decimals the code rounds it to.  Reasons and their     *)
(* order are left out; a signal that does not fire is Silent.              *)
(*                                                                         *)
(* Evidence is a record:                                                   *)
(*   isAsp       the marketplace has an agentInfo for the id at all        *)
(*   services    set of [fee, endpoint]; fee 0 is free                     *)
(*   probes      what probing each endpoint found                          *)
(*   flapping, slow   rolling uptime < 95%, P95 latency >= 4 s             *)
(*   approval, online, status, sales, security    as listed, or Absent     *)
(*   described, test_named    the listing has a profile, a test-like name  *)
(*   reviews     rated and positive reviews; reviewer addresses, the       *)
(*               distinct ones, and whether the agent's own is among them  *)
(*   settlement  Absent, or what settled on chain                          *)
(*   content, malicious, domain, payto, age    scans of text and endpoint  *)
(*   fleet       Absent, or what the owner's wallet is known to run        *)
(***************************************************************************)
EXTENDS Integers

CONSTANTS
  Endpoints,    \* endpoint URLs
  NoEndpoint,   \* a service with no URL (agent to agent)
  Absent        \* the source said nothing

SAFE_MIN == 70
CAUTION_MIN == 45

Silent == [delta |-> 0, cap |-> 100]

Moves(delta) == [delta |-> delta, cap |-> 100]

Caps(delta, cap) == [delta |-> delta, cap |-> cap]

(* round(): to the nearest, ties to even.                                  *)
Round(num, den) ==
  LET q == num \div den
      twice == 2 * (num % den)
  IN  IF twice > den \/ (twice = den /\ q % 2 = 1) THEN q + 1 ELSE q

-----------------------------------------------------------------------------
(* Liveness.                                                               *)

Urls(e) == {s.endpoint : s \in e.services} \ {NoEndpoint}

Found(e, kinds) == {u \in Urls(e) : e.probes[u] \in kinds}

Live(e) == Urls(e) \ Found(e, {"blocked"})

Healthy(e) == Found(e, {"x402", "api"})

Reachable(e) == Found(e, {"x402", "api", "broken"})

Sales(e) == IF e.sales = Absent THEN 0 ELSE e.sales

Ssrf(e) == IF Found(e, {"blocked"}) # {} THEN Caps(-50, 20) ELSE Silent

Liveness(e) ==
  CASE Urls(e) = {} /\ Sales(e) >= 10                 -> Silent
    [] Urls(e) = {} /\ Sales(e) < 10                  -> Caps(0, 60)
    [] Urls(e) # {} /\ Live(e) = {}                   -> Silent
    [] Live(e) # {} /\ Healthy(e) = Live(e)           -> Moves(18)
    [] Healthy(e) # {} /\ Healthy(e) # Live(e)        -> Caps(2, 62)
    [] Healthy(e) = {} /\ Reachable(e) # {}           -> Caps(-15, 45)
    [] Reachable(e) = {} /\ Found(e, {"refused"}) # {} -> Caps(-40, 25)
    [] OTHER                                          -> Caps(-12, 58)

Paywall(e) == IF Found(e, {"x402"}) # {} THEN Moves(4) ELSE Silent

Uptime(e) == IF Urls(e) # {} /\ e.flapping THEN Caps(-14, 62) ELSE Silent

Latency(e) == IF Urls(e) # {} /\ e.slow THEN Moves(-4) ELSE Silent

-----------------------------------------------------------------------------
(* The listing: absent is unknown, not inactive.                           *)

Review(e) ==
  CASE e.approval = Absent -> Silent
    [] e.approval = 4      -> Moves(6)
    [] OTHER               -> Caps(-12, 55)

Online(e) ==
  CASE e.online = Absent -> Silent
    [] e.online = 1      -> Moves(3)
    [] OTHER             -> Moves(-8)

Active(e) == IF e.status \notin {Absent, 1} THEN Caps(-25, 25) ELSE Silent

Effort(e) == IF e.described THEN Silent ELSE Moves(-4)

TestAccount(e) == IF e.test_named /\ Sales(e) = 0 THEN Caps(-30, 20) ELSE Silent

Price(e) == IF \E s \in e.services : s.fee > 2000 THEN Moves(-8) ELSE Silent

-----------------------------------------------------------------------------
(* Money: _looks_washed(), _volume_basis().                                *)

Washed(s) ==
  \/ s.tx = 0
  \/ s.payers <= 3 /\ s.tx >= 10
  \/ s.top1 >= 60
  \/ s.identical >= 90 /\ s.payers <= 4 /\ s.tx >= 2 * s.payers

PaidFees(e) == {s.fee : s \in e.services} \ {0}

MinFee(e) == CHOOSE f \in PaidFees(e) : \A g \in PaidFees(e) : f <= g

Measured(e) == e.settlement # Absent /\ e.settlement.volume > 0 /\ ~Washed(e.settlement)

Volume(e) ==
  CASE Measured(e)                         -> e.settlement.volume
    [] ~Measured(e) /\ PaidFees(e) = {}    -> 0
    [] ~Measured(e) /\ PaidFees(e) # {}    -> Sales(e) * MinFee(e)

(* Mutant of Settlement: washed money costs points but imposes no cap.     *)
SettlementUncapped(e) ==
  CASE e.settlement = Absent                                -> Silent
    [] e.settlement # Absent /\ e.settlement.tx = 0         -> Caps(0, 64)
    [] e.settlement # Absent /\ e.settlement.tx # 0 /\ Washed(e.settlement) -> Moves(-30)
    [] OTHER                                                -> Moves(14)

Settlement(e) ==
  CASE e.settlement = Absent                                -> Silent
    [] e.settlement # Absent /\ e.settlement.tx = 0         -> Caps(0, 64)
    [] e.settlement # Absent /\ e.settlement.tx # 0 /\ Washed(e.settlement) -> Caps(-30, 44)
    [] OTHER                                                -> Moves(14)

SubCent(e) == MinFee(e) < 10

(* Mutant of TrackRecord: any ten sub-cent sales count as a hundred.       *)
TrackRecordCheap(e) ==
  CASE SubCent(e)                                               -> Moves(22)
    [] ~SubCent(e) /\ Volume(e) >= 5000 /\ Sales(e) >= 20       -> Moves(26)
    [] ~SubCent(e) /\ Volume(e) < 500                           -> Caps(6, 69)
    [] OTHER                                                    -> Moves(16)

(* The sales signal of an agent with ten sales or more and a paid service. *)
TrackRecord(e) ==
  CASE SubCent(e) /\ Sales(e) >= 100                            -> Moves(22)
    [] SubCent(e) /\ Sales(e) < 100                             -> Caps(6, 69)
    [] ~SubCent(e) /\ Volume(e) >= 5000 /\ Sales(e) >= 20       -> Moves(26)
    [] ~SubCent(e) /\ Volume(e) < 500                           -> Caps(6, 69)
    [] OTHER                                                    -> Moves(16)

(* Mutant of SalesRecord: the first sales weigh more than the next ones.   *)
SalesRecordFrontLoaded(e) ==
  CASE Sales(e) = 0                             -> Caps(0, 64)
    [] Sales(e) \in 1..9                        -> Caps(8, 69)
    [] Sales(e) >= 10 /\ PaidFees(e) = {}       -> Caps(2, 69)
    [] Sales(e) >= 10 /\ PaidFees(e) # {}       -> TrackRecord(e)

SalesRecord(e) ==
  CASE Sales(e) = 0                             -> Caps(0, 64)
    [] Sales(e) \in 1..9                        -> Caps(4, 69)
    [] Sales(e) >= 10 /\ PaidFees(e) = {}       -> Caps(2, 69)
    [] Sales(e) >= 10 /\ PaidFees(e) # {}       -> TrackRecord(e)

-----------------------------------------------------------------------------
(* Reputation.                                                             *)

SecurityRating(e) ==
  IF e.security = Absent THEN Silent ELSE Moves(Round((e.security - 300) * 6, 100))

AnomalyRating(e) ==
  IF e.security # Absent /\ e.security >= 450 /\ Sales(e) = 0 THEN Moves(-6) ELSE Silent

(* wilson_lower_bound(pos, n) >= t/130, without its square root: the bound *)
(* reaches t iff the positive share exceeds t by z standard errors at t.   *)
WilsonReaches(pos, n, t) ==
  /\ 130 * pos >= t * n
  /\ 625 * (130 * pos - t * n) * (130 * pos - t * n) >= 2401 * n * t * (130 - t)

(* round(max(0, wlb - 0.55) * 26) is d or more iff wlb reaches             *)
(* 0.55 + (d - 1/2)/26, which is (69 + 5d)/130.                            *)
WilsonDelta(pos, n) ==
  CHOOSE d \in 0..12 : /\ d = 0 \/ WilsonReaches(pos, n, 69 + 5 * d)
                       /\ d = 12 \/ ~WilsonReaches(pos, n, 69 + 5 * (d + 1))

Reputation(e) ==
  LET r == e.reviews
  IN  CASE r.rated = 0                                             -> Silent
        [] r.rated > 0 /\ r.rated >= 5 /\ 10 * r.positive < 8 * r.rated
                                            -> Caps(WilsonDelta(r.positive, r.rated), 62)
        [] OTHER                            -> Moves(WilsonDelta(r.positive, r.rated))

SelfReview(e) == IF e.reviews.own THEN Caps(-45, 25) ELSE Silent

ReviewRing(e) ==
  LET r == e.reviews
  IN  CASE r.reviewers >= 3 /\ r.distinct <= 2 /\ Sales(e) < 10     -> Caps(-12, 66)
        [] r.reviewers >= 4 /\ r.distinct > 2 /\ 2 * r.distinct <= r.reviewers
           /\ Sales(e) < 10                                         -> Caps(-8, 66)
        [] OTHER                                                    -> Silent

-----------------------------------------------------------------------------
(* Scans and identity.                                                     *)

Content(e) ==
  CASE e.content = "clean"    -> Silent
    [] e.content = "warn"     -> Caps(-10, 60)
    [] e.content = "critical" -> Caps(-60, 15)

Malicious(e) == IF e.malicious THEN Caps(-60, 15) ELSE Silent

(* Mutant of DomainBinding: a borrowed endpoint only costs points.         *)
DomainBindingUncapped(e) ==
  CASE e.domain = "match"    -> Moves(6)
    [] e.domain = "mismatch" -> Moves(-45)
    [] OTHER                 -> Silent

DomainBinding(e) ==
  CASE e.domain = "match"    -> Moves(6)
    [] e.domain = "mismatch" -> Caps(-45, 25)
    [] OTHER                 -> Silent

PayTo(e) == IF e.payto THEN Moves(6) ELSE Silent

DomainAge(e) ==
  CASE e.age = Absent                              -> Silent
    [] e.age # Absent /\ e.age < 7                 -> Caps(-10, 55)
    [] e.age # Absent /\ e.age >= 7 /\ e.age < 30  -> Caps(-6, 64)
    [] OTHER                                       -> Silent

-----------------------------------------------------------------------------
(* The owner's fleet: it convicts on no trade anywhere AND a size or a     *)
(* naming template nobody launches honestly; an agent earns its way out.   *)

Suspect(f) == f.sales < f.known \/ f.templated >= 5

Convicting(f) == f.templated >= 5 \/ f.known >= 20

FleetPenalized(e) ==
  /\ e.fleet # Absent
  /\ e.fleet.known >= 5
  /\ Suspect(e.fleet) /\ Convicting(e.fleet)
  /\ Volume(e) < 500

OwnerFleet(e) ==
  CASE ~FleetPenalized(e)                          -> Silent
    [] FleetPenalized(e) /\ e.fleet.known < 20     -> Caps(-12, 62)
    [] FleetPenalized(e) /\ e.fleet.known \in 20..49 -> Caps(-20, 58)
    [] FleetPenalized(e) /\ e.fleet.known >= 50    -> Caps(-28, 52)

(* evidence.cluster.risk, "none" where no cluster is published.            *)
ClusterRisk(e) ==
  IF ~e.isAsp \/ e.fleet = Absent THEN "none"
  ELSE CASE e.fleet.known < 2                              -> "none"
         [] e.fleet.known \in 2..4                         -> "low"
         [] e.fleet.known >= 5 /\ FleetPenalized(e)        -> "high"
         [] e.fleet.known >= 5 /\ ~FleetPenalized(e)       -> "disclosed"

-----------------------------------------------------------------------------
(* The aggregate.                                                          *)

Part(condition, points) == IF condition THEN points ELSE 0

Confidence(e) ==
  IF ~e.isAsp THEN 15
  ELSE Part(e.sales # Absent, 25) + Part(e.security # Absent, 20) + Part(Urls(e) # {}, 25)
       + Part(e.approval # Absent, 15) + Part(e.services # {}, 15)

LowConfidence(e) == IF Confidence(e) < 50 THEN Caps(0, 69) ELSE Silent

Signals(e) ==
  [ssrf |-> Ssrf(e), liveness |-> Liveness(e), x402 |-> Paywall(e), uptime |-> Uptime(e),
   latency |-> Latency(e), review |-> Review(e), online |-> Online(e), active |-> Active(e),
   sales |-> SalesRecord(e), security |-> SecurityRating(e), reputation |-> Reputation(e),
   settlement |-> Settlement(e), content |-> Content(e), malicious |-> Malicious(e),
   domain |-> DomainBinding(e), payto |-> PayTo(e), fleet |-> OwnerFleet(e),
   self_review |-> SelfReview(e), ring |-> ReviewRing(e), age |-> DomainAge(e),
   anomaly |-> AnomalyRating(e), effort |-> Effort(e), test |-> TestAccount(e),
   price |-> Price(e), confidence |-> LowConfidence(e)]

Raw(s) ==
  50 + s.ssrf.delta + s.liveness.delta + s.x402.delta + s.uptime.delta + s.latency.delta
     + s.review.delta + s.online.delta + s.active.delta + s.sales.delta + s.security.delta
     + s.reputation.delta + s.settlement.delta + s.content.delta + s.malicious.delta
     + s.domain.delta + s.payto.delta + s.fleet.delta + s.self_review.delta + s.ring.delta
     + s.age.delta + s.anomaly.delta + s.effort.delta + s.test.delta + s.price.delta

Ceiling(s) ==
  CHOOSE c \in {s[k].cap : k \in DOMAIN s} : \A k \in DOMAIN s : c <= s[k].cap

Lesser(a, b) == IF a <= b THEN a ELSE b

(* Mutant of Clamped: the score may fall below zero.                       *)
Unclamped(x) == x

Clamped(x) == IF x < 0 THEN 0 ELSE x

(* A buyer's identity, or none, is no provider: a fixed score, not looked  *)
(* into any further.                                                       *)
NO_RECORD == 20

Score(e) ==
  IF ~e.isAsp THEN NO_RECORD
  ELSE LET s == Signals(e) IN Clamped(Lesser(Raw(s), Ceiling(s)))

Band(score) ==
  CASE score >= SAFE_MIN                            -> "SAFE"
    [] score >= CAUTION_MIN /\ score < SAFE_MIN     -> "CAUTION"
    [] score < CAUTION_MIN                          -> "BLOCK"

Verdict(e) == Band(Score(e))

(* _safe_ceiling(): volume x 3 or x 1/2, x confidence.                     *)
Credit(verdict, volume, confidence) ==
  CASE verdict = "SAFE"    -> Round(volume * 3 * confidence, 10)
    [] verdict = "CAUTION" -> Round(volume * confidence, 20)
    [] verdict = "BLOCK"   -> 0

MaxSafe(e) == Credit(Verdict(e), Volume(e), Confidence(e))
=============================================================================
