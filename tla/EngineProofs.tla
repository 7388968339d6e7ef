----------------------------- MODULE EngineProofs -----------------------------
(***************************************************************************)
(* What score_agent() guarantees for any evidence of the right shape:      *)
(*   EvidenceTyped       scores are 0..100, ceilings are never negative     *)
(*   SafeMustBeEarned    SAFE is earned, live and clean                     *)
(*   OneFailureBlocks    a hard failure blocks, whatever else there is      *)
(*   SellingHelps        more sales never cost an agent that charges        *)
(*   BadNewsHelpsNobody  worse news never improves verdict or ceiling       *)
(*                                                                         *)
(* The score is clamped under the lowest cap, so the first three rest on   *)
(* two facts: the lowest cap exists (caps come from a finite list) and     *)
(* every delta and cap is a number, whatever the evidence.  SAFE then      *)
(* means that no signal caps below 70, BLOCK that one caps below 45; the   *)
(* rest reads off each signal when it does.  The last two compare two      *)
(* assessments signal by signal: most signals do not read what changed,    *)
(* the others all move the same way, and the aggregate is monotone.        *)
(***************************************************************************)
EXTENDS Assessments, WellFoundedInduction, TLAPS

(* A set of naturals has a least element: _volume_basis() takes one of any *)
(* fees, the aggregate one of any caps.                                    *)
LEMMA LeastNat ==
  ASSUME NEW S, S \subseteq Nat, S # {}
  PROVE  \E m \in S : \A n \in S : m <= n
<1> DEFINE R == OpToRel(<, Nat)
<1>1. IsWellFoundedOn(R, Nat)
  BY NatLessThanWellFounded
<1>2. PICK m \in S : \A n \in S : ~(<<n, m>> \in R)
  <2> HIDE DEF R
  <2> QED BY <1>1, WFMin
<1>3. \A n \in S : ~(n < m)
  BY <1>2 DEF OpToRel
<1> QED
  BY <1>3

(* Every cap score_agent() ever imposes, and none (100).                   *)
CapValues == {15, 20, 25, 44, 45, 52, 55, 58, 60, 62, 64, 66, 69, 100}

Signal == [delta : Int, cap : CapValues]

(* min(caps) is below every cap (engine.py:546-547).                       *)
LEMMA CeilingIsLeast ==
  ASSUME NEW s, DOMAIN s # {}, \A k \in DOMAIN s : s[k].cap \in CapValues
  PROVE  Ceiling(s) \in 0..100 /\ \A k \in DOMAIN s : Ceiling(s) <= s[k].cap
<1> DEFINE C == {s[k].cap : k \in DOMAIN s}
<1>1. C \subseteq CapValues /\ C # {}
  OBVIOUS
<1>2. C \subseteq Nat /\ C \subseteq 0..100
  BY <1>1 DEF CapValues
<1>3. \E c \in C : \A n \in C : c <= n
  <2> HIDE DEF C
  <2> QED BY <1>1, <1>2, LeastNat
<1>4. \E c \in C : \A k \in DOMAIN s : c <= s[k].cap
  BY <1>3
<1>5. Ceiling(s) \in C /\ \A k \in DOMAIN s : Ceiling(s) <= s[k].cap
  BY <1>4 DEF Ceiling
<1> QED
  BY <1>2, <1>5

(* The shapes of what signals are computed from.                           *)
LEMMA SalesType ==
  ASSUME NEW e \in Evidence
  PROVE  Sales(e) \in Nat
  BY DEF Evidence, Sales

(* The lowest paid fee is one of the paid fees.                            *)
LEMMA MinFeeIsPaid ==
  ASSUME NEW e \in Evidence, PaidFees(e) # {}
  PROVE  MinFee(e) \in PaidFees(e) /\ MinFee(e) \in Nat
<1>1. PaidFees(e) \subseteq Nat
  BY DEF Evidence, Service, PaidFees
<1>2. \E f \in PaidFees(e) : \A g \in PaidFees(e) : f <= g
  BY <1>1, LeastNat
<1> QED
  BY <1>1, <1>2 DEF MinFee

(* The volume is a number on either basis (engine.py:598-644).             *)
LEMMA VolumeType ==
  ASSUME NEW e \in Evidence
  PROVE  Volume(e) \in Nat
<1>1. CASE Measured(e)
  BY <1>1 DEF Measured, Volume, Evidence, OnChain
<1>2. CASE ~Measured(e) /\ PaidFees(e) = {}
  BY <1>2 DEF Volume
<1>3. CASE ~Measured(e) /\ PaidFees(e) # {}
  <2>1. Sales(e) \in Nat /\ MinFee(e) \in Nat
    BY <1>3, SalesType, MinFeeIsPaid
  <2>2. Sales(e) * MinFee(e) \in Nat
    BY <2>1
  <2> QED
    BY <1>3, <2>2 DEF Volume
<1> QED
  BY <1>1, <1>2, <1>3

(* The reputation delta exists, whatever the reviews: it is the last one   *)
(* below 12 that the bound reaches, before one it does not.                *)
LEMMA WilsonDeltaIs ==
  ASSUME NEW pos, NEW n
  PROVE  LET d == WilsonDelta(pos, n)
         IN  /\ d \in 0..12
             /\ d = 0 \/ WilsonReaches(pos, n, 69 + 5 * d)
             /\ d = 12 \/ ~WilsonReaches(pos, n, 69 + 5 * (d + 1))
<1> DEFINE Reached == {d \in 0..12 : d = 0 \/ WilsonReaches(pos, n, 69 + 5 * d)}
           Left == {m \in 0..12 : 12 - m \in Reached}
<1>1. Left \subseteq Nat /\ 12 \in Left
  OBVIOUS
<1>2. PICK m \in Left : \A k \in Left : m <= k
  <2> HIDE DEF Left
  <2> QED BY <1>1, LeastNat
<1>3. 12 - m \in 0..12 /\ (12 - m = 0 \/ WilsonReaches(pos, n, 69 + 5 * (12 - m)))
  OBVIOUS
<1>4. 12 - m = 12 \/ ~WilsonReaches(pos, n, 69 + 5 * ((12 - m) + 1))
  <2> SUFFICES ASSUME m # 0, WilsonReaches(pos, n, 69 + 5 * ((12 - m) + 1))
               PROVE  FALSE
    OBVIOUS
  <2>1. m - 1 \in 0..12 /\ 12 - (m - 1) = (12 - m) + 1
    OBVIOUS
  <2>2. m - 1 \in Left
    BY <2>1
  <2>3. m <= m - 1
    <3> HIDE DEF Left
    <3> QED BY <1>2, <2>2
  <2> QED
    BY <2>1, <2>3
<1>5. \E d \in 0..12 : /\ d = 0 \/ WilsonReaches(pos, n, 69 + 5 * d)
                       /\ d = 12 \/ ~WilsonReaches(pos, n, 69 + 5 * (d + 1))
  BY <1>3, <1>4
<1> QED
  BY <1>5 DEF WilsonDelta

(* Every signal has a delta and one of the caps, group by group.           *)
LEMMA LivenessSignals ==
  ASSUME NEW e \in Evidence
  PROVE  /\ Ssrf(e) \in Signal /\ Liveness(e) \in Signal /\ Paywall(e) \in Signal
         /\ Uptime(e) \in Signal /\ Latency(e) \in Signal
<1> USE DEF Silent, Moves, Caps, Signal, CapValues
<1>1. Ssrf(e) \in Signal /\ Paywall(e) \in Signal /\ Uptime(e) \in Signal /\ Latency(e) \in Signal
  BY DEF Ssrf, Paywall, Uptime, Latency
<1>2. Liveness(e) \in Signal
  BY SalesType DEF Liveness
<1> QED
  BY <1>1, <1>2

(* The listing: review, online, active, effort, test account, price.       *)
LEMMA ListingSignals ==
  ASSUME NEW e \in Evidence
  PROVE  /\ Review(e) \in Signal /\ Online(e) \in Signal /\ Active(e) \in Signal
         /\ Effort(e) \in Signal /\ TestAccount(e) \in Signal /\ Price(e) \in Signal
  BY DEF Silent, Moves, Caps, Signal, CapValues,
         Review, Online, Active, Effort, TestAccount, Price

(* Money: settlement and sales.                                            *)
LEMMA MoneySignals ==
  ASSUME NEW e \in Evidence
  PROVE  Settlement(e) \in Signal /\ SalesRecord(e) \in Signal
<1> USE DEF Silent, Moves, Caps, Signal, CapValues
<1>1. Settlement(e) \in Signal
  BY DEF Settlement
<1>2. TrackRecord(e) \in Signal
  BY DEF TrackRecord
<1>3. SalesRecord(e) \in Signal
  BY <1>2, SalesType DEF SalesRecord
<1> QED
  BY <1>1, <1>3

(* Reputation: security rating, anomaly, reviews, reviewers.               *)
LEMMA ReputationSignals ==
  ASSUME NEW e \in Evidence
  PROVE  /\ SecurityRating(e) \in Signal /\ AnomalyRating(e) \in Signal
         /\ Reputation(e) \in Signal /\ SelfReview(e) \in Signal /\ ReviewRing(e) \in Signal
<1> USE DEF Silent, Moves, Caps, Signal, CapValues
<1>1. SecurityRating(e) \in Signal
  <2>1. CASE e.security = Absent
    BY <2>1 DEF SecurityRating
  <2>2. CASE e.security # Absent
    <3>1. e.security \in Int
      BY <2>2 DEF Evidence
    <3>2. Round((e.security - 300) * 6, 100) \in Int
      BY <3>1 DEF Round
    <3> QED
      BY <2>2, <3>2 DEF SecurityRating
  <2> QED
    BY <2>1, <2>2
<1>2. Reputation(e) \in Signal
  <2>1. WilsonDelta(e.reviews.positive, e.reviews.rated) \in Int
    BY WilsonDeltaIs
  <2> QED
    BY <2>1 DEF Reputation
<1>3. AnomalyRating(e) \in Signal /\ SelfReview(e) \in Signal
  BY DEF AnomalyRating, SelfReview
<1>4. ReviewRing(e) \in Signal
  BY DEF ReviewRing
<1> QED
  BY <1>1, <1>2, <1>3, <1>4

(* Scans and identity.                                                     *)
LEMMA ScanSignals ==
  ASSUME NEW e \in Evidence
  PROVE  /\ Content(e) \in Signal /\ Malicious(e) \in Signal /\ DomainBinding(e) \in Signal
         /\ PayTo(e) \in Signal /\ DomainAge(e) \in Signal
<1> USE DEF Silent, Moves, Caps, Signal, CapValues
<1>1. Content(e) \in Signal
  BY DEF Content, Evidence
<1>2. Malicious(e) \in Signal /\ DomainBinding(e) \in Signal /\ PayTo(e) \in Signal
  BY DEF Malicious, DomainBinding, PayTo
<1>3. DomainAge(e) \in Signal
  BY DEF DomainAge
<1> QED
  BY <1>1, <1>2, <1>3

(* The fleet, and the cap of low confidence.                               *)
LEMMA FleetSignals ==
  ASSUME NEW e \in Evidence
  PROVE  OwnerFleet(e) \in Signal /\ LowConfidence(e) \in Signal
<1> USE DEF Silent, Moves, Caps, Signal, CapValues
<1>1. LowConfidence(e) \in Signal
  BY DEF LowConfidence
<1>2. FleetPenalized(e) => e.fleet.known \in Nat
  BY DEF FleetPenalized, Evidence, Fleet
<1>3. OwnerFleet(e) \in Signal
  BY <1>2 DEF OwnerFleet
<1> QED
  BY <1>1, <1>3

(* Everything a score is made of.                                          *)
LEMMA SignalsType ==
  ASSUME NEW e \in Evidence
  PROVE  \A k \in DOMAIN Signals(e) : Signals(e)[k] \in Signal
  BY LivenessSignals, ListingSignals, MoneySignals, ReputationSignals, ScanSignals, FleetSignals
     DEF Signals

(* The score is within bounds and under every cap; without a record it is 20.*)
LEMMA ScoreBounds ==
  ASSUME NEW e \in Evidence
  PROVE  /\ Score(e) \in 0..100
         /\ e.isAsp => \A k \in DOMAIN Signals(e) :
                         Score(e) <= Signals(e)[k].cap
         /\ ~e.isAsp => Score(e) = 20
<1> DEFINE s == Signals(e)
<1>1. \A k \in DOMAIN s : s[k].cap \in CapValues /\ s[k].delta \in Int
  BY SignalsType DEF Signal
<1>2. DOMAIN s # {}
  BY DEF Signals
<1>3. Ceiling(s) \in 0..100 /\ \A k \in DOMAIN s : Ceiling(s) <= s[k].cap
  <2> HIDE DEF s
  <2> QED BY <1>1, <1>2, CeilingIsLeast
<1>4. Raw(s) \in Int
  BY LivenessSignals, ListingSignals, MoneySignals, ReputationSignals, ScanSignals, FleetSignals
     DEF Raw, Signals, Signal
<1>5. \A r \in Int, c \in 0..100 : Clamped(Lesser(r, c)) \in 0..c
  BY DEF Clamped, Lesser
<1>6. Clamped(Lesser(Raw(s), Ceiling(s))) \in 0..Ceiling(s)
  <2> HIDE DEF s
  <2> QED BY <1>3, <1>4, <1>5
<1>7. Score(e) = IF ~e.isAsp THEN 20 ELSE Clamped(Lesser(Raw(s), Ceiling(s)))
  BY DEF Score, NO_RECORD
<1>8. e.isAsp \in BOOLEAN
  BY DEF Evidence
<1>9. \A k \in DOMAIN s : s[k].cap \in Int
  BY <1>1 DEF CapValues
<1> HIDE DEF s
<1>10. CASE e.isAsp
  <2>1. Score(e) \in 0..Ceiling(s)
    BY <1>6, <1>7, <1>10
  <2>2. \A k \in DOMAIN s : Score(e) <= s[k].cap
    BY <1>3, <1>9, <2>1
  <2> QED
    BY <1>3, <1>10, <2>1, <2>2 DEF s
<1>11. CASE ~e.isAsp
  BY <1>7, <1>11
<1> QED
  BY <1>8, <1>10, <1>11

-----------------------------------------------------------------------------
(* SAFE is reached only where no signal caps below SAFE_MIN.               *)
LEMMA SafeIsUncapped ==
  ASSUME NEW e \in Evidence, Verdict(e) = "SAFE"
  PROVE  e.isAsp /\ \A k \in DOMAIN Signals(e) : Signals(e)[k].cap >= 70
<1>1. Score(e) \in 0..100 /\ Score(e) >= 70
  BY ScoreBounds DEF Verdict, Band, SAFE_MIN, CAUTION_MIN
<1>2. e.isAsp
  BY <1>1, ScoreBounds DEF Evidence
<1>3. \A k \in DOMAIN Signals(e) : Signals(e)[k].cap \in Int
  BY SignalsType DEF Signal, CapValues
<1> QED
  BY <1>1, <1>2, <1>3, ScoreBounds

(* What each signal without such a cap says of the evidence.               *)
LEMMA SafeIsEarnedBy ==
  ASSUME NEW e \in Evidence, Verdict(e) = "SAFE"
  PROVE  Earned(e) /\ Healthy(e) = Urls(e) /\ Clean(e)
<1> USE DEF Silent, Moves, Caps
<1>1. /\ Ssrf(e).cap >= 70 /\ Liveness(e).cap >= 70 /\ Uptime(e).cap >= 70
      /\ SalesRecord(e).cap >= 70 /\ Settlement(e).cap >= 70
      /\ Content(e).cap >= 70 /\ Malicious(e).cap >= 70 /\ DomainBinding(e).cap >= 70
      /\ OwnerFleet(e).cap >= 70 /\ SelfReview(e).cap >= 70 /\ DomainAge(e).cap >= 70
  BY SafeIsUncapped DEF Signals
<1>2. Earned(e)
  <2>1. Sales(e) >= 10 /\ PaidFees(e) # {} /\ TrackRecord(e).cap >= 70
    BY <1>1, SalesType DEF SalesRecord
  <2>2. Volume(e) >= 500 \/ Sales(e) >= 100
    BY <2>1, SalesType, VolumeType DEF TrackRecord
  <2> QED
    BY <2>1, <2>2 DEF Earned
<1>3. Healthy(e) = Urls(e)
  <2>1. Found(e, {"blocked"}) = {} /\ Live(e) = Urls(e)
    BY <1>1 DEF Ssrf, Live
  <2>2. Urls(e) = {} \/ Healthy(e) = Live(e)
    BY <1>1, <2>1, SalesType DEF Liveness
  <2> QED
    BY <2>1, <2>2 DEF Healthy, Found
<1>4. Clean(e)
  <2>1. ~e.malicious /\ e.content = "clean" /\ (~e.flapping \/ Urls(e) = {})
    BY <1>1 DEF Malicious, Content, Uptime, Evidence
  <2>2. e.domain # "mismatch" /\ ~e.reviews.own
    BY <1>1 DEF DomainBinding, SelfReview
  <2>3. e.age = Absent \/ e.age >= 30
    BY <1>1 DEF DomainAge, Evidence
  <2>4. e.settlement = Absent \/ ~Washed(e.settlement)
    BY <1>1 DEF Settlement, Washed
  <2>5. ClusterRisk(e) # "high"
    <3> SUFFICES ASSUME ClusterRisk(e) = "high" PROVE FALSE
      OBVIOUS
    <3>1. e.fleet # Absent /\ e.fleet \in Fleet
      BY DEF ClusterRisk, Evidence
    <3>2. FleetPenalized(e)
      BY <3>1 DEF ClusterRisk, Fleet
    <3> QED
      BY <1>1, <3>1, <3>2 DEF OwnerFleet, Fleet
  <2> QED
    BY <2>1, <2>2, <2>3, <2>4, <2>5 DEF Clean
<1> QED
  BY <1>2, <1>3, <1>4

(* One cap below CAUTION_MIN is enough for BLOCK, and BLOCK has no credit. *)
LEMMA CappedBelowBlocks ==
  ASSUME NEW e \in Evidence,
         e.isAsp => \E k \in DOMAIN Signals(e) : Signals(e)[k].cap <= 44
  PROVE  Verdict(e) = "BLOCK" /\ MaxSafe(e) = 0
<1>1. Score(e) \in 0..100 /\ Score(e) <= 44
  <2>1. \A k \in DOMAIN Signals(e) : Signals(e)[k].cap \in Int
    BY SignalsType DEF Signal, CapValues
  <2> QED
    BY <2>1, ScoreBounds DEF Evidence
<1>2. Verdict(e) = "BLOCK"
  BY <1>1 DEF Verdict, Band, SAFE_MIN, CAUTION_MIN
<1> QED
  BY <1>2 DEF MaxSafe, Credit

(* Each hard failure imposes a cap below CAUTION_MIN.                      *)
LEMMA OneHardFailureBlocks ==
  ASSUME NEW e \in Evidence, HardFailure(e)
  PROVE  Verdict(e) = "BLOCK" /\ MaxSafe(e) = 0
<1> USE DEF Silent, Moves, Caps
<1> DEFINE Held(signal) == signal.cap <= 44
<1>1. Found(e, {"blocked"}) # {} => Held(Ssrf(e))
  BY DEF Ssrf
<1>2. Urls(e) # {} /\ Found(e, {"refused", "timeout"}) = Urls(e) /\ Found(e, {"refused"}) # {}
      => Held(Liveness(e))
  <2> SUFFICES ASSUME Urls(e) # {}, Found(e, {"refused", "timeout"}) = Urls(e),
                      Found(e, {"refused"}) # {}
               PROVE  Held(Liveness(e))
    OBVIOUS
  <2>1. Live(e) = Urls(e) /\ Healthy(e) = {} /\ Reachable(e) = {}
    BY DEF Live, Healthy, Reachable, Found
  <2> QED
    BY <2>1 DEF Liveness
<1>3. e.status \notin {Absent, 1} => Held(Active(e))
  BY DEF Active
<1>4. /\ e.malicious => Held(Malicious(e))
      /\ e.content = "critical" => Held(Content(e))
      /\ e.domain = "mismatch" => Held(DomainBinding(e))
      /\ e.reviews.own => Held(SelfReview(e))
  BY DEF Malicious, Content, DomainBinding, SelfReview
<1>5. e.test_named /\ Sales(e) = 0 => Held(TestAccount(e))
  BY DEF TestAccount
<1>6. e.settlement # Absent /\ e.settlement.tx > 0 /\ Washed(e.settlement) => Held(Settlement(e))
  BY DEF Settlement, Evidence, OnChain
<1>7. \E k \in DOMAIN Signals(e) : Signals(e)[k].cap <= 44
  BY <1>1, <1>2, <1>3, <1>4, <1>5, <1>6 DEF HardFailure, Signals
<1> QED
  BY <1>7, CappedBelowBlocks

-----------------------------------------------------------------------------
(* The dollar ceiling is a number, never negative.                         *)
LEMMA CreditType ==
  ASSUME NEW e \in Evidence
  PROVE  MaxSafe(e) \in Nat
<1>1. Confidence(e) \in Nat
  BY DEF Confidence, Part
<1>2. ASSUME NEW x \in Nat PROVE Round(x, 10) \in Nat /\ Round(x, 20) \in Nat
  BY <1>2 DEF Round
<1>3. Volume(e) * 3 * Confidence(e) \in Nat /\ Volume(e) * Confidence(e) \in Nat
  BY <1>1, VolumeType
<1>4. Verdict(e) \in {"SAFE", "CAUTION", "BLOCK"}
  BY ScoreBounds DEF Verdict, Band, SAFE_MIN, CAUTION_MIN
<1> QED
  BY <1>2, <1>3, <1>4 DEF MaxSafe, Credit

(* The inductive invariant: scores and ceilings follow from the evidence.   *)
Typed == evidence \in Evidence /\ changes \in 0..MaxChanges

(* The typed evidence is all TypeOK needs.                                 *)
LEMMA TypedImpliesTypeOK ==
  ASSUME Typed
  PROVE  TypeOK
<1>1. PICK e \in Evidence : e = evidence
  BY DEF Typed
<1>2. Score(e) \in 0..100 /\ MaxSafe(e) \in Nat
  BY ScoreBounds, CreditType
<1> QED
  BY <1>1, <1>2 DEF TypeOK, Typed

(* Every source reports evidence of the right shape.                       *)
LEMMA ListingStep ==
  ASSUME evidence \in Evidence, ListingEdited
  PROVE  evidence' \in Evidence
  BY DEF ListingEdited, Reports, Evidence

(* fetch_agent(): the security rating.                                     *)
LEMMA RatedStep ==
  ASSUME evidence \in Evidence, Rated
  PROVE  evidence' \in Evidence
  BY SourcesAssumption DEF Rated, Reports, Evidence

(* One field at a time.                                                    *)
LEMMA SettingSales ==
  ASSUME NEW e \in Evidence, NEW s \in {Absent} \cup Nat
  PROVE  [e EXCEPT !.sales = s] \in Evidence
  BY DEF Evidence

(* One field at a time: the fleet.                                         *)
LEMMA SettingFleet ==
  ASSUME NEW e \in Evidence, NEW f \in {Absent} \cup Fleet
  PROVE  [e EXCEPT !.fleet = f] \in Evidence
  BY DEF Evidence

(* EXCEPT of several fields is one field after the other.                  *)
LEMMA SettingBoth ==
  ASSUME NEW e \in Evidence, NEW s \in {Absent} \cup Nat, NEW f \in {Absent} \cup Fleet
  PROVE  [e EXCEPT !.sales = s, !.fleet = f] \in Evidence
<1>1. [e EXCEPT !.sales = s, !.fleet = f] = [[e EXCEPT !.sales = s] EXCEPT !.fleet = f]
  OBVIOUS
<1>2. [e EXCEPT !.sales = s] \in Evidence
  BY SettingSales
<1>3. [[e EXCEPT !.sales = s] EXCEPT !.fleet = f] \in Evidence
  BY <1>2, SettingFleet
<1> QED
  BY <1>1, <1>3

(* An agent without endpoints keeps the shape of its evidence.             *)
LEMMA UnhostedType ==
  ASSUME NEW e \in Evidence
  PROVE  Unhosted(e) \in Evidence
<1> DEFINE m == [e EXCEPT !.malicious = FALSE]
           d == [m EXCEPT !.domain = "absent"]
           p == [d EXCEPT !.payto = FALSE]
           a == [p EXCEPT !.age = Absent]
<1>1. [e EXCEPT !.malicious = FALSE, !.domain = "absent", !.payto = FALSE, !.age = Absent] = a
  OBVIOUS
<1>2. m \in Evidence
  <2>1. \A b \in BOOLEAN : [e EXCEPT !.malicious = b] \in Evidence
    BY DEF Evidence
  <2> QED BY <2>1
<1>3. d \in Evidence
  <2> HIDE DEF m
  <2> QED BY <1>2 DEF Evidence
<1>4. p \in Evidence
  <2> HIDE DEF d
  <2>1. \A b \in BOOLEAN : [d EXCEPT !.payto = b] \in Evidence
    BY <1>3 DEF Evidence
  <2> QED BY <2>1
<1>5. a \in Evidence
  <2> HIDE DEF p
  <2> QED BY <1>4 DEF Evidence
<1> HIDE DEF a
<1> QED
  BY <1>1, <1>5 DEF Unhosted

(* More sales, counted in the fleet too.                                   *)
LEMMA SalesStep ==
  ASSUME evidence \in Evidence, SalesGrow
  PROVE  evidence' \in Evidence
<1>1. PICK n \in SalesCounts :
        /\ n > Sales(evidence)
        /\ evidence' = [evidence EXCEPT !.sales = n,
                                        !.fleet = SoldMore(@, n - Sales(evidence))]
  BY DEF SalesGrow
<1>2. n \in Nat /\ n - Sales(evidence) \in Nat
  BY <1>1, SourcesAssumption DEF Sales, Evidence
<1>3. SoldMore(evidence.fleet, n - Sales(evidence)) \in {Absent} \cup Fleet
  BY <1>2 DEF SoldMore, Evidence, Fleet
<1>4. evidence' = [evidence EXCEPT !.sales = n,
                                   !.fleet = SoldMore(evidence.fleet, n - Sales(evidence))]
  BY <1>1
<1> QED
  BY <1>2, <1>3, <1>4, SettingBoth

(* Services come and go.                                                   *)
LEMMA ServiceStep ==
  ASSUME evidence \in Evidence, ServiceListed \/ ServiceDelisted
  PROVE  evidence' \in Evidence
<1>1. CASE ServiceListed
  BY <1>1, SourcesAssumption DEF ServiceListed, Reports, Evidence, Service
<1>2. CASE ServiceDelisted
  <2>1. PICK s \in evidence.services :
          evidence' = Unhosted([evidence EXCEPT !.services = @ \ {s}])
    BY <1>2 DEF ServiceDelisted
  <2>2. [evidence EXCEPT !.services = @ \ {s}] \in Evidence
    BY DEF Evidence
  <2> QED
    BY <2>1, <2>2, UnhostedType
<1> QED
  BY <1>1, <1>2

(* Probes and their history.                                               *)
LEMMA ProbedStep ==
  ASSUME evidence \in Evidence, Probed \/ HistoryRead
  PROVE  evidence' \in Evidence
<1>1. CASE Probed
  <2>1. PICK u \in Urls(evidence), k \in ProbeResults :
          evidence' = [evidence EXCEPT !["probes"] = [evidence.probes EXCEPT ![u] = k]]
    BY <1>1 DEF Probed, Reports
  <2>2. [evidence.probes EXCEPT ![u] = k] \in [Endpoints -> ProbeResults]
    BY DEF Evidence
  <2> QED
    BY <2>1, <2>2 DEF Evidence
<1>2. CASE HistoryRead
  BY <1>2 DEF HistoryRead, Reports, Evidence
<1> QED
  BY <1>1, <1>2

(* Scans, identity, domain age.                                            *)
LEMMA ScannedStep ==
  ASSUME evidence \in Evidence, Scanned \/ Identified
  PROVE  evidence' \in Evidence
  BY DEF Scanned, Identified, Reports, Evidence

(* Another review keeps the counts consistent.                             *)
LEMMA ReviewedStep ==
  ASSUME evidence \in Evidence, Reviewed
  PROVE  evidence' \in Evidence
<1> DEFINE r == evidence.reviews
           Extended(good, by) ==
             [rated     |-> r.rated + 1,
              positive  |-> r.positive + Part(good, 1),
              reviewers |-> r.reviewers + 1,
              distinct  |-> r.distinct + Part(~(by = "known" \/ (by = "own" /\ r.own)), 1),
              own       |-> r.own \/ by = "own"]
<1>1. PICK good \in BOOLEAN, by \in {"new", "known", "own"} :
        /\ r.rated < 30 /\ r.reviewers < 30
        /\ evidence' = [evidence EXCEPT !["reviews"] = Extended(good, by)]
  BY DEF Reviewed, Reports
<1>2. r \in Reviews
  BY DEF Evidence
<1>3. Extended(good, by) \in Reviews
  BY <1>1, <1>2 DEF Reviews, Part
<1> HIDE DEF Extended
<1> QED
  BY <1>1, <1>3 DEF Evidence

(* The owner index and the on-chain reader.                                *)
LEMMA OwnerStep ==
  ASSUME evidence \in Evidence, OwnerIndexed \/ SettlementsRead
  PROVE  evidence' \in Evidence
<1>1. CASE OwnerIndexed
  <2>1. PICK o \in OtherAgents \cup {Absent} :
          evidence' = [evidence EXCEPT !["fleet"] = OwnedWith(o, Sales(evidence))]
    BY <1>1 DEF OwnerIndexed, Reports
  <2>2. Sales(evidence) \in Nat
    BY DEF Sales, Evidence
  <2>3. OwnedWith(o, Sales(evidence)) \in {Absent} \cup Fleet
    <3>1. CASE o = Absent
      BY <3>1 DEF OwnedWith
    <3>2. CASE o # Absent
      <4>1. o \in Fleet
        BY <3>2, SourcesAssumption
      <4>2. o.known + 1 \in Nat /\ o.sales + Sales(evidence) \in Nat
        BY <2>2, <4>1 DEF Fleet
      <4>3. \A k, s \in Nat : [o EXCEPT !.known = k, !.sales = s] \in Fleet
        BY <4>1 DEF Fleet
      <4> QED
        BY <3>2, <4>2, <4>3 DEF OwnedWith
    <3> QED
      BY <3>1, <3>2
  <2> QED
    BY <2>1, <2>3 DEF Evidence
<1>2. CASE SettlementsRead
  BY <1>2, SourcesAssumption DEF SettlementsRead, Reports, Evidence
<1> QED
  BY <1>1, <1>2

(* Typed is inductive.                                                     *)
LEMMA StaysTyped ==
  ASSUME Typed, [Next]_vars
  PROVE  Typed'
<1>1. CASE Next
  <2>1. evidence' \in Evidence
    BY <1>1, ListingStep, RatedStep, SalesStep, ServiceStep, ProbedStep, ScannedStep,
       ReviewedStep, OwnerStep DEF Next, Typed
  <2>2. changes' \in 0..MaxChanges
    BY <1>1, MaxChangesAssumption DEF Next, Typed
  <2> QED
    BY <2>1, <2>2 DEF Typed
<1>2. CASE UNCHANGED vars
  BY <1>2 DEF vars, Typed
<1> QED
  BY <1>1, <1>2

(* ... and so holds in every reachable state.                              *)
LEMMA AlwaysTyped == Spec => []Typed
<1>1. Init => Typed
  BY StartsAssumption, MaxChangesAssumption DEF Init, Typed
<1>2. Typed /\ [Next]_vars => Typed'
  BY StaysTyped
<1> QED
  BY <1>1, <1>2, PTL DEF Spec

(* Scores stay in 0..100 and no ceiling is negative, for any evidence the  *)
(* sources can report (engine.py:544-550).                                  *)
THEOREM EvidenceTyped == Spec => []TypeOK
  BY AlwaysTyped, TypedImpliesTypeOK, PTL

(* An agent is SAFE only on ten paid sales and half a dollar settled or a   *)
(* hundred sales, with every endpoint serving and no adverse finding, for   *)
(* any evidence (engine.py:262-304,544-549).                                *)
THEOREM SafeMustBeEarned == Spec => []SafeIsEarned
<1>1. Typed => SafeIsEarned
  <2> SUFFICES ASSUME Typed, Verdict(evidence) = "SAFE"
               PROVE  /\ Earned(evidence)
                      /\ Healthy(evidence) = Urls(evidence)
                      /\ Clean(evidence)
    BY DEF SafeIsEarned
  <2>1. PICK e \in Evidence : e = evidence
    BY DEF Typed
  <2> QED
    BY <2>1, SafeIsEarnedBy
<1> QED
  BY <1>1, AlwaysTyped, PTL

(* A hard failure blocks the agent and takes its credit, for any evidence   *)
(* (engine.py:544-550,647-660).                                             *)
THEOREM OneFailureBlocks == Spec => []HardFailureBlocks
<1>1. Typed => HardFailureBlocks
  <2> SUFFICES ASSUME Typed, HardFailure(evidence)
               PROVE  Verdict(evidence) = "BLOCK" /\ MaxSafe(evidence) = 0
    BY DEF HardFailureBlocks
  <2>1. PICK e \in Evidence : e = evidence
    BY DEF Typed
  <2> QED
    BY <2>1, OneHardFailureBlocks
<1> QED
  BY <1>1, AlwaysTyped, PTL

-----------------------------------------------------------------------------
(* What the aggregate does with signals that are no better.                *)

NoBetter(s, t) == s = t \/ (s.delta <= t.delta /\ s.cap <= t.cap)

(* round() is monotone, and three tenths of an amount are at least one     *)
(* twentieth of it.                                                        *)
LEMMA RoundMonotone ==
  ASSUME NEW x \in Nat, NEW y \in Nat, x <= y
  PROVE  /\ Round(x, 10) <= Round(y, 10)
         /\ Round(x, 20) <= Round(y, 20)
         /\ Round(x, 20) <= Round(3 * y, 10)
         /\ 0 <= Round(x, 20)
  BY DEF Round

(* ... and so is a product, as of volume and confidence.                   *)
LEMMA ProductMonotone ==
  ASSUME NEW a \in Nat, NEW b \in Nat, NEW c \in Nat, NEW d \in Nat, a <= c, b <= d
  PROVE  a * b \in Nat /\ c * d \in Nat /\ a * b <= c * d
<1>1. a * b <= c * b
  OBVIOUS
<1>2. c * b <= c * d
  OBVIOUS
<1> QED
  BY <1>1, <1>2

(* A lower delta or a lower cap anywhere never raises the score.           *)
LEMMA ScoreMonotone ==
  ASSUME NEW e \in Evidence, NEW f \in Evidence, f.isAsp = e.isAsp,
         \A k \in DOMAIN Signals(e) : NoBetter(Signals(f)[k], Signals(e)[k])
  PROVE  Score(f) <= Score(e)
<1> DEFINE s == Signals(e)
           r == Signals(f)
<1>1. /\ DOMAIN s = DOMAIN r /\ DOMAIN s # {}
  BY DEF Signals
<1>2. \A k \in DOMAIN s : /\ s[k].delta \in Int /\ r[k].delta \in Int
                          /\ s[k].cap \in CapValues /\ r[k].cap \in CapValues
                          /\ r[k].delta <= s[k].delta /\ r[k].cap <= s[k].cap
  <2>1. \A k \in DOMAIN s : /\ s[k].delta \in Int /\ r[k].delta \in Int
                            /\ s[k].cap \in CapValues /\ r[k].cap \in CapValues
    <3> HIDE DEF s, r
    <3>1. \A k \in DOMAIN s : s[k] \in Signal /\ r[k] \in Signal
      BY <1>1, SignalsType DEF s, r
    <3> QED
      BY <3>1 DEF Signal
  <2> HIDE DEF s, r
  <2> QED
    BY <2>1 DEF NoBetter, CapValues, s, r
<1>3. Raw(r) \in Int /\ Raw(s) \in Int /\ Raw(r) <= Raw(s)
  <2>1. DOMAIN s = {"ssrf", "liveness", "x402", "uptime", "latency", "review", "online",
                    "active", "sales", "security", "reputation", "settlement", "content",
                    "malicious", "domain", "payto", "fleet", "self_review", "ring", "age",
                    "anomaly", "effort", "test", "price", "confidence"}
    BY DEF Signals
  <2> DEFINE Below(k) == r[k].delta \in Int /\ s[k].delta \in Int /\ r[k].delta <= s[k].delta
  <2> HIDE DEF s, r
  <2>2. \A k \in DOMAIN s : Below(k)
    BY <1>2
  <2> HIDE DEF Below
  <2>3. /\ Below("ssrf") /\ Below("liveness") /\ Below("x402") /\ Below("uptime")
        /\ Below("latency") /\ Below("review") /\ Below("online") /\ Below("active")
        /\ Below("sales") /\ Below("security") /\ Below("reputation")
        /\ Below("settlement") /\ Below("content") /\ Below("malicious")
        /\ Below("domain") /\ Below("payto") /\ Below("fleet") /\ Below("self_review")
        /\ Below("ring") /\ Below("age") /\ Below("anomaly") /\ Below("effort")
        /\ Below("test") /\ Below("price")
    BY <2>1, <2>2
  <2> DEFINE A(z) == 50 + z.ssrf.delta + z.liveness.delta + z.x402.delta + z.uptime.delta
                        + z.latency.delta + z.review.delta + z.online.delta
             B(z) == A(z) + z.active.delta + z.sales.delta + z.security.delta
                       + z.reputation.delta + z.settlement.delta + z.content.delta
             D(z) == B(z) + z.malicious.delta + z.domain.delta + z.payto.delta
                       + z.fleet.delta + z.self_review.delta + z.ring.delta
  <2>4. A(r) \in Int /\ A(s) \in Int /\ A(r) <= A(s)
    BY <2>3 DEF Below
  <2>5. B(r) \in Int /\ B(s) \in Int /\ B(r) <= B(s)
    <3> HIDE DEF A
    <3> QED BY <2>3, <2>4 DEF Below
  <2>6. D(r) \in Int /\ D(s) \in Int /\ D(r) <= D(s)
    <3> HIDE DEF B
    <3> QED BY <2>3, <2>5 DEF Below
  <2>7. \A z : Raw(z) = D(z) + z.age.delta + z.anomaly.delta + z.effort.delta + z.test.delta
                       + z.price.delta
    BY DEF Raw
  <2> HIDE DEF D
  <2> QED
    BY <2>3, <2>6, <2>7 DEF Below
<1>4. Ceiling(r) <= Ceiling(s)
  <2> DEFINE C == {s[k].cap : k \in DOMAIN s}
  <2> HIDE DEF s, r
  <2>1. C \subseteq Nat /\ C # {}
    BY <1>1, <1>2 DEF CapValues
  <2>2. \E c \in C : \A n \in C : c <= n
    <3> HIDE DEF C
    <3> QED BY <2>1, LeastNat
  <2>3. \E c \in C : \A k \in DOMAIN s : c <= s[k].cap
    BY <2>2
  <2>4. PICK k \in DOMAIN s : Ceiling(s) = s[k].cap
    BY <2>3 DEF Ceiling
  <2>5. Ceiling(r) \in 0..100 /\ \A j \in DOMAIN r : Ceiling(r) <= r[j].cap
    BY <1>1, <1>2, CeilingIsLeast
  <2>6. Ceiling(r) <= r[k].cap /\ r[k].cap <= s[k].cap
    BY <1>1, <1>2, <2>4, <2>5
  <2>7. r[k].cap \in Int /\ s[k].cap \in Int
    BY <1>2, <2>4 DEF CapValues
  <2> QED
    BY <2>4, <2>5, <2>6, <2>7
<1>5. Ceiling(r) \in Int /\ Ceiling(s) \in Int
  <2> HIDE DEF s, r
  <2> QED BY <1>1, <1>2, CeilingIsLeast
<1>6. \A x, y, c, d \in Int :
        x <= y /\ c <= d => Clamped(Lesser(x, c)) <= Clamped(Lesser(y, d))
  BY DEF Clamped, Lesser
<1>7. Clamped(Lesser(Raw(r), Ceiling(r))) <= Clamped(Lesser(Raw(s), Ceiling(s)))
  <2> HIDE DEF s, r
  <2> QED BY <1>3, <1>4, <1>5, <1>6
<1>8. /\ Score(e) = IF ~e.isAsp THEN 20 ELSE Clamped(Lesser(Raw(s), Ceiling(s)))
      /\ Score(f) = IF ~f.isAsp THEN 20 ELSE Clamped(Lesser(Raw(r), Ceiling(r)))
  BY DEF Score, NO_RECORD
<1> HIDE DEF s, r
<1> QED
  BY <1>7, <1>8

(* Nor does a lower score, volume or confidence raise verdict or ceiling.  *)
LEMMA CreditMonotone ==
  ASSUME NEW e \in Evidence, NEW f \in Evidence,
         Score(f) <= Score(e), Volume(f) <= Volume(e), Confidence(f) <= Confidence(e)
  PROVE  Rank(Verdict(f)) <= Rank(Verdict(e)) /\ MaxSafe(f) <= MaxSafe(e)
<1>1. Score(e) \in 0..100 /\ Score(f) \in 0..100
  BY ScoreBounds
<1>2. \/ Verdict(f) = "BLOCK"
      \/ Verdict(f) = "CAUTION" /\ Verdict(e) \in {"CAUTION", "SAFE"}
      \/ Verdict(f) = "SAFE" /\ Verdict(e) = "SAFE"
  BY <1>1 DEF Verdict, Band, SAFE_MIN, CAUTION_MIN
<1>3. Verdict(e) \in {"SAFE", "CAUTION", "BLOCK"}
  BY <1>1 DEF Verdict, Band, SAFE_MIN, CAUTION_MIN
<1>4. Rank(Verdict(f)) <= Rank(Verdict(e))
  BY <1>2, <1>3 DEF Rank
<1> DEFINE x == Volume(f) * Confidence(f)
           y == Volume(e) * Confidence(e)
<1>5. /\ Volume(e) \in Nat /\ Volume(f) \in Nat
      /\ Confidence(e) \in Nat /\ Confidence(f) \in Nat
  BY VolumeType DEF Confidence, Part
<1>6. x \in Nat /\ y \in Nat /\ x <= y
  BY <1>5, ProductMonotone
<1>7. Volume(f) * 3 * Confidence(f) = 3 * x /\ Volume(e) * 3 * Confidence(e) = 3 * y
  BY <1>5
<1>8. MaxSafe(e) \in Nat
  BY CreditType
<1>9. /\ Credit("BLOCK", Volume(f), Confidence(f)) = 0
      /\ Credit("CAUTION", Volume(f), Confidence(f)) = Round(x, 20)
      /\ Credit("SAFE", Volume(f), Confidence(f)) = Round(3 * x, 10)
      /\ Credit("CAUTION", Volume(e), Confidence(e)) = Round(y, 20)
      /\ Credit("SAFE", Volume(e), Confidence(e)) = Round(3 * y, 10)
  BY <1>7 DEF Credit
<1> HIDE DEF x, y
<1>10. /\ Round(x, 20) <= Round(y, 20) /\ Round(x, 20) <= Round(3 * y, 10)
       /\ Round(3 * x, 10) <= Round(3 * y, 10)
  <2>1. 3 * x \in Nat /\ 3 * y \in Nat /\ 3 * x <= 3 * y
    BY <1>6
  <2> QED
    BY <1>6, <2>1, RoundMonotone
<1>11. MaxSafe(f) <= MaxSafe(e)
  BY <1>2, <1>8, <1>9, <1>10 DEF MaxSafe
<1> QED
  BY <1>4, <1>11

(* Which parts of the evidence each signal reads.                          *)
LEMMA SignalsReadEndpoints ==
  ASSUME NEW e, NEW f, f.services = e.services
  PROVE  /\ Urls(f) = Urls(e) /\ PaidFees(f) = PaidFees(e) /\ MinFee(f) = MinFee(e)
         /\ Price(f) = Price(e)
         /\ f.flapping = e.flapping => Uptime(f) = Uptime(e)
         /\ f.slow = e.slow => Latency(f) = Latency(e)
         /\ f.probes = e.probes =>
              /\ \A kinds : Found(f, kinds) = Found(e, kinds)
              /\ Live(f) = Live(e) /\ Healthy(f) = Healthy(e) /\ Reachable(f) = Reachable(e)
              /\ Ssrf(f) = Ssrf(e) /\ Paywall(f) = Paywall(e)
              /\ f.sales = e.sales => Liveness(f) = Liveness(e)
<1>1. Urls(f) = Urls(e) /\ PaidFees(f) = PaidFees(e) /\ Price(f) = Price(e)
  BY DEF Urls, PaidFees, Price
<1>2. MinFee(f) = MinFee(e)
  BY <1>1 DEF MinFee
<1>3. /\ f.flapping = e.flapping => Uptime(f) = Uptime(e)
      /\ f.slow = e.slow => Latency(f) = Latency(e)
  BY <1>1 DEF Uptime, Latency
<1>4. ASSUME f.probes = e.probes
      PROVE  /\ \A kinds : Found(f, kinds) = Found(e, kinds)
             /\ Live(f) = Live(e) /\ Healthy(f) = Healthy(e) /\ Reachable(f) = Reachable(e)
             /\ Ssrf(f) = Ssrf(e) /\ Paywall(f) = Paywall(e)
             /\ f.sales = e.sales => Liveness(f) = Liveness(e)
  <2>1. \A kinds : Found(f, kinds) = Found(e, kinds)
    BY <1>1, <1>4 DEF Found
  <2>2. Live(f) = Live(e) /\ Healthy(f) = Healthy(e) /\ Reachable(f) = Reachable(e)
    BY <1>1, <2>1 DEF Live, Healthy, Reachable
  <2>3. Ssrf(f) = Ssrf(e) /\ Paywall(f) = Paywall(e)
    BY <2>1 DEF Ssrf, Paywall
  <2>4. f.sales = e.sales => Liveness(f) = Liveness(e)
    BY <1>1, <2>1, <2>2 DEF Liveness, Sales
  <2> QED
    BY <2>1, <2>2, <2>3, <2>4
<1> QED
  BY <1>1, <1>2, <1>3, <1>4

(* Volume, sales and fleet read services, sales and settlement.            *)
LEMMA SignalsReadMoney ==
  ASSUME NEW e, NEW f, f.services = e.services, f.sales = e.sales, f.settlement = e.settlement
  PROVE  /\ Sales(f) = Sales(e) /\ Volume(f) = Volume(e)
         /\ SalesRecord(f) = SalesRecord(e)
         /\ f.fleet = e.fleet => OwnerFleet(f) = OwnerFleet(e)
<1>1. /\ Sales(f) = Sales(e) /\ PaidFees(f) = PaidFees(e) /\ MinFee(f) = MinFee(e)
  BY SignalsReadEndpoints DEF Sales
<1>2. Volume(f) = Volume(e)
  BY <1>1 DEF Volume, Measured
<1>3. SalesRecord(f) = SalesRecord(e)
  BY <1>1, <1>2 DEF SalesRecord, TrackRecord, SubCent
<1>4. f.fleet = e.fleet => OwnerFleet(f) = OwnerFleet(e)
  BY <1>2 DEF OwnerFleet, FleetPenalized
<1> QED
  BY <1>1, <1>2, <1>3, <1>4

(* These read one field each.                                              *)
LEMMA SignalsReadRest ==
  ASSUME NEW e, NEW f
  PROVE  /\ f.approval = e.approval => Review(f) = Review(e)
         /\ f.online = e.online => Online(f) = Online(e)
         /\ f.status = e.status => Active(f) = Active(e)
         /\ f.described = e.described => Effort(f) = Effort(e)
         /\ f.security = e.security => SecurityRating(f) = SecurityRating(e)
         /\ f.reviews = e.reviews => Reputation(f) = Reputation(e) /\ SelfReview(f) = SelfReview(e)
         /\ f.settlement = e.settlement => Settlement(f) = Settlement(e)
         /\ f.content = e.content => Content(f) = Content(e)
         /\ f.malicious = e.malicious => Malicious(f) = Malicious(e)
         /\ f.domain = e.domain => DomainBinding(f) = DomainBinding(e)
         /\ f.payto = e.payto => PayTo(f) = PayTo(e)
         /\ f.age = e.age => DomainAge(f) = DomainAge(e)
<1>1. /\ f.approval = e.approval => Review(f) = Review(e)
      /\ f.online = e.online => Online(f) = Online(e)
      /\ f.status = e.status => Active(f) = Active(e)
      /\ f.described = e.described => Effort(f) = Effort(e)
      /\ f.security = e.security => SecurityRating(f) = SecurityRating(e)
  BY DEF Review, Online, Active, Effort, SecurityRating
<1>2. f.reviews = e.reviews => Reputation(f) = Reputation(e) /\ SelfReview(f) = SelfReview(e)
  BY DEF Reputation, SelfReview
<1>3. f.settlement = e.settlement => Settlement(f) = Settlement(e)
  BY DEF Settlement
<1>4. /\ f.content = e.content => Content(f) = Content(e)
      /\ f.malicious = e.malicious => Malicious(f) = Malicious(e)
      /\ f.domain = e.domain => DomainBinding(f) = DomainBinding(e)
      /\ f.payto = e.payto => PayTo(f) = PayTo(e)
      /\ f.age = e.age => DomainAge(f) = DomainAge(e)
  BY DEF Content, Malicious, DomainBinding, PayTo, DomainAge
<1> QED
  BY <1>1, <1>2, <1>3, <1>4

(* These read one field and the sales.                                     *)
LEMMA SignalsReadSales ==
  ASSUME NEW e, NEW f, f.sales = e.sales
  PROVE  /\ f.test_named = e.test_named => TestAccount(f) = TestAccount(e)
         /\ f.security = e.security => AnomalyRating(f) = AnomalyRating(e)
         /\ f.reviews = e.reviews => ReviewRing(f) = ReviewRing(e)
<1>1. Sales(f) = Sales(e)
  BY DEF Sales
<1> QED
  BY <1>1 DEF TestAccount, AnomalyRating, ReviewRing

(* Confidence reads which sources spoke, not what they said.               *)
LEMMA ConfidenceReads ==
  ASSUME NEW e, NEW f, f.isAsp = e.isAsp, f.services = e.services, f.sales = e.sales,
         f.security # Absent <=> e.security # Absent, f.approval # Absent <=> e.approval # Absent
  PROVE  Confidence(f) = Confidence(e) /\ LowConfidence(f) = LowConfidence(e)
<1>1. Urls(f) = Urls(e)
  BY DEF Urls
<1>2. Confidence(f) = Confidence(e)
  BY <1>1 DEF Confidence, Part
<1> QED
  BY <1>2 DEF LowConfidence

-----------------------------------------------------------------------------
(* Selling more.                                                           *)

(* The evidence after a sale is that before it but for the count of sales  *)
(* and the fleet's, which the agent's own are part of.                     *)
SoldTo(e, f) ==
  /\ \A x \in DOMAIN e \ {"sales", "fleet"} : f[x] = e[x]
  /\ f.sales \in Nat /\ f.sales > Sales(e)
  /\ f.fleet = SoldMore(e.fleet, f.sales - Sales(e))

LEMMA SoldKeeps ==
  ASSUME NEW e \in Evidence, NEW f \in Evidence, SoldTo(e, f)
  PROVE  /\ f.isAsp = e.isAsp /\ f.services = e.services /\ f.probes = e.probes
         /\ f.flapping = e.flapping /\ f.slow = e.slow /\ f.approval = e.approval
         /\ f.online = e.online /\ f.status = e.status /\ f.security = e.security
         /\ f.described = e.described /\ f.test_named = e.test_named
         /\ f.reviews = e.reviews /\ f.settlement = e.settlement /\ f.content = e.content
         /\ f.malicious = e.malicious /\ f.domain = e.domain /\ f.payto = e.payto
         /\ f.age = e.age
         /\ Sales(f) = f.sales /\ Sales(e) \in Nat /\ Sales(f) \in Nat /\ Sales(f) > Sales(e)
<1>1. DOMAIN e = {"isAsp", "services", "probes", "flapping", "slow", "approval", "online",
                  "status", "sales", "security", "described", "test_named", "reviews",
                  "settlement", "content", "malicious", "domain", "payto", "age", "fleet"}
  BY DEF Evidence
<1>2. Sales(f) = f.sales
  BY AbsentAssumption DEF SoldTo, Sales
<1> QED
  BY <1>1, <1>2, SalesType DEF SoldTo

(* The volume grows with the sales, on either basis.                       *)
LEMMA SoldVolume ==
  ASSUME NEW e \in Evidence, NEW f \in Evidence, SoldTo(e, f)
  PROVE  Volume(e) <= Volume(f)
<1>1. /\ PaidFees(f) = PaidFees(e) /\ MinFee(f) = MinFee(e) /\ f.settlement = e.settlement
      /\ Sales(e) \in Nat /\ Sales(f) \in Nat /\ Sales(e) <= Sales(f)
  BY SoldKeeps, SignalsReadEndpoints
<1>2. Measured(f) = Measured(e)
  BY <1>1 DEF Measured
<1>3. Volume(e) \in Nat /\ Volume(f) \in Nat
  BY VolumeType
<1>4. CASE Measured(e) \/ PaidFees(e) = {}
  BY <1>1, <1>2, <1>3, <1>4 DEF Volume
<1>5. CASE ~Measured(e) /\ PaidFees(e) # {}
  <2>1. MinFee(e) \in Nat
    BY <1>5, MinFeeIsPaid
  <2>2. Sales(e) * MinFee(e) <= Sales(f) * MinFee(e)
    BY <1>1, <2>1
  <2> QED
    BY <1>1, <1>2, <1>5, <2>2 DEF Volume
<1> QED
  BY <1>4, <1>5

(* Signal by signal, each of the thresholds at 1, 10, 20 and 100 sales and *)
(* at half a dollar and five is a step up.                                 *)
LEMMA SoldSignals ==
  ASSUME NEW e \in Evidence, NEW f \in Evidence, SoldTo(e, f), PaidFees(e) # {}
  PROVE  \A k \in DOMAIN Signals(f) : NoBetter(Signals(e)[k], Signals(f)[k])
<1> USE DEF NoBetter, Silent, Moves, Caps
<1>1. /\ f.services = e.services /\ f.probes = e.probes /\ f.reviews = e.reviews
      /\ f.settlement = e.settlement /\ f.security = e.security /\ f.test_named = e.test_named
      /\ f.isAsp = e.isAsp /\ f.approval = e.approval
      /\ Sales(e) \in Nat /\ Sales(f) \in Nat /\ Sales(f) > Sales(e)
      /\ f.sales # Absent
  BY SoldKeeps, AbsentAssumption DEF SoldTo
<1>2. /\ Urls(f) = Urls(e) /\ PaidFees(f) = PaidFees(e) /\ MinFee(f) = MinFee(e)
      /\ \A kinds : Found(f, kinds) = Found(e, kinds)
      /\ Live(f) = Live(e) /\ Healthy(f) = Healthy(e) /\ Reachable(f) = Reachable(e)
      /\ Ssrf(f) = Ssrf(e) /\ Paywall(f) = Paywall(e) /\ Price(f) = Price(e)
      /\ Uptime(f) = Uptime(e) /\ Latency(f) = Latency(e)
  BY SoldKeeps, SignalsReadEndpoints
<1>3. /\ Review(f) = Review(e) /\ Online(f) = Online(e) /\ Active(f) = Active(e)
      /\ Effort(f) = Effort(e) /\ SecurityRating(f) = SecurityRating(e)
      /\ Reputation(f) = Reputation(e) /\ SelfReview(f) = SelfReview(e)
      /\ Settlement(f) = Settlement(e) /\ Content(f) = Content(e)
      /\ Malicious(f) = Malicious(e) /\ DomainBinding(f) = DomainBinding(e)
      /\ PayTo(f) = PayTo(e) /\ DomainAge(f) = DomainAge(e)
  BY SoldKeeps, SignalsReadRest
<1>4. Volume(e) \in Nat /\ Volume(f) \in Nat /\ Volume(e) <= Volume(f)
  BY SoldVolume, VolumeType
<1>5. NoBetter(Liveness(e), Liveness(f))
  BY <1>1, <1>2 DEF Liveness
<1>6. NoBetter(TestAccount(e), TestAccount(f)) /\ NoBetter(AnomalyRating(e), AnomalyRating(f))
  BY <1>1 DEF TestAccount, AnomalyRating
<1>7. NoBetter(ReviewRing(e), ReviewRing(f))
  <2> DEFINE r == e.reviews
  <2>1. /\ ReviewRing(f) = ReviewRing(e) \/ ReviewRing(f) = Silent
        /\ ReviewRing(e) \in {Silent, Caps(-12, 66), Caps(-8, 66)}
    BY <1>1 DEF ReviewRing
  <2> QED
    BY <2>1
<1>8. NoBetter(SalesRecord(e), SalesRecord(f))
  <2>1. NoBetter(TrackRecord(e), TrackRecord(f))
    BY <1>1, <1>2, <1>4 DEF TrackRecord, SubCent
  <2>2. TrackRecord(f).delta \in {6, 16, 22, 26} /\ TrackRecord(f).cap \in {69, 100}
    BY DEF TrackRecord
  <2> QED
    BY <1>1, <1>2, <2>1, <2>2 DEF SalesRecord
<1>9. NoBetter(OwnerFleet(e), OwnerFleet(f))
  <2>1. CASE e.fleet = Absent
    <3>1. f.fleet = Absent
      BY <2>1 DEF SoldTo, SoldMore
    <3> QED
      BY <2>1, <3>1 DEF OwnerFleet, FleetPenalized
  <2>2. CASE e.fleet # Absent
    <3>1. e.fleet \in Fleet
      BY <2>2 DEF Evidence
    <3>2. f.fleet = [e.fleet EXCEPT !.sales = @ + (f.sales - Sales(e))]
      BY <2>2 DEF SoldTo, SoldMore
    <3>3. /\ f.fleet.known = e.fleet.known /\ f.fleet.templated = e.fleet.templated
          /\ f.fleet.sales >= e.fleet.sales
          /\ f.fleet.known \in Nat /\ f.fleet.sales \in Nat /\ e.fleet.sales \in Nat
      BY <1>1, <3>1, <3>2, SoldKeeps DEF Fleet
    <3>4. FleetPenalized(f) => FleetPenalized(e)
      BY <1>4, <2>2, <3>3 DEF FleetPenalized, Suspect, Convicting
    <3> QED
      BY <3>3, <3>4 DEF OwnerFleet
  <2> QED
    BY <2>1, <2>2
<1>10. NoBetter(LowConfidence(e), LowConfidence(f))
  <2>1. Confidence(e) <= Confidence(f) /\ Confidence(e) \in Nat /\ Confidence(f) \in Nat
    BY <1>1, <1>2 DEF Confidence, Part
  <2> QED
    BY <2>1 DEF LowConfidence
<1> QED
  BY <1>2, <1>3, <1>5, <1>6, <1>7, <1>8, <1>9, <1>10 DEF Signals

(* So neither score nor ceiling drops.                                     *)
LEMMA SaleHelps ==
  ASSUME NEW e \in Evidence, NEW f \in Evidence, SoldTo(e, f), PaidFees(e) # {}
  PROVE  Score(f) >= Score(e) /\ MaxSafe(f) >= MaxSafe(e)
<1>1. f.isAsp = e.isAsp
  BY SoldKeeps
<1>2. Score(e) <= Score(f)
  BY <1>1, SoldSignals, ScoreMonotone
<1>3. Confidence(e) <= Confidence(f)
  <2>1. Urls(f) = Urls(e)
    BY SoldKeeps, SignalsReadEndpoints
  <2>2. f.sales # Absent
    BY AbsentAssumption DEF SoldTo
  <2> QED
    BY <2>1, <2>2, SoldKeeps DEF Confidence, Part
<1>4. MaxSafe(e) <= MaxSafe(f)
  BY <1>2, <1>3, SoldVolume, CreditMonotone
<1>5. Score(e) \in Int /\ Score(f) \in Int /\ MaxSafe(e) \in Int /\ MaxSafe(f) \in Int
  BY ScoreBounds, CreditType
<1> QED
  BY <1>2, <1>4, <1>5

(* One field of the evidence changed, no other.                            *)
OnlyIn(field, e, f) == \A x \in DOMAIN e \ {field} : f[x] = e[x]

(* One source reports, every other one what it did.                        *)
LEMMA ReportsOthers ==
  ASSUME evidence \in Evidence, NEW field, NEW v, Reports(field, v)
  PROVE  OnlyIn(field, evidence, evidence')
  BY DEF Reports, OnlyIn

(* What changes when nothing is sold: one field, and not the sales; with   *)
(* the last endpoint delisted what was known of it is taken back as well.  *)
Judged == {"isAsp", "services", "probes", "flapping", "slow", "approval", "online", "status",
           "security", "described", "test_named", "reviews", "settlement", "content",
           "malicious", "domain", "payto", "age", "fleet"}

Fields == Judged \cup {"sales"}

OneJudged(e, f) == \E field \in Judged : OnlyIn(field, e, f)

TakenBack(e, f) ==
  /\ \A x \in DOMAIN e \ {"services", "malicious", "domain", "payto", "age"} : f[x] = e[x]
  /\ f.services # e.services

LEMMA WhatChanges ==
  ASSUME evidence \in Evidence, Next
  PROVE  \/ SalesGrow
         \/ TakenBack(evidence, evidence')
         \/ OneJudged(evidence, evidence')
<1>1. ASSUME NEW field \in Judged, NEW v, Reports(field, v)
      PROVE  OneJudged(evidence, evidence')
  BY <1>1, ReportsOthers DEF OneJudged
<1>2. CASE ListingEdited
  BY <1>1, <1>2 DEF ListingEdited, Judged
<1>3. CASE Rated \/ ServiceListed
  BY <1>1, <1>3 DEF Rated, ServiceListed, Judged
<1>4. CASE Probed \/ HistoryRead
  BY <1>1, <1>4 DEF Probed, HistoryRead, Judged
<1>5. CASE Scanned \/ Identified
  BY <1>1, <1>5 DEF Scanned, Identified, Judged
<1>6. CASE Reviewed
  <2>1. \E r : Reports("reviews", r)
    BY <1>6 DEF Reviewed
  <2> QED
    BY <1>1, <2>1 DEF Judged
<1>7. CASE OwnerIndexed \/ SettlementsRead
  BY <1>1, <1>7 DEF OwnerIndexed, SettlementsRead, Judged
<1>8. CASE ServiceDelisted
  <2> DEFINE fewer(s) == [evidence EXCEPT !.services = @ \ {s}]
  <2>1. PICK s \in evidence.services : evidence' = Unhosted(fewer(s))
    BY <1>8 DEF ServiceDelisted
  <2>2. /\ fewer(s) \in Evidence /\ DOMAIN fewer(s) = DOMAIN evidence
        /\ \A x \in DOMAIN evidence \ {"services"} : fewer(s)[x] = evidence[x]
        /\ fewer(s).services # evidence.services
    BY DEF Evidence
  <2> HIDE DEF fewer
  <2>3. \/ evidence' = fewer(s)
        \/ evidence' = [fewer(s) EXCEPT !.malicious = FALSE, !.domain = "absent",
                                        !.payto = FALSE, !.age = Absent]
    BY <2>1 DEF Unhosted
  <2>4. ASSUME NEW e, e \in Evidence
        PROVE  LET f == [e EXCEPT !.malicious = FALSE, !.domain = "absent",
                                  !.payto = FALSE, !.age = Absent]
               IN  /\ \A x \in DOMAIN e \ {"malicious", "domain", "payto", "age"} : f[x] = e[x]
                   /\ f.services = e.services
    BY <2>4 DEF Evidence
  <2> QED
    BY <2>2, <2>3, <2>4 DEF TakenBack
<1> QED
  BY <1>2, <1>3, <1>4, <1>5, <1>6, <1>7, <1>8 DEF Next

(* The step that sells.                                                    *)
LEMMA SaleStep ==
  ASSUME evidence \in Evidence, SalesGrow
  PROVE  SoldTo(evidence, evidence')
<1>1. PICK n \in SalesCounts :
        /\ n > Sales(evidence)
        /\ evidence' = [evidence EXCEPT !.sales = n,
                                        !.fleet = SoldMore(@, n - Sales(evidence))]
  BY DEF SalesGrow
<1>2. n \in Nat
  BY SourcesAssumption
<1>3. PICK e \in Evidence : e = evidence
  OBVIOUS
<1>4. DOMAIN e = Judged \cup {"sales"}
  BY DEF Evidence, Judged
<1>5. /\ \A x \in DOMAIN e \ {"sales", "fleet"} : evidence'[x] = e[x]
      /\ evidence'.sales = n /\ evidence'.fleet = SoldMore(e.fleet, n - Sales(e))
  BY <1>1, <1>3, <1>4 DEF Judged
<1> QED
  BY <1>1, <1>2, <1>3, <1>5 DEF SoldTo

(* No other source touches the count of sales.                             *)
LEMMA OthersSellNothing ==
  ASSUME NEW e \in Evidence, NEW f, TakenBack(e, f) \/ OneJudged(e, f)
  PROVE  f.sales = e.sales
<1>1. "sales" \in DOMAIN e
  BY DEF Evidence
<1> QED
  BY <1>1 DEF TakenBack, OneJudged, OnlyIn, Judged

(* SaleNeverHurts, of one step.                                            *)
LEMMA SaleNeverHurtsStep ==
  ASSUME Typed, Typed', [Next]_vars, Sales(evidence') > Sales(evidence), PaidFees(evidence) # {}
  PROVE  Score(evidence') >= Score(evidence) /\ MaxSafe(evidence') >= MaxSafe(evidence)
<1>1. PICK e \in Evidence, f \in Evidence : e = evidence /\ f = evidence'
  BY DEF Typed
<1>2. SoldTo(e, f)
  <2>1. CASE UNCHANGED vars
    <3>1. Sales(f) = Sales(e) /\ Sales(e) \in Nat
      BY <1>1, <2>1, SalesType DEF vars
    <3> QED
      BY <1>1, <3>1
  <2>2. CASE TakenBack(e, f) \/ OneJudged(e, f)
    <3>1. Sales(f) = Sales(e) /\ Sales(e) \in Nat
      BY <2>2, OthersSellNothing, SalesType DEF Sales
    <3> QED
      BY <1>1, <3>1
  <2>3. CASE SalesGrow
    BY <1>1, <2>3, SaleStep
  <2> QED
    BY <1>1, <2>1, <2>2, <2>3, WhatChanges
<1> QED
  BY <1>1, <1>2, SaleHelps

(* Selling more never costs an agent that charges: whatever the evidence,  *)
(* neither score nor ceiling drops (engine.py:262-304).                    *)
THEOREM SellingHelps == Spec => SaleNeverHurts
<1>1. Typed /\ Typed' /\ [Next]_vars =>
        (Sales(evidence') > Sales(evidence) /\ PaidFees(evidence) # {} =>
           /\ Score(evidence') >= Score(evidence)
           /\ MaxSafe(evidence') >= MaxSafe(evidence))
  BY SaleNeverHurtsStep
<1> QED
  BY <1>1, AlwaysTyped, PTL DEF Spec, SaleNeverHurts

-----------------------------------------------------------------------------
(* The Wilson bound falls with every rating that is not a good one, and a  *)
(* bound that reaches a share reaches every smaller one above one half.    *)
LEMMA SquareMonotone ==
  ASSUME NEW a \in Nat, NEW b \in Nat, a <= b
  PROVE  a * a \in Nat /\ b * b \in Nat /\ a * a <= b * b
<1>1. a * a <= a * b /\ a * b <= b * b
  OBVIOUS
<1> QED
  BY <1>1

(* One more rating, and not a good one: what the bound reaches now it did  *)
(* reach before.                                                           *)
LEMMA WilsonFalls ==
  ASSUME NEW pos \in Nat, NEW n \in Nat, NEW t \in 0..130, WilsonReaches(pos, n + 1, t)
  PROVE  WilsonReaches(pos, n, t)
<1> DEFINE a == 130 * pos - t * (n + 1)
           b == 130 * pos - t * n
           c == t * (130 - t)
<1>1. b = a + t
  OBVIOUS
<1>2. a \in Nat /\ b \in Nat /\ a <= b
  BY <1>1 DEF WilsonReaches
<1>3. a * a \in Nat /\ b * b \in Nat /\ a * a <= b * b
  <2> HIDE DEF a, b
  <2> QED BY <1>2, SquareMonotone
<1>4. c \in Nat
  OBVIOUS
<1>5. 625 * (a * a) >= 2401 * ((n + 1) * c)
  <2>1. 625 * a * a >= 2401 * (n + 1) * t * (130 - t)
    BY DEF WilsonReaches
  <2>2. 2401 * (n + 1) * t * (130 - t) = 2401 * ((n + 1) * c)
    OBVIOUS
  <2>3. 625 * a * a = 625 * (a * a)
    <3> HIDE DEF a
    <3> QED BY <1>2
  <2> QED
    BY <2>1, <2>2, <2>3
<1>6. (n + 1) * c = n * c + c /\ n * c \in Nat
  <2> HIDE DEF c
  <2> QED BY <1>4
<1>7. 625 * (b * b) >= 2401 * (n * c)
  <2> HIDE DEF a, b, c
  <2> QED BY <1>3, <1>4, <1>5, <1>6
<1>8. 625 * b * b >= 2401 * n * t * (130 - t)
  <2>1. 2401 * n * t * (130 - t) = 2401 * (n * c)
    OBVIOUS
  <2>2. 625 * b * b = 625 * (b * b)
    <3> HIDE DEF b
    <3> QED BY <1>2
  <2> QED
    BY <1>7, <2>1, <2>2
<1> QED
  BY <1>2, <1>8 DEF WilsonReaches

(* Of shares above one half: it is here that the positive ones must be no  *)
(* more than all.                                                          *)
LEMMA WilsonReachesLess ==
  ASSUME NEW pos \in Nat, NEW n \in Nat \ {0}, pos <= n,
         NEW t \in 69..129, NEW s \in 69..129, s <= t, WilsonReaches(pos, n, t)
  PROVE  WilsonReaches(pos, n, s)
<1> DEFINE a == 130 * pos - t * n
           b == 130 * pos - s * n
           g == (t - s) * n
           h == n * (130 - t)
<1>1. a \in Nat /\ g \in Nat /\ h \in Nat /\ b = a + g /\ a <= h /\ h > 0
  BY DEF WilsonReaches
<1>2. 625 * (a * a) >= 2401 * (t * h)
  <2>1. 625 * a * a >= 2401 * n * t * (130 - t)
    BY DEF WilsonReaches
  <2>2. 2401 * n * t * (130 - t) = 2401 * (t * h)
    OBVIOUS
  <2>3. 625 * a * a = 625 * (a * a)
    <3> HIDE DEF a
    <3> QED BY <1>1
  <2> QED
    BY <2>1, <2>2, <2>3
<1>3. 625 * a >= 2401 * t
  <2> HIDE DEF a, h
  <2>1. t * h >= t * a /\ t * h > 0
    BY <1>1
  <2>2. a > 0
    BY <1>1, <1>2, <2>1
  <2>3. a * (625 * a) >= a * (2401 * t)
    BY <1>1, <1>2, <2>1
  <2> QED
    BY <1>1, <2>2, <2>3
<1>4. b * b >= a * a + 2 * (a * g)
  <2> HIDE DEF a, b, g
  <2>1. b * b = a * a + 2 * (a * g) + g * g /\ g * g \in Nat
    BY <1>1
  <2> QED
    BY <1>1, <2>1
<1>5. 625 * (a * g) >= 2401 * (t * g)
  <2> HIDE DEF a, g
  <2>1. (625 * a) * g >= (2401 * t) * g
    BY <1>1, <1>3
  <2> QED
    BY <1>1, <2>1
<1>6. 625 * (b * b) >= 2401 * (t * h) + 4802 * (t * g)
  <2> HIDE DEF a, b, g, h
  <2> QED BY <1>1, <1>2, <1>4, <1>5
<1>7. n * s * (130 - s) = t * h + (s + t - 130) * g
  OBVIOUS
<1>8. (s + t - 130) * g <= (2 * t) * g
  <2> HIDE DEF g
  <2>1. s + t - 130 <= 2 * t /\ s + t - 130 \in Nat
    OBVIOUS
  <2> QED
    BY <1>1, <2>1
<1>9. 625 * (b * b) >= 2401 * (n * s * (130 - s))
  <2> HIDE DEF b, g, h
  <2>1. (2 * t) * g = 2 * (t * g)
    BY <1>1
  <2> QED
    BY <1>1, <1>6, <1>7, <1>8, <2>1
<1>10. 625 * b * b >= 2401 * n * s * (130 - s)
  <2>1. 2401 * n * s * (130 - s) = 2401 * (n * s * (130 - s))
    OBVIOUS
  <2>2. 625 * b * b = 625 * (b * b)
    <3> HIDE DEF a, b, g
    <3> QED BY <1>1
  <2> QED
    BY <1>9, <2>1, <2>2
<1> QED
  BY <1>1, <1>10 DEF WilsonReaches

(* So the reputation delta never rises with such a rating.                 *)
LEMMA WilsonDeltaFalls ==
  ASSUME NEW pos \in Nat, NEW n \in Nat, pos <= n
  PROVE  IF n = 0 THEN WilsonDelta(pos, n + 1) = 0
                  ELSE WilsonDelta(pos, n + 1) <= WilsonDelta(pos, n)
<1> DEFINE d == WilsonDelta(pos, n)
           c == WilsonDelta(pos, n + 1)
<1>1. d \in 0..12 /\ c \in 0..12
  BY WilsonDeltaIs
<1>2. CASE n = 0
  <2>1. ~WilsonReaches(pos, n + 1, 69 + 5 * c)
    BY <1>1, <1>2 DEF WilsonReaches
  <2> QED
    BY <1>2, <2>1, WilsonDeltaIs
<1>3. CASE n # 0
  <2> SUFFICES ASSUME c > d PROVE FALSE
    BY <1>1, <1>3
  <2>1. c # 0 /\ d # 12 /\ 69 + 5 * c \in 69..129 /\ 69 + 5 * c \in 0..130
        /\ 69 + 5 * (d + 1) \in 69..129
        /\ 69 + 5 * (d + 1) <= 69 + 5 * c
    BY <1>1
  <2>2. WilsonReaches(pos, n + 1, 69 + 5 * c)
    BY <2>1, WilsonDeltaIs
  <2> HIDE DEF c, d
  <2>3. WilsonReaches(pos, n, 69 + 5 * c)
    BY <2>1, <2>2, WilsonFalls
  <2>4. WilsonReaches(pos, n, 69 + 5 * (d + 1))
    BY <1>3, <2>1, <2>3, WilsonReachesLess
  <2> QED
    BY <2>1, <2>4, WilsonDeltaIs DEF d
<1> QED
  BY <1>2, <1>3

-----------------------------------------------------------------------------
(* Worse news.                                                             *)

LEMMA EvidenceFields ==
  ASSUME NEW e \in Evidence
  PROVE  DOMAIN e = Fields
  BY DEF Evidence, Fields, Judged

(* Everything that is not about the one field stays.                       *)
LEMMA NothingBetter ==
  ASSUME NEW e \in Evidence, NEW f \in Evidence, f.isAsp = e.isAsp,
         \A k \in DOMAIN Signals(e) : NoBetter(Signals(f)[k], Signals(e)[k]),
         Volume(f) = Volume(e), Confidence(f) = Confidence(e)
  PROVE  Rank(Verdict(f)) <= Rank(Verdict(e)) /\ MaxSafe(f) <= MaxSafe(e)
<1>1. Score(f) <= Score(e)
  BY ScoreMonotone
<1>2. Volume(e) \in Nat /\ Confidence(e) \in Nat
  BY VolumeType DEF Confidence, Part
<1> QED
  BY <1>1, <1>2, CreditMonotone

(* News that moves deltas and caps and nothing else: neither the volume nor *)
(* how many sources spoke.                                                 *)
SoftNews(e, f) ==
  /\ f.isAsp = e.isAsp /\ f.services = e.services /\ f.probes = e.probes
  /\ f.status = e.status /\ f.sales = e.sales /\ f.reviews = e.reviews
  /\ f.settlement = e.settlement /\ f.malicious = e.malicious
  /\ f.approval = e.approval \/ (e.approval = 4 /\ f.approval = 2)
  /\ f.online = e.online \/ f.online = 0
  /\ f.described = e.described \/ ~f.described
  /\ f.test_named = e.test_named \/ f.test_named
  /\ f.flapping = e.flapping \/ f.flapping
  /\ f.slow = e.slow \/ f.slow
  /\ f.content = e.content \/ e.content = "clean" \/ f.content = "critical"
  /\ f.domain = e.domain \/ e.domain = "match" \/ f.domain = "mismatch"
  /\ f.payto = e.payto \/ ~f.payto
  /\ f.age = e.age \/ (f.age # Absent /\ (e.age = Absent \/ f.age < e.age))
  /\ f.security = e.security \/ WorseRating(e, f)
  /\ f.fleet = e.fleet \/ WorseFleet(e, f)

LEMMA SoftNewsHurts ==
  ASSUME NEW e \in Evidence, NEW f \in Evidence, SoftNews(e, f)
  PROVE  Rank(Verdict(f)) <= Rank(Verdict(e)) /\ MaxSafe(f) <= MaxSafe(e)
<1> USE DEF NoBetter, Silent, Moves, Caps
<1>1. /\ f.isAsp = e.isAsp /\ f.services = e.services /\ f.probes = e.probes
      /\ f.status = e.status /\ f.sales = e.sales /\ f.reviews = e.reviews
      /\ f.settlement = e.settlement /\ f.malicious = e.malicious
  BY DEF SoftNews
<1>2. /\ Urls(f) = Urls(e) /\ Ssrf(f) = Ssrf(e) /\ Paywall(f) = Paywall(e)
      /\ Price(f) = Price(e) /\ Liveness(f) = Liveness(e)
  BY <1>1, SignalsReadEndpoints
<1>3. /\ Volume(f) = Volume(e) /\ SalesRecord(f) = SalesRecord(e) /\ Sales(f) = Sales(e)
      /\ f.fleet = e.fleet => OwnerFleet(f) = OwnerFleet(e)
  BY <1>1, SignalsReadMoney
<1>4. /\ Active(f) = Active(e) /\ Reputation(f) = Reputation(e)
      /\ SelfReview(f) = SelfReview(e) /\ Settlement(f) = Settlement(e)
      /\ Malicious(f) = Malicious(e)
  BY <1>1, SignalsReadRest
<1>5. ReviewRing(f) = ReviewRing(e)
  BY <1>1, SignalsReadSales
<1>6. Confidence(f) = Confidence(e) /\ LowConfidence(f) = LowConfidence(e)
  <2>1. /\ f.security # Absent <=> e.security # Absent
        /\ f.approval # Absent <=> e.approval # Absent
    BY AbsentAssumption DEF SoftNews, WorseRating
  <2> QED
    BY <1>1, <2>1, ConfidenceReads
<1>7. NoBetter(Uptime(f), Uptime(e)) /\ NoBetter(Latency(f), Latency(e))
  BY <1>2 DEF SoftNews, Uptime, Latency
<1>8. NoBetter(Review(f), Review(e)) /\ NoBetter(Online(f), Online(e))
  BY AbsentAssumption DEF SoftNews, Review, Online
<1>9. NoBetter(Effort(f), Effort(e)) /\ NoBetter(TestAccount(f), TestAccount(e))
  BY <1>3 DEF SoftNews, Effort, TestAccount
<1>10. NoBetter(Content(f), Content(e))
  <2>1. e.content \in {"clean", "warn", "critical"} /\ f.content \in {"clean", "warn", "critical"}
    BY DEF Evidence
  <2>2. f.content = e.content \/ e.content = "clean" \/ f.content = "critical"
    BY DEF SoftNews
  <2> QED
    BY <2>1, <2>2 DEF Content
<1>11. NoBetter(DomainBinding(f), DomainBinding(e)) /\ NoBetter(PayTo(f), PayTo(e))
  BY DEF SoftNews, DomainBinding, PayTo
<1>12. NoBetter(DomainAge(f), DomainAge(e))
  <2>1. e.age \in {Absent} \cup Nat /\ f.age \in {Absent} \cup Nat
    BY DEF Evidence
  <2> QED
    BY <2>1 DEF SoftNews, DomainAge
<1>13. /\ NoBetter(SecurityRating(f), SecurityRating(e))
       /\ NoBetter(AnomalyRating(f), AnomalyRating(e))
  <2>1. CASE f.security = e.security
    BY <1>1, <2>1, SignalsReadRest, SignalsReadSales
  <2>2. CASE WorseRating(e, f)
    <3>1. /\ e.security \in 0..500 /\ f.security \in 0..500 /\ f.security < e.security
          /\ e.security # Absent /\ f.security # Absent /\ AnomalyRating(f) = AnomalyRating(e)
      BY <2>2 DEF WorseRating, Evidence
    <3>2. Round((f.security - 300) * 6, 100) <= Round((e.security - 300) * 6, 100)
      <4>1. \A x, y \in Int : x <= y => Round(x, 100) <= Round(y, 100)
        BY DEF Round
      <4>2. /\ (f.security - 300) * 6 \in Int /\ (e.security - 300) * 6 \in Int
            /\ (f.security - 300) * 6 <= (e.security - 300) * 6
        <5>1. \A a, b \in 0..500 : a < b => /\ (a - 300) * 6 \in Int /\ (b - 300) * 6 \in Int
                                           /\ (a - 300) * 6 <= (b - 300) * 6
          OBVIOUS
        <5> QED
          BY <3>1, <5>1
      <4> QED
        BY <4>1, <4>2
    <3> QED
      BY <3>1, <3>2 DEF SecurityRating
  <2> QED
    BY <2>1, <2>2 DEF SoftNews
<1>14. NoBetter(OwnerFleet(f), OwnerFleet(e))
  <2>1. CASE f.fleet = e.fleet
    BY <1>3, <2>1
  <2>2. CASE e.fleet = Absent /\ f.fleet # Absent
    <3>1. OwnerFleet(f) \in {Silent, Caps(-12, 62), Caps(-20, 58), Caps(-28, 52)}
      BY DEF OwnerFleet, FleetPenalized, Evidence, Fleet
    <3>2. OwnerFleet(e) = Silent
      BY <2>2 DEF OwnerFleet, FleetPenalized
    <3> QED
      BY <3>1, <3>2
  <2>3. CASE e.fleet # Absent /\ WorseFleet(e, f)
    <3>1. /\ e.fleet \in Fleet /\ f.fleet \in Fleet /\ f.fleet # Absent
          /\ f.fleet.known >= e.fleet.known /\ f.fleet.templated >= e.fleet.templated
          /\ f.fleet.sales <= e.fleet.sales
      BY <2>3 DEF WorseFleet, Evidence
    <3>2. FleetPenalized(e) => FleetPenalized(f)
      BY <1>3, <2>3, <3>1 DEF FleetPenalized, Suspect, Convicting, Fleet
    <3> QED
      BY <3>1, <3>2 DEF OwnerFleet, FleetPenalized, Fleet
  <2> QED
    BY <2>1, <2>2, <2>3 DEF SoftNews, WorseFleet
<1>15. \A k \in DOMAIN Signals(e) : NoBetter(Signals(f)[k], Signals(e)[k])
  BY <1>2, <1>3, <1>4, <1>5, <1>6, <1>7, <1>8, <1>9, <1>10, <1>11, <1>12, <1>13, <1>14
     DEF Signals
<1> QED
  BY <1>1, <1>3, <1>6, <1>15, NothingBetter

(* An organic book that shrinks, or nothing found on chain for the first    *)
(* time: with no more volume neither the sales nor the fleet look better.  *)
LEMMA WorseSettlementHurts ==
  ASSUME NEW e \in Evidence, NEW f \in Evidence, OnlyIn("settlement", e, f),
         f.settlement # Absent,
         \/ e.settlement = Absent /\ f.settlement.tx = 0
         \/ e.settlement # Absent /\ ~Washed(e.settlement) /\ Volume(f) <= Volume(e)
  PROVE  Rank(Verdict(f)) <= Rank(Verdict(e)) /\ MaxSafe(f) <= MaxSafe(e)
<1> USE DEF NoBetter, Silent, Moves, Caps
<1>1. /\ f.isAsp = e.isAsp /\ f.services = e.services /\ f.probes = e.probes
      /\ f.flapping = e.flapping /\ f.slow = e.slow /\ f.approval = e.approval
      /\ f.online = e.online /\ f.status = e.status /\ f.sales = e.sales
      /\ f.security = e.security /\ f.described = e.described /\ f.test_named = e.test_named
      /\ f.reviews = e.reviews /\ f.content = e.content
      /\ f.malicious = e.malicious /\ f.domain = e.domain /\ f.payto = e.payto
      /\ f.age = e.age /\ f.fleet = e.fleet
  BY EvidenceFields DEF OnlyIn, Fields, Judged
<1>2. /\ Ssrf(f) = Ssrf(e) /\ Paywall(f) = Paywall(e) /\ Price(f) = Price(e)
      /\ Liveness(f) = Liveness(e) /\ Uptime(f) = Uptime(e) /\ Latency(f) = Latency(e)
      /\ PaidFees(f) = PaidFees(e) /\ MinFee(f) = MinFee(e)
  BY <1>1, SignalsReadEndpoints
<1>3. /\ Review(f) = Review(e) /\ Online(f) = Online(e) /\ Content(f) = Content(e)
      /\ Active(f) = Active(e) /\ Effort(f) = Effort(e)
      /\ SecurityRating(f) = SecurityRating(e)
      /\ Reputation(f) = Reputation(e) /\ SelfReview(f) = SelfReview(e)
      /\ Malicious(f) = Malicious(e) /\ DomainBinding(f) = DomainBinding(e)
      /\ PayTo(f) = PayTo(e) /\ DomainAge(f) = DomainAge(e)
  BY <1>1, SignalsReadRest
<1>4. /\ TestAccount(f) = TestAccount(e) /\ AnomalyRating(f) = AnomalyRating(e)
      /\ ReviewRing(f) = ReviewRing(e)
  BY <1>1, SignalsReadSales
<1>5. Confidence(f) = Confidence(e) /\ LowConfidence(f) = LowConfidence(e)
  BY <1>1, ConfidenceReads
<1>6. /\ Volume(e) \in Nat /\ Volume(f) \in Nat /\ Sales(e) \in Nat /\ Sales(f) = Sales(e)
  BY <1>1, VolumeType, SalesType DEF Sales
<1>7. Volume(f) <= Volume(e)
  <2>1. CASE e.settlement = Absent /\ f.settlement.tx = 0
    <3>1. ~Measured(e) /\ ~Measured(f)
      BY <2>1 DEF Measured, Washed
    <3>2. Volume(f) = Volume(e)
      BY <1>2, <1>6, <3>1 DEF Volume
    <3> QED
      BY <1>6, <3>2
  <2> QED
    BY <2>1
<1>8. NoBetter(Settlement(f), Settlement(e))
  <2>1. CASE e.settlement = Absent /\ f.settlement.tx = 0
    BY <2>1 DEF Settlement
  <2>2. CASE e.settlement # Absent /\ ~Washed(e.settlement)
    <3>1. Settlement(e) = Moves(14)
      BY <2>2 DEF Settlement, Washed
    <3>2. Settlement(f) \in {Caps(0, 64), Caps(-30, 44), Moves(14)}
      BY DEF Settlement
    <3> QED
      BY <3>1, <3>2
  <2> QED
    BY <2>1, <2>2
<1>9. NoBetter(SalesRecord(f), SalesRecord(e))
  <2>1. NoBetter(TrackRecord(f), TrackRecord(e))
    BY <1>2, <1>6, <1>7 DEF TrackRecord, SubCent
  <2> QED
    BY <1>2, <1>6, <2>1 DEF SalesRecord
<1>10. NoBetter(OwnerFleet(f), OwnerFleet(e))
  <2>1. OwnerFleet(f) \in {Silent, Caps(-12, 62), Caps(-20, 58), Caps(-28, 52)}
    BY DEF OwnerFleet, FleetPenalized, Evidence, Fleet
  <2>2. FleetPenalized(e) => FleetPenalized(f)
    BY <1>1, <1>6, <1>7 DEF FleetPenalized
  <2>3. ~FleetPenalized(e) => OwnerFleet(e) = Silent
    BY DEF OwnerFleet
  <2>4. FleetPenalized(e) => OwnerFleet(f) = OwnerFleet(e)
    BY <1>1, <2>2 DEF OwnerFleet
  <2> QED
    BY <2>1, <2>3, <2>4
<1>11. Score(f) <= Score(e)
  <2>1. \A k \in DOMAIN Signals(e) : NoBetter(Signals(f)[k], Signals(e)[k])
    BY <1>2, <1>3, <1>4, <1>5, <1>8, <1>9, <1>10 DEF Signals
  <2> QED
    BY <1>1, <2>1, ScoreMonotone
<1>12. Confidence(f) <= Confidence(e)
  BY <1>5 DEF Confidence, Part
<1> QED
  BY <1>7, <1>11, <1>12, CreditMonotone

(* A review that is no good one, by an author already known.               *)
LEMMA WorseReviewsHurt ==
  ASSUME NEW e \in Evidence, NEW f \in Evidence, OnlyIn("reviews", e, f),
         f.reviews.rated = e.reviews.rated + 1, f.reviews.positive = e.reviews.positive,
         f.reviews.reviewers = e.reviews.reviewers + 1,
         f.reviews.distinct = e.reviews.distinct,
         e.reviews.own => f.reviews.own
  PROVE  Rank(Verdict(f)) <= Rank(Verdict(e)) /\ MaxSafe(f) <= MaxSafe(e)
<1> USE DEF NoBetter, Silent, Moves, Caps
<1>1. /\ f.isAsp = e.isAsp /\ f.services = e.services /\ f.probes = e.probes
      /\ f.flapping = e.flapping /\ f.slow = e.slow /\ f.approval = e.approval
      /\ f.online = e.online /\ f.status = e.status /\ f.sales = e.sales
      /\ f.security = e.security /\ f.described = e.described /\ f.test_named = e.test_named
      /\ f.settlement = e.settlement /\ f.content = e.content
      /\ f.malicious = e.malicious /\ f.domain = e.domain /\ f.payto = e.payto
      /\ f.age = e.age /\ f.fleet = e.fleet
  BY EvidenceFields DEF OnlyIn, Fields, Judged
<1>2. /\ Ssrf(f) = Ssrf(e) /\ Paywall(f) = Paywall(e) /\ Price(f) = Price(e)
      /\ Liveness(f) = Liveness(e) /\ Uptime(f) = Uptime(e) /\ Latency(f) = Latency(e)
  BY <1>1, SignalsReadEndpoints
<1>3. /\ Sales(f) = Sales(e) /\ Volume(f) = Volume(e)
      /\ SalesRecord(f) = SalesRecord(e) /\ OwnerFleet(f) = OwnerFleet(e)
  BY <1>1, SignalsReadMoney
<1>4. /\ Review(f) = Review(e) /\ Online(f) = Online(e) /\ Content(f) = Content(e)
      /\ Active(f) = Active(e) /\ Effort(f) = Effort(e)
      /\ SecurityRating(f) = SecurityRating(e) /\ Settlement(f) = Settlement(e)
      /\ Malicious(f) = Malicious(e) /\ DomainBinding(f) = DomainBinding(e)
      /\ PayTo(f) = PayTo(e) /\ DomainAge(f) = DomainAge(e)
  BY <1>1, SignalsReadRest
<1>5. TestAccount(f) = TestAccount(e) /\ AnomalyRating(f) = AnomalyRating(e)
  BY <1>1, SignalsReadSales
<1>6. Confidence(f) = Confidence(e) /\ LowConfidence(f) = LowConfidence(e)
  BY <1>1, ConfidenceReads
<1>7. /\ e.reviews \in Reviews /\ e.reviews.rated \in Nat /\ e.reviews.positive \in Nat
      /\ e.reviews.reviewers \in Nat /\ e.reviews.distinct \in Nat
      /\ e.reviews.positive <= e.reviews.rated
  BY DEF Evidence, Reviews
<1>8. NoBetter(SelfReview(f), SelfReview(e))
  BY DEF SelfReview
<1>9. NoBetter(ReviewRing(f), ReviewRing(e))
  BY <1>3, <1>7, SalesType DEF ReviewRing
<1>10. NoBetter(Reputation(f), Reputation(e))
  <2> DEFINE n == e.reviews.rated
             p == e.reviews.positive
             d == WilsonDelta(p, n)
             c == WilsonDelta(p, n + 1)
  <2>1. IF n = 0 THEN c = 0 ELSE c <= d
    BY <1>7, WilsonDeltaFalls
  <2>2. c \in 0..12 /\ d \in 0..12
    BY WilsonDeltaIs
  <2>3. Reputation(f) = IF n + 1 >= 5 /\ 10 * p < 8 * (n + 1) THEN Caps(c, 62) ELSE Moves(c)
    BY <1>7 DEF Reputation
  <2>4. Reputation(e) = IF n = 0 THEN Silent
                        ELSE IF n >= 5 /\ 10 * p < 8 * n THEN Caps(d, 62) ELSE Moves(d)
    BY <1>7 DEF Reputation
  <2> HIDE DEF c, d
  <2> QED
    BY <1>7, <2>1, <2>2, <2>3, <2>4
<1>11. \A k \in DOMAIN Signals(e) : NoBetter(Signals(f)[k], Signals(e)[k])
  BY <1>2, <1>3, <1>4, <1>5, <1>6, <1>8, <1>9, <1>10 DEF Signals
<1> QED
  BY <1>1, <1>3, <1>6, <1>11, NothingBetter

(* An endpoint that does worse than it did.                                *)
LEMMA WorseProbeHurts ==
  ASSUME NEW e \in Evidence, NEW f \in Evidence, OnlyIn("probes", e, f),
         NEW u \in Urls(e), NEW k \in ProbeResults, f.probes = [e.probes EXCEPT ![u] = k],
         Standing(k) < Standing(e.probes[u])
  PROVE  Rank(Verdict(f)) <= Rank(Verdict(e)) /\ MaxSafe(f) <= MaxSafe(e)
<1> USE DEF NoBetter, Silent, Moves, Caps
<1>1. /\ f.isAsp = e.isAsp /\ f.services = e.services /\ f.reviews = e.reviews
      /\ f.flapping = e.flapping /\ f.slow = e.slow /\ f.approval = e.approval
      /\ f.online = e.online /\ f.status = e.status /\ f.sales = e.sales
      /\ f.security = e.security /\ f.described = e.described /\ f.test_named = e.test_named
      /\ f.settlement = e.settlement /\ f.content = e.content
      /\ f.malicious = e.malicious /\ f.domain = e.domain /\ f.payto = e.payto
      /\ f.age = e.age /\ f.fleet = e.fleet
  BY EvidenceFields DEF OnlyIn, Fields, Judged
<1>2. /\ u \in Endpoints /\ Urls(e) \subseteq Endpoints /\ Urls(f) = Urls(e)
      /\ e.probes \in [Endpoints -> ProbeResults]
  <2>1. Urls(e) \subseteq Endpoints
    BY DEF Evidence, Service, Urls
  <2> QED
    BY <1>1, <2>1 DEF Evidence, Urls
<1>3. /\ f.probes[u] = k
      /\ \A v \in Urls(e) \ {u} : f.probes[v] = e.probes[v]
  BY <1>2
<1>4. CASE k = "blocked"
  <2>1. HardFailure(f)
    BY <1>2, <1>3, <1>4 DEF HardFailure, Found
  <2>2. Verdict(f) = "BLOCK" /\ MaxSafe(f) = 0
    BY <2>1, OneHardFailureBlocks
  <2>3. MaxSafe(e) \in Nat /\ Rank(Verdict(e)) \in {0, 1, 2}
    BY CreditType DEF Rank
  <2> QED
    BY <2>2, <2>3 DEF Rank
<1>5. CASE k # "blocked"
  <2> DEFINE j == e.probes[u]
  <2>1. /\ j \in ProbeResults /\ k # j /\ j # "blocked" /\ k # "x402"
        /\ k = "api" => j = "x402"
        /\ k \in {"broken", "timeout"} => j \in {"x402", "api"}
        /\ k = "refused" => j \in {"x402", "api", "broken", "timeout"}
        /\ k \in {"api", "broken", "timeout", "refused"}
    BY <1>2, <1>5 DEF ProbeResults, Standing
  <2>2. /\ \A kinds : k \notin kinds => Found(f, kinds) = Found(e, kinds) \ {u}
        /\ \A kinds : k \in kinds => Found(f, kinds) = Found(e, kinds) \cup {u}
        /\ \A kinds : u \in Found(e, kinds) <=> j \in kinds
    BY <1>2, <1>3 DEF Found
  <2> HIDE DEF j
  <2>3. /\ Found(f, {"blocked"}) = Found(e, {"blocked"})
        /\ Found(f, {"x402"}) \subseteq Found(e, {"x402"})
        /\ Live(f) = Live(e) /\ u \in Live(e)
    <3>1. Found(f, {"blocked"}) = Found(e, {"blocked"}) /\ u \notin Found(e, {"blocked"})
      BY <2>1, <2>2
    <3>2. Found(f, {"x402"}) \subseteq Found(e, {"x402"})
      BY <2>1, <2>2
    <3> QED
      BY <1>2, <3>1, <3>2 DEF Live
  <2>4. NoBetter(Liveness(f), Liveness(e))
    <3>1. CASE k = "api"
      <4> DEFINE Same(kinds) == Found(f, kinds) = Found(e, kinds)
      <4>1. j = "x402"
        BY <2>1, <3>1
      <4>2. ASSUME NEW kinds, k \in kinds <=> j \in kinds PROVE Same(kinds)
        BY <2>2, <4>2
      <4>3. Healthy(f) = Healthy(e) /\ Reachable(f) = Reachable(e)
        <5> HIDE DEF Same
        <5>1. Same({"x402", "api"}) /\ Same({"x402", "api", "broken"})
          BY <3>1, <4>1, <4>2
        <5> QED
          BY <5>1 DEF Same, Healthy, Reachable
      <4>4. Found(f, {"refused"}) = Found(e, {"refused"})
        <5> HIDE DEF Same
        <5>1. Same({"refused"})
          BY <3>1, <4>1, <4>2
        <5> QED
          BY <5>1 DEF Same
      <4> QED
        BY <1>1, <1>2, <2>3, <4>3, <4>4 DEF Liveness, Sales
    <3>2. CASE k # "api" /\ j \in {"x402", "api"}
      <4>1. Healthy(f) = Healthy(e) \ {u} /\ u \in Healthy(e) /\ u \in Reachable(e)
        BY <2>1, <2>2, <3>2 DEF Healthy, Reachable
      <4>2. Liveness(e) \in {Moves(18), Caps(2, 62)}
        BY <1>2, <2>3, <4>1 DEF Liveness
      <4>3. Liveness(f) \in {Caps(2, 62), Caps(-15, 45), Caps(-40, 25), Caps(-12, 58)}
        BY <1>2, <2>3, <4>1 DEF Liveness
      <4> QED
        BY <4>2, <4>3
    <3>3. CASE k = "refused" /\ j \in {"broken", "timeout"}
      <4>1. Healthy(f) = Healthy(e) /\ u \notin Healthy(e)
        BY <2>1, <2>2, <3>3 DEF Healthy
      <4>2. Reachable(f) \subseteq Reachable(e) /\ u \in Found(f, {"refused"})
        BY <2>1, <2>2, <3>3 DEF Reachable
      <4>3. Urls(e) # {} /\ Urls(f) # {} /\ Live(e) # {} /\ Healthy(e) # Live(e)
        BY <1>2, <2>3, <4>1
      <4>4. CASE Healthy(e) # {}
        <5>1. Healthy(f) # {} /\ Live(f) # {} /\ Healthy(f) # Live(f)
          BY <2>3, <4>1, <4>3, <4>4
        <5>2. Reachable(e) # {} /\ Reachable(f) # {}
          BY <4>4, <5>1 DEF Healthy, Reachable, Found
        <5>3. Liveness(e) = Caps(2, 62)
          BY <4>3, <4>4, <5>2 DEF Liveness
        <5>4. Liveness(f) = Caps(2, 62)
          BY <4>3, <5>1, <5>2 DEF Liveness
        <5> QED
          BY <5>3, <5>4
      <4>5. CASE Healthy(e) = {} /\ Reachable(f) # {}
        BY <2>3, <4>1, <4>2, <4>3, <4>5 DEF Liveness
      <4>6. CASE Healthy(e) = {} /\ Reachable(f) = {}
        <5>1. Liveness(f) = Caps(-40, 25)
          BY <2>3, <4>1, <4>2, <4>3, <4>6 DEF Liveness
        <5>2. Liveness(e) \in {Caps(-15, 45), Caps(-40, 25), Caps(-12, 58)}
          BY <4>3, <4>6 DEF Liveness
        <5> QED
          BY <5>1, <5>2
      <4> QED
        BY <4>4, <4>5, <4>6
    <3> QED
      BY <2>1, <3>1, <3>2, <3>3
  <2>5. NoBetter(Ssrf(f), Ssrf(e)) /\ NoBetter(Paywall(f), Paywall(e))
    BY <2>3 DEF Ssrf, Paywall
  <2>6. /\ Price(f) = Price(e) /\ Uptime(f) = Uptime(e) /\ Latency(f) = Latency(e)
    BY <1>1, SignalsReadEndpoints
  <2>7. /\ Volume(f) = Volume(e) /\ SalesRecord(f) = SalesRecord(e)
        /\ OwnerFleet(f) = OwnerFleet(e)
    BY <1>1, SignalsReadMoney
  <2>8. /\ Review(f) = Review(e) /\ Online(f) = Online(e) /\ Content(f) = Content(e)
        /\ Active(f) = Active(e) /\ Effort(f) = Effort(e)
        /\ SecurityRating(f) = SecurityRating(e) /\ Settlement(f) = Settlement(e)
        /\ Reputation(f) = Reputation(e) /\ SelfReview(f) = SelfReview(e)
        /\ Malicious(f) = Malicious(e) /\ DomainBinding(f) = DomainBinding(e)
        /\ PayTo(f) = PayTo(e) /\ DomainAge(f) = DomainAge(e)
    BY <1>1, SignalsReadRest
  <2>9. /\ TestAccount(f) = TestAccount(e) /\ AnomalyRating(f) = AnomalyRating(e)
        /\ ReviewRing(f) = ReviewRing(e)
    BY <1>1, SignalsReadSales
  <2>10. Confidence(f) = Confidence(e) /\ LowConfidence(f) = LowConfidence(e)
    BY <1>1, ConfidenceReads
  <2>11. \A i \in DOMAIN Signals(e) : NoBetter(Signals(f)[i], Signals(e)[i])
    BY <2>4, <2>5, <2>6, <2>7, <2>8, <2>9, <2>10 DEF Signals
  <2> QED
    BY <1>1, <2>7, <2>10, <2>11, NothingBetter
<1> QED
  BY <1>4, <1>5

(* News that is a hard failure leaves nothing to lose.                     *)
LEMMA HardNewsHurts ==
  ASSUME NEW e \in Evidence, NEW f \in Evidence, HardFailure(f)
  PROVE  Rank(Verdict(f)) <= Rank(Verdict(e)) /\ MaxSafe(f) <= MaxSafe(e)
<1>1. Verdict(f) = "BLOCK" /\ MaxSafe(f) = 0
  BY OneHardFailureBlocks
<1>2. MaxSafe(e) \in Nat /\ Rank(Verdict(e)) \in {0, 1, 2}
  BY CreditType DEF Rank
<1> QED
  BY <1>1, <1>2 DEF Rank

-----------------------------------------------------------------------------
(* Which step brings which news.                                           *)

(* The news is in the field its source reports: it is soft news, or about   *)
(* probes, reviews or settlement, or a hard failure, or no provider at all.  *)
LEMMA NewsIsInItsField ==
  ASSUME NEW e \in Evidence, NEW f \in Evidence, NEW field \in Judged, OnlyIn(field, e, f),
         BadNews(e, f)
  PROVE  \/ SoftNews(e, f) \/ HardFailure(f) \/ ~f.isAsp
         \/ WorseProbe(e, f)
         \/ /\ f.reviews.rated > e.reviews.rated /\ f.reviews.positive = e.reviews.positive
            /\ f.reviews.distinct = e.reviews.distinct
         \/ OnlyIn("settlement", e, f) /\ WorseSettlement(e, f)
<1>1. \A x \in Fields \ {field} : f[x] = e[x]
  BY EvidenceFields DEF OnlyIn
<1> USE DEF Fields, Judged
<1>2. CASE WorseListing(e, f)
  <2>1. CASE field \in {"isAsp", "status"}
    BY <1>1, <1>2, <2>1, AbsentAssumption DEF WorseListing, HardFailure
  <2>2. CASE field \notin {"isAsp", "status"}
    BY <1>1, <1>2, <2>2 DEF WorseListing, SoftNews
  <2> QED
    BY <2>1, <2>2
<1>3. CASE WorseScan(e, f)
  BY <1>1, <1>3 DEF WorseScan, SoftNews, HardFailure
<1>4. CASE WorseIdentity(e, f)
  <2>1. e.age \in {Absent} \cup Nat
    BY DEF Evidence
  <2>2. CASE field = "domain"
    BY <1>1, <1>4, <2>1, <2>2, AbsentAssumption DEF WorseIdentity, SoftNews
  <2>3. CASE field = "payto"
    BY <1>1, <1>4, <2>1, <2>3, AbsentAssumption DEF WorseIdentity, SoftNews
  <2>4. CASE field = "age"
    BY <1>1, <1>4, <2>4 DEF WorseIdentity, SoftNews
  <2>5. field \in {"domain", "payto", "age"}
    BY <1>1, <1>4, <2>1, AbsentAssumption DEF WorseIdentity
  <2> QED
    BY <2>2, <2>3, <2>4, <2>5
<1>5. CASE WorseRating(e, f)
  <2>1. e.security \in Int /\ f.security # e.security
    BY <1>5 DEF WorseRating, Evidence
  <2> QED
    BY <1>1, <1>5, <2>1 DEF SoftNews
<1>6. CASE WorseFleet(e, f)
  <2>1. f.fleet # e.fleet
    BY <1>6 DEF WorseFleet
  <2> QED
    BY <1>1, <1>6, <2>1 DEF SoftNews
<1>7. CASE WorseReviews(e, f)
  BY <1>7 DEF WorseReviews, HardFailure
<1>8. CASE WorseSettlement(e, f)
  <2>1. field = "settlement"
    BY <1>1, <1>8 DEF WorseSettlement
  <2> QED
    BY <1>8, <2>1
<1> QED
  BY <1>2, <1>3, <1>4, <1>5, <1>6, <1>7, <1>8 DEF BadNews

(* Delisting a service is not news of the ones that stay, and nothing that  *)
(* is sold is bad news.                                                    *)
LEMMA NoNews ==
  ASSUME NEW e \in Evidence, NEW f \in Evidence, TakenBack(e, f) \/ SoldTo(e, f)
  PROVE  ~BadNews(e, f)
<1>1. CASE TakenBack(e, f)
  BY <1>1 DEF TakenBack, BadNews
<1>2. CASE SoldTo(e, f)
  <2>1. /\ f.isAsp = e.isAsp /\ f.services = e.services /\ f.probes = e.probes
        /\ f.flapping = e.flapping /\ f.slow = e.slow /\ f.approval = e.approval
        /\ f.online = e.online /\ f.status = e.status /\ f.security = e.security
        /\ f.described = e.described /\ f.test_named = e.test_named
        /\ f.reviews = e.reviews /\ f.settlement = e.settlement /\ f.content = e.content
        /\ f.malicious = e.malicious /\ f.domain = e.domain /\ f.payto = e.payto
        /\ f.age = e.age
    BY <1>2, SoldKeeps
  <2>2. e.reviews.rated \in Nat /\ e.security \in {Absent} \cup Nat /\ e.age \in {Absent} \cup Nat
    BY DEF Evidence, Reviews
  <2>3. ~WorseFleet(e, f)
    <3>1. CASE e.fleet = Absent
      BY <1>2, <3>1 DEF SoldTo, SoldMore, WorseFleet
    <3>2. CASE e.fleet # Absent
      <4>1. e.fleet \in Fleet
        BY <3>2 DEF Evidence
      <4>2. f.sales \in Nat /\ Sales(e) \in Nat /\ f.sales > Sales(e)
        BY <1>2, SalesType DEF SoldTo
      <4>3. f.fleet = [e.fleet EXCEPT !.sales = @ + (f.sales - Sales(e))]
        BY <1>2, <3>2 DEF SoldTo, SoldMore
      <4>4. f.fleet.sales > e.fleet.sales /\ f.fleet.sales \in Int /\ e.fleet.sales \in Int
        BY <4>1, <4>2, <4>3 DEF Fleet
      <4> QED
        BY <3>2, <4>4 DEF WorseFleet
    <3> QED
      BY <3>1, <3>2
  <2>4. ~WorseProbe(e, f)
    <3>1. \A k \in ProbeResults : Standing(k) \in Int
      BY DEF ProbeResults, Standing
    <3>2. \A u \in Urls(e) : e.probes[u] \in ProbeResults
      BY DEF Evidence, Service, Urls
    <3> QED
      BY <2>1, <3>1, <3>2 DEF WorseProbe
  <2>5. ~WorseScan(e, f) /\ ~WorseListing(e, f) /\ ~WorseIdentity(e, f)
    BY <2>1, <2>2, AbsentAssumption DEF WorseScan, WorseListing, WorseIdentity
  <2>6. ~WorseRating(e, f) /\ ~WorseReviews(e, f) /\ ~WorseSettlement(e, f)
    BY <2>1, <2>2 DEF WorseRating, WorseReviews, WorseSettlement
  <2> QED
    BY <2>3, <2>4, <2>5, <2>6 DEF BadNews
<1> QED
  BY <1>1, <1>2

(* What a step that probes, or reads a review, does to its field.          *)
LEMMA ProbedOne ==
  ASSUME Typed, Next, WorseProbe(evidence, evidence')
  PROVE  \E u \in Urls(evidence), k \in ProbeResults :
           /\ OnlyIn("probes", evidence, evidence')
           /\ evidence'.probes = [evidence.probes EXCEPT ![u] = k]
           /\ Standing(k) < Standing(evidence.probes[u])
<1>1. PICK e \in Evidence : e = evidence
  BY DEF Typed
<1>2. evidence'.probes # e.probes
  <2>1. \A k \in ProbeResults : Standing(k) \in Int
    BY DEF ProbeResults, Standing
  <2>2. \A u \in Urls(e) : e.probes[u] \in ProbeResults
    BY DEF Evidence, Service, Urls
  <2> QED
    BY <1>1, <2>1, <2>2 DEF WorseProbe
<1>3. DOMAIN e = Fields /\ e.probes \in [Endpoints -> ProbeResults]
  BY EvidenceFields DEF Evidence
<1>4. ASSUME NEW field, NEW v, Reports(field, v)
      PROVE  field = "probes"
  <2>1. \A x \in Fields \ {field} : evidence'[x] = e[x]
    BY <1>1, <1>3, <1>4, ReportsOthers DEF OnlyIn
  <2> QED
    BY <1>2, <2>1 DEF Fields, Judged
<1>5. Probed
  <2>1. ~ListingEdited /\ ~Rated /\ ~ServiceListed /\ ~HistoryRead
    BY <1>4 DEF ListingEdited, Rated, ServiceListed, HistoryRead
  <2>2. ~Scanned /\ ~Identified /\ ~OwnerIndexed /\ ~SettlementsRead
    BY <1>4 DEF Scanned, Identified, OwnerIndexed, SettlementsRead
  <2>3. ~Reviewed
    <3>1. Reviewed => \E r : Reports("reviews", r)
      BY DEF Reviewed
    <3> QED
      BY <1>4, <3>1
  <2>4. ~SalesGrow
    BY <1>1, <1>2, <1>3, SaleStep DEF SoldTo, Fields, Judged
  <2>5. ~ServiceDelisted
    <3> SUFFICES ASSUME ServiceDelisted PROVE FALSE
      OBVIOUS
    <3> DEFINE fewer(s) == [e EXCEPT !.services = @ \ {s}]
    <3>1. PICK s : evidence' = Unhosted(fewer(s))
      BY <1>1 DEF ServiceDelisted
    <3>2. fewer(s) \in Evidence /\ fewer(s).probes = e.probes
      BY DEF Evidence
    <3>3. \A g \in Evidence : Unhosted(g).probes = g.probes
      BY DEF Unhosted, Evidence
    <3> QED
      BY <1>2, <3>1, <3>2, <3>3
  <2> QED
    BY <2>1, <2>2, <2>3, <2>4, <2>5 DEF Next
<1>6. PICK u \in Urls(evidence), k \in ProbeResults :
        Reports("probes", [evidence.probes EXCEPT ![u] = k])
  BY <1>5 DEF Probed
<1>7. OnlyIn("probes", evidence, evidence')
  BY <1>6, ReportsOthers DEF Typed
<1>8. evidence'.probes = [e.probes EXCEPT ![u] = k]
  <2>1. evidence' = [e EXCEPT !["probes"] = [e.probes EXCEPT ![u] = k]]
    BY <1>1, <1>6 DEF Reports
  <2> QED
    BY <1>3, <2>1 DEF Fields, Judged
<1>9. Standing(k) < Standing(evidence.probes[u])
  <2>1. \A i \in ProbeResults : Standing(i) \in Int
    BY DEF ProbeResults, Standing
  <2>2. Urls(e) \subseteq Endpoints
    BY DEF Evidence, Service, Urls
  <2>3. PICK v \in Urls(e) : Standing(evidence'.probes[v]) < Standing(e.probes[v])
    BY <1>1 DEF WorseProbe
  <2>4. v = u /\ evidence'.probes[v] = k
    BY <1>3, <1>8, <2>1, <2>2, <2>3
  <2> QED
    BY <1>1, <2>3, <2>4
<1> QED
  BY <1>1, <1>6, <1>7, <1>8, <1>9

(* The review that is bad news is one more, by an author already known.    *)
LEMMA ReviewedOne ==
  ASSUME Typed, Next, evidence'.reviews.rated > evidence.reviews.rated,
         evidence'.reviews.positive = evidence.reviews.positive,
         evidence'.reviews.distinct = evidence.reviews.distinct
  PROVE  /\ OnlyIn("reviews", evidence, evidence')
         /\ evidence'.reviews.rated = evidence.reviews.rated + 1
         /\ evidence'.reviews.positive = evidence.reviews.positive
         /\ evidence'.reviews.reviewers = evidence.reviews.reviewers + 1
         /\ evidence'.reviews.distinct = evidence.reviews.distinct
         /\ evidence.reviews.own => evidence'.reviews.own
<1>1. PICK e \in Evidence : e = evidence
  BY DEF Typed
<1>2. evidence'.reviews # e.reviews
  BY <1>1 DEF Evidence, Reviews
<1>3. DOMAIN e = Fields
  BY EvidenceFields
<1>4. ASSUME NEW field, NEW v, Reports(field, v)
      PROVE  field = "reviews"
  <2>1. \A x \in Fields \ {field} : evidence'[x] = e[x]
    BY <1>1, <1>3, <1>4, ReportsOthers DEF OnlyIn
  <2> QED
    BY <1>2, <2>1 DEF Fields, Judged
<1>5. Reviewed
  <2>1. ~ListingEdited /\ ~Rated /\ ~ServiceListed /\ ~HistoryRead /\ ~Probed
    BY <1>4 DEF ListingEdited, Rated, ServiceListed, HistoryRead, Probed
  <2>2. ~Scanned /\ ~Identified /\ ~OwnerIndexed /\ ~SettlementsRead
    BY <1>4 DEF Scanned, Identified, OwnerIndexed, SettlementsRead
  <2>3. ~SalesGrow
    BY <1>1, <1>2, <1>3, SaleStep DEF SoldTo, Fields, Judged
  <2>4. ~ServiceDelisted
    <3> SUFFICES ASSUME ServiceDelisted PROVE FALSE
      OBVIOUS
    <3> DEFINE fewer(s) == [e EXCEPT !.services = @ \ {s}]
    <3>1. PICK s : evidence' = Unhosted(fewer(s))
      BY <1>1 DEF ServiceDelisted
    <3>2. fewer(s) \in Evidence /\ fewer(s).reviews = e.reviews
      BY DEF Evidence
    <3>3. \A g \in Evidence : Unhosted(g).reviews = g.reviews
      BY DEF Unhosted, Evidence
    <3> QED
      BY <1>2, <3>1, <3>2, <3>3
  <2> QED
    BY <2>1, <2>2, <2>3, <2>4 DEF Next
<1> DEFINE r == e.reviews
           seen(by) == by = "known" \/ (by = "own" /\ r.own)
           more(good, by) == [rated     |-> r.rated + 1,
                              positive  |-> r.positive + Part(good, 1),
                              reviewers |-> r.reviewers + 1,
                              distinct  |-> r.distinct + Part(~seen(by), 1),
                              own       |-> r.own \/ by = "own"]
<1>6. PICK good \in BOOLEAN, by \in {"new", "known", "own"} : Reports("reviews", more(good, by))
  BY <1>1, <1>5 DEF Reviewed
<1>7. OnlyIn("reviews", evidence, evidence')
  BY <1>6, ReportsOthers DEF Typed
<1>8. evidence'.reviews = more(good, by)
  <2> HIDE DEF more
  <2>1. evidence' = [e EXCEPT !["reviews"] = more(good, by)]
    BY <1>1, <1>6 DEF Reports
  <2> QED
    BY <1>3, <2>1 DEF Fields, Judged
<1>9. /\ evidence'.reviews.rated = r.rated + 1
      /\ evidence'.reviews.reviewers = r.reviewers + 1
      /\ evidence'.reviews.own = (r.own \/ by = "own")
  BY <1>8
<1>10. r.own => evidence'.reviews.own
  BY <1>9
<1>11. /\ evidence'.reviews.positive = r.positive
       /\ evidence'.reviews.distinct = r.distinct
  BY <1>1
<1> HIDE DEF more
<1> QED
  BY <1>1, <1>7, <1>9, <1>10, <1>11

(* BadNewsNeverHelps, of one step.                                         *)
LEMMA BadNewsHurts ==
  ASSUME Typed, Typed', [Next]_vars, BadNews(evidence, evidence')
  PROVE  /\ Rank(Verdict(evidence')) <= Rank(Verdict(evidence))
         /\ MaxSafe(evidence') <= MaxSafe(evidence)
<1>1. PICK e \in Evidence, f \in Evidence : e = evidence /\ f = evidence'
  BY DEF Typed
<1> DEFINE Hurt == Rank(Verdict(f)) <= Rank(Verdict(e)) /\ MaxSafe(f) <= MaxSafe(e)
<1>2. CASE UNCHANGED vars
  <2>1. f = e
    BY <1>1, <1>2 DEF vars
  <2>2. MaxSafe(e) \in Nat /\ Rank(Verdict(e)) \in {0, 1, 2}
    BY CreditType DEF Rank
  <2> QED
    BY <1>1, <2>1, <2>2
<1>3. CASE Next
  <2> SUFFICES Hurt
    BY <1>1
  <2>1. PICK field \in Judged : OnlyIn(field, e, f)
    <3>1. ~TakenBack(e, f) /\ ~SoldTo(e, f)
      BY <1>1, NoNews
    <3>2. OneJudged(e, f)
      BY <1>1, <1>3, <3>1, WhatChanges, SaleStep
    <3> QED
      BY <3>2 DEF OneJudged
  <2>2. CASE WorseProbe(e, f)
    <3>1. PICK u \in Urls(e), k \in ProbeResults :
            /\ OnlyIn("probes", e, f)
            /\ f.probes = [e.probes EXCEPT ![u] = k]
            /\ Standing(k) < Standing(e.probes[u])
      BY <1>1, <1>3, <2>2, ProbedOne
    <3> QED
      BY <3>1, WorseProbeHurts
  <2>3. CASE /\ f.reviews.rated > e.reviews.rated /\ f.reviews.positive = e.reviews.positive
             /\ f.reviews.distinct = e.reviews.distinct
    BY <1>1, <1>3, <2>3, ReviewedOne, WorseReviewsHurt
  <2>4. CASE SoftNews(e, f)
    BY <2>4, SoftNewsHurts
  <2>5. CASE OnlyIn("settlement", e, f) /\ WorseSettlement(e, f)
    <3>1. CASE f.settlement.tx > 0 /\ Washed(f.settlement)
      <4>1. HardFailure(f)
        BY <2>5, <3>1 DEF HardFailure, WorseSettlement
      <4> QED
        BY <4>1, HardNewsHurts
    <3> QED
      BY <2>5, <3>1, WorseSettlementHurts DEF WorseSettlement
  <2>6. CASE HardFailure(f)
    BY <2>6, HardNewsHurts
  <2>7. CASE ~f.isAsp
    <3>1. Verdict(f) = "BLOCK" /\ MaxSafe(f) = 0
      BY <2>7 DEF MaxSafe, Verdict, Score, Band, Credit, NO_RECORD, SAFE_MIN, CAUTION_MIN
    <3>2. MaxSafe(e) \in Nat /\ Rank(Verdict(e)) \in {0, 1, 2}
      BY CreditType DEF Rank
    <3> QED
      BY <3>1, <3>2 DEF Rank
  <2> QED
    BY <1>1, <2>1, <2>2, <2>3, <2>4, <2>5, <2>6, <2>7, NewsIsInItsField
<1> QED
  BY <1>2, <1>3

(* Bad news, as Assessments.BadNews delimits it, helps no agent, for any    *)
(* evidence: the verdict does not improve, the ceiling does not rise        *)
(* (engine.py:544-550,598-660).                                             *)
THEOREM BadNewsHelpsNobody == Spec => BadNewsNeverHelps
<1>1. Typed /\ Typed' /\ [Next]_vars =>
        (BadNews(evidence, evidence') =>
           /\ Rank(Verdict(evidence')) <= Rank(Verdict(evidence))
           /\ MaxSafe(evidence') <= MaxSafe(evidence))
  BY BadNewsHurts
<1> QED
  BY <1>1, AlwaysTyped, PTL DEF Spec, BadNewsNeverHelps

=============================================================================
