------------------------ MODULE PaymentDecisionProofs ------------------------
(***************************************************************************)
(* Proofs about PaymentDecision and the service VerifyService under it,    *)
(* for every set of workers, callers and agents, every judgement and every *)
(* timeout.                                                                *)
(*                                                                         *)
(*   DecisionTyped          the service, the sessions and the store under  *)
(*                          them keep their types                          *)
(*   KeptAnswersRecompute   a kept verdict recomputes to its digest        *)
(*   KeptAnswersTellHistory and tells what the database holds              *)
(*   NeverPaidOnOldRecord   a payment follows a recent, recorded SAFE      *)
(*                                                                         *)
(* What is proved of the store in VerdictStoreProofs is used here.         *)
(***************************************************************************)
EXTENDS PaymentDecision, TLAPS

Facts == INSTANCE VerdictStoreProofs

-----------------------------------------------------------------------------
(* The inductive invariant.                                                *)

(* What the answer b says was recorded, no earlier than t.                 *)
RecordedSince(b, t) ==
    \E i \in Store!RowsOf(rows, b.core.agent) :
        /\ rows[i].verdict = b.core.verdict
        /\ payloads[i].core.usd = b.core.usd
        /\ t <= rows[i].at

(* What the answer b tells of the agent's history is in the database.      *)
TellsHistory(b) ==
    \E i \in Store!RowsOf(rows, b.core.agent) :
        /\ rows[i].verdict = b.core.verdict
        /\ b.core.note.previous # NoRow =>
               \E h \in Store!RowsOf(rows, b.core.agent) :
                   h < i /\ rows[h].verdict = b.core.note.previous
        /\ b.core.note.moved =>
               \E k \in Store!TransitionsOf(b.core.agent) :
                   /\ transitions[k].from = b.core.note.previous
                   /\ transitions[k].to = b.core.verdict

(* What score_agent() hands to record(): sealed, not yet annotated.        *)
AsScored(b, a) ==
    /\ b \in Bodies /\ b.kind = "verdict"
    /\ b.core.agent = a /\ b.digest = b.core /\ b.signature = NoBody

(* A verdict about agent a as it leaves the service.                       *)
AsAnswered(b, a) ==
    /\ b.core.agent = a /\ b.digest = b.core
    /\ b.kind = "stale" => b.signature = NoBody
    /\ b.kind = "verdict" => /\ b.signature # NoBody /\ b.signature.over = b.core
                             /\ b.signature.at <= now
                             /\ TellsHistory(b)

(* Every row has the payload it was scored with.                           *)
PayloadsMatch ==
    \A i \in DOMAIN rows : /\ AsScored(payloads[i], rows[i].agent)
                           /\ payloads[i].core.verdict = rows[i].verdict

(* What a worker has in hand, inside record() and after.                   *)
InHand(w) ==
    /\ stage[w] = "recording" =>
           /\ AsScored(body[w], about[w])
           /\ job[w].new.agent = about[w] /\ job[w].new.verdict = body[w].core.verdict
    /\ stage[w] = "done" =>
           /\ body[w] # NoBody
           /\ body[w] \in Bodies => AsAnswered(body[w], about[w])

(* Nothing in worker w's hands is older than t.                            *)
Since(w, t) ==
    /\ t <= now
    /\ stage[w] = "recording" => t <= job[w].new.at
    /\ stage[w] = "done" /\ body[w] \in Bodies =>
           (body[w].kind = "verdict" => RecordedSince(body[w], t))

(* The worker a caller waits for serves that call and no other.            *)
Waiting(c) ==
    ask[c] # NoCall =>
        /\ stage[ask[c].worker] # "free" /\ about[ask[c].worker] = ask[c].agent
        /\ Since(ask[c].worker, ask[c].at)
        /\ \A d \in Callers \ {c} : ask[d] # NoCall => ask[d].worker # ask[c].worker

(* An answer kept was signed within a call's patience of its recording.    *)
KeptAnswer(b, a) ==
    /\ AsAnswered(b, a)
    /\ b.kind = "verdict" => \E t \in Nat : /\ b.signature.at <= t + ASK_TIMEOUT
                                            /\ RecordedSince(b, t)

CacheOK == \A c \in Callers, a \in Agents : cache[c][a] \in Bodies => KeptAnswer(cache[c][a], a)

ServiceInv ==
    /\ Facts!IInv /\ ServiceTypeOK
    /\ PayloadsMatch
    /\ \A w \in Workers : InHand(w)

CallersTyped ==
    /\ pinned \in [Callers -> Keys]
    /\ cache \in [Callers -> [Agents -> Bodies \cup [kind : {"detail"}] \cup {NoBody}]]
    /\ ask \in [Callers -> Calls \cup {NoCall}]

IInv ==
    /\ ServiceInv
    /\ CallersTyped
    /\ \A c \in Callers : Waiting(c)
    /\ CacheOK

-----------------------------------------------------------------------------
(* The store under the service.                                            *)

LEMMA FactsApply == Facts!NoRowAssumption /\ Facts!BoundsAssumption
  BY StoreAssumption DEF Store!NoRowAssumption, Store!BoundsAssumption, Store!Row, Store!Job,
     Facts!NoRowAssumption, Facts!BoundsAssumption, Facts!Row, Facts!Job

LEMMA SameStore ==
  /\ Facts!IInv => Store!TypeOK
  /\ \A table, a : Facts!RowsOf(table, a) = Store!RowsOf(table, a)
  BY DEF Facts!IInv, Facts!TypeOK, Store!TypeOK, Facts!Row, Store!Row, Facts!Job, Store!Job,
     Facts!Transition, Store!Transition, Facts!RowsOf, Store!RowsOf

LEMMA StoreKeeps ==
  ASSUME Facts!IInv
  PROVE  /\ \A w \in Workers, a \in Agents, v \in Verdicts : Store!Begin(w, a, v) => Facts!IInv'
         /\ \A w \in Workers : Store!ReadPrev(w) \/ Store!Write(w) \/ Store!Abort(w) => Facts!IInv'
         /\ Store!Tick \/ UNCHANGED storeVars => Facts!IInv'
<1>1. ASSUME NEW w \in Workers, NEW a \in Agents, NEW v \in Verdicts, Store!Begin(w, a, v)
      PROVE  Facts!IInv'
  <2>1. Facts!Begin(w, a, v)
    BY <1>1 DEF Store!Begin, Store!Busy, Facts!Begin, Facts!Busy
  <2> QED
    BY <2>1, FactsApply, Facts!BeginIInv
<1>2. ASSUME NEW w \in Workers, Store!ReadPrev(w)  PROVE Facts!IInv'
  <2>1. Facts!ReadPrev(w)
    BY <1>2 DEF Store!ReadPrev, Store!LastVerdict, Store!RowsOf, Store!IsLatest, Store!Newer,
                Facts!ReadPrev, Facts!LastVerdict, Facts!RowsOf, Facts!IsLatest, Facts!Newer
  <2> QED
    BY <2>1, FactsApply, Facts!ReadIInv
<1>3. ASSUME NEW w \in Workers, Store!Write(w)  PROVE Facts!IInv'
  <2>1. Facts!Write(w)
    BY <1>3 DEF Store!Write, Store!VerdictMoved, Facts!Write, Facts!VerdictMoved
  <2> QED
    BY <2>1, FactsApply, Facts!WriteIInv
<1>4. ASSUME NEW w \in Workers, Store!Abort(w)  PROVE Facts!IInv'
  <2>1. Facts!Next
    BY <1>4 DEF Store!Abort, Facts!Abort, Facts!Next
  <2> QED
    BY <2>1, FactsApply, Facts!StepIInv
<1>5. ASSUME Store!Tick \/ UNCHANGED storeVars  PROVE Facts!IInv'
  <2>1. [Facts!Next]_Facts!vars
    BY <1>5 DEF Store!Tick, Facts!Tick, Facts!Next, storeVars, Facts!vars
  <2> QED
    BY <2>1, FactsApply, Facts!StepIInv
<1> QED
  BY <1>1, <1>2, <1>3, <1>4, <1>5

-----------------------------------------------------------------------------
(* Answers as data.                                                        *)

LEMMA AnswerKinds ==
  /\ \A b \in Bodies : /\ b.kind \in {"verdict", "stale"} /\ b # NoBody /\ b \notin Errors
                       /\ b.core \in Cores /\ b.digest \in Cores
                       /\ b.signature \in Envelopes \cup {NoBody}
  /\ \A b \in Errors : b.kind \in {"detail", "text"} /\ b # NoBody /\ b \notin Bodies
  /\ Error("text") \in Errors /\ Error("detail") \in Errors
  /\ \A b \in Errors : b.kind # "text" => b \in [kind : {"detail"}]
  /\ \A b \in [kind : {"detail"}] : b \notin Bodies
  /\ NoBody \notin Bodies
  BY BodyAssumption DEF Bodies, Errors, Error

LEMMA ScoredIsAsScored ==
  ASSUME NEW a \in Agents, NEW judged \in Judgements
  PROVE  AsScored(Scored(a, judged), a) /\ Scored(a, judged).core.verdict = judged.verdict
<1> DEFINE core == [agent |-> a, verdict |-> judged.verdict, usd |-> judged.usd,
                    note |-> Unannotated]
<1>1. judged.verdict \in Verdicts /\ judged.usd \in Nat
  BY ServiceAssumption
<1>2. Unannotated \in Notes
  BY DEF Unannotated, Notes
<1>3. core \in Cores /\ core.agent = a /\ core.verdict = judged.verdict
  BY <1>1, <1>2 DEF Cores
<1> HIDE DEF core
<1>4. Scored(a, judged) = [kind |-> "verdict", core |-> core, digest |-> core, signature |-> NoBody]
  BY DEF Scored, core
<1> QED
  BY <1>3, <1>4 DEF AsScored, Bodies

(* record() returned: the verdict is annotated, sealed again and signed.   *)
LEMMA SignedAnswer ==
  ASSUME NEW a, NEW b, AsScored(b, a), NEW j \in Store!Job, key \in Keys, now \in Nat,
         NEW x, x = Sign(Seal(Annotated(b, j)))
  PROVE  /\ x \in Bodies /\ x.kind = "verdict"
         /\ x.core.agent = a /\ x.core.verdict = b.core.verdict /\ x.core.usd = b.core.usd
         /\ x.core.note = NoteOf(j)
         /\ x.digest = x.core
         /\ x.signature \in Envelopes /\ x.signature # NoBody
         /\ x.signature.over = x.core /\ x.signature.at = now
<1> DEFINE note == NoteOf(j)
           core == [b.core EXCEPT !.note = note]
           env == [key |-> key, at |-> now, over |-> core]
<1>1. b.core \in Cores /\ b \in Bodies /\ b.kind = "verdict" /\ b.core.agent = a
  BY AnswerKinds DEF AsScored
<1>2. note \in Notes
  <2>1. j.prev \in Store!Row \cup {NoRow}
    BY DEF Store!Job
  <2>2. j.prev # NoRow => j.prev.verdict \in Verdicts
    BY <2>1 DEF Store!Row
  <2>3. Store!VerdictMoved(j) \in BOOLEAN
    BY DEF Store!VerdictMoved
  <2> QED
    BY <2>2, <2>3 DEF NoteOf, Notes
<1> HIDE DEF note
<1>3. /\ core \in Cores /\ core.note = note
      /\ core.agent = a /\ core.verdict = b.core.verdict /\ core.usd = b.core.usd
  BY <1>1, <1>2 DEF Cores
<1>4. Annotated(b, j) = [kind |-> "verdict", core |-> core, digest |-> b.digest,
                         signature |-> b.signature]
  BY <1>1 DEF Annotated, note, Bodies
<1> HIDE DEF core
<1>5. env \in Envelopes /\ env # NoBody /\ env.over = core /\ env.at = now
  BY <1>3, BodyAssumption DEF Envelopes
<1> DEFINE sealed == [kind |-> "verdict", core |-> core, digest |-> core,
                      signature |-> b.signature]
<1>6. Seal(Annotated(b, j)) = sealed
  BY <1>4 DEF Seal, CanonicalCore
<1>7. Sign(sealed) = [sealed EXCEPT !.signature = env]
  BY DEF Sign
<1> HIDE DEF env
<1>8. x = [kind |-> "verdict", core |-> core, digest |-> core, signature |-> env]
  BY <1>6, <1>7
<1> HIDE DEF sealed
<1> QED
  BY <1>3, <1>5, <1>8 DEF Bodies, note

LEMMA StaleAnswer ==
  ASSUME NEW a, NEW b, AsScored(b, a), NEW x, x = StaleBody(b)
  PROVE  /\ x \in Bodies /\ x.kind = "stale" /\ x.signature = NoBody
         /\ x.core = b.core /\ x.digest = x.core /\ x.core.agent = a
  BY DEF AsScored, StaleBody, Bodies

-----------------------------------------------------------------------------
(* What a step leaves as it is.                                            *)

(* Nothing recorded is lost, and time does not run backwards.              *)
Grows ==
    /\ \A i \in DOMAIN rows :
           i \in DOMAIN rows' /\ rows'[i] = rows[i] /\ payloads'[i] = payloads[i]
    /\ \A k \in DOMAIN transitions :
           k \in DOMAIN transitions' /\ transitions'[k] = transitions[k]
    /\ now \in Nat /\ now' \in Nat /\ now <= now'

OthersUntouched(w) ==
    \A u \in Workers \ {w} : /\ stage'[u] = stage[u] /\ about'[u] = about[u]
                             /\ body'[u] = body[u] /\ job'[u] = job[u]

LEMMA NothingRecorded ==
  ASSUME ServiceInv, UNCHANGED <<now, rows, transitions, payloads>>
  PROVE  Grows /\ PayloadsMatch'
  BY SameStore DEF ServiceInv, Grows, PayloadsMatch, Store!TypeOK

LEMMA EvidenceStays ==
  ASSUME Grows, NEW b
  PROVE  /\ \A t : RecordedSince(b, t) => RecordedSince(b, t)'
         /\ TellsHistory(b) => TellsHistory(b)'
<1>1. \A a : \A i \in Store!RowsOf(rows, a) : i \in Store!RowsOf(rows', a)
                                              /\ rows'[i] = rows[i] /\ payloads'[i] = payloads[i]
  BY DEF Grows, Store!RowsOf
<1>2. \A a : \A k \in Store!TransitionsOf(a) : k \in Store!TransitionsOf(a)'
                                               /\ transitions'[k] = transitions[k]
  BY DEF Grows, Store!TransitionsOf
<1>3. ASSUME NEW t, RecordedSince(b, t)  PROVE RecordedSince(b, t)'
  BY <1>1, <1>3 DEF RecordedSince
<1>4. ASSUME TellsHistory(b)  PROVE TellsHistory(b)'
  <2>1. PICK i \in Store!RowsOf(rows, b.core.agent) :
          /\ rows[i].verdict = b.core.verdict
          /\ b.core.note.previous # NoRow =>
                 \E h \in Store!RowsOf(rows, b.core.agent) :
                     h < i /\ rows[h].verdict = b.core.note.previous
          /\ b.core.note.moved =>
                 \E k \in Store!TransitionsOf(b.core.agent) :
                     /\ transitions[k].from = b.core.note.previous
                     /\ transitions[k].to = b.core.verdict
    BY <1>4 DEF TellsHistory
  <2>2. i \in Store!RowsOf(rows', b.core.agent) /\ rows'[i].verdict = b.core.verdict
    BY <1>1, <2>1
  <2>3. b.core.note.previous # NoRow =>
          \E h \in Store!RowsOf(rows', b.core.agent) :
              h < i /\ rows'[h].verdict = b.core.note.previous
    BY <1>1, <2>1
  <2>4. b.core.note.moved =>
          \E k \in Store!TransitionsOf(b.core.agent)' :
              /\ transitions'[k].from = b.core.note.previous
              /\ transitions'[k].to = b.core.verdict
    BY <1>2, <2>1
  <2> QED
    BY <2>2, <2>3, <2>4 DEF TellsHistory
<1> QED
  BY <1>3, <1>4

LEMMA AnswersStay ==
  ASSUME Grows, NEW b \in Bodies, NEW a, AsAnswered(b, a)
  PROVE  AsAnswered(b, a)'
<1>1. b.kind = "verdict" => b.signature.at <= now /\ b.signature.at \in Nat
  BY AnswerKinds DEF AsAnswered, Envelopes
<1>2. b.kind = "verdict" => b.signature.at <= now'
  BY <1>1 DEF Grows
<1>3. b.kind = "verdict" => TellsHistory(b)'
  BY EvidenceStays DEF AsAnswered
<1> QED
  BY <1>2, <1>3 DEF AsAnswered

(* A worker that a step leaves alone has in hand what it had.              *)
LEMMA WorkerStays ==
  ASSUME ServiceInv, Grows, NEW u \in Workers,
         stage'[u] = stage[u], about'[u] = about[u], body'[u] = body[u],
         stage[u] = "recording" => job'[u].new = job[u].new
  PROVE  InHand(u)' /\ \A t \in Nat : Since(u, t) => Since(u, t)'
<1>1. PICK b, a : b = body[u] /\ a = about[u]
  OBVIOUS
<1>2. InHand(u)
  BY DEF ServiceInv
<1>3. stage[u] = "recording" => AsScored(b, a)'
  BY <1>1, <1>2 DEF InHand, AsScored
<1>4. stage[u] = "done" /\ b \in Bodies => AsAnswered(b, a)'
  BY <1>1, <1>2, AnswersStay DEF InHand
<1>5. InHand(u)'
  BY <1>1, <1>2, <1>3, <1>4 DEF InHand
<1>6. ASSUME NEW t \in Nat, Since(u, t)  PROVE Since(u, t)'
  <2>1. t <= now'
    BY <1>6 DEF Since, Grows
  <2>2. stage[u] = "done" /\ b \in Bodies /\ b.kind = "verdict" => RecordedSince(b, t)'
    BY <1>1, <1>6, EvidenceStays DEF Since
  <2> QED
    BY <1>1, <1>6, <2>1, <2>2 DEF Since
<1> QED
  BY <1>5, <1>6

LEMMA OthersStay ==
  ASSUME ServiceInv, Grows, NEW w \in Workers, OthersUntouched(w)
  PROVE  \A u \in Workers \ {w} : InHand(u)' /\ \A t \in Nat : Since(u, t) => Since(u, t)'
  BY WorkerStays DEF OthersUntouched

-----------------------------------------------------------------------------
(* The steps of the service.  ServiceSteps(w): the invariant holds after   *)
(* it, only worker w has changed, and what w has in hand got no older.     *)

ServiceSteps(w) == ServiceInv' /\ Grows /\ OthersUntouched(w)

WorkGoesOn(w) ==
    /\ stage'[w] # "free" /\ about'[w] = about[w]
    /\ \A t \in Nat : Since(w, t) => Since(w, t)'

(* The variables of the service that are not the store's.                  *)
RequestsTyped ==
    /\ key \in Keys
    /\ stage \in [Workers -> {"free", "scoring", "recording", "fallback", "done"}]
    /\ about \in [Workers -> Agents \cup {NoBody}]
    /\ body \in [Workers -> Bodies \cup Errors \cup {NoBody}]

LEMMA ServiceTypes ==
  ASSUME ServiceInv
  PROVE  /\ RequestsTyped /\ Store!TypeOK
         /\ payloads \in Seq(Bodies) /\ Len(payloads) = Len(rows) /\ DOMAIN payloads = DOMAIN rows
         /\ now \in Nat /\ rows \in Seq(Store!Row)
         /\ \A w \in Workers : /\ about[w] = NoBody <=> stage[w] = "free"
                               /\ pc[w] # "idle" <=> stage[w] = "recording"
                               /\ job[w] = NoRow <=> pc[w] = "idle"
                               /\ InHand(w)
<1>1. Store!TypeOK
  BY SameStore DEF ServiceInv
<1>2. payloads \in Seq(Bodies) /\ Len(payloads) = Len(rows)
  BY DEF ServiceInv, ServiceTypeOK
<1>3. DOMAIN payloads = DOMAIN rows
  BY <1>1, <1>2 DEF Store!TypeOK
<1> QED
  BY <1>1, <1>2, <1>3 DEF ServiceInv, ServiceTypeOK, RequestsTyped, Store!TypeOK

(* The invariant after a step of worker w that inserts no row.             *)
LEMMA AfterWorker ==
  ASSUME ServiceInv, NEW w \in Workers, OthersUntouched(w),
         \A u \in Workers \ {w} : pc'[u] = pc[u],
         UNCHANGED <<rows, transitions, payloads>>, now' = now,
         Facts!IInv', RequestsTyped', InHand(w)',
         (about[w] = NoBody <=> stage[w] = "free")',
         (pc[w] # "idle" <=> stage[w] = "recording")'
  PROVE  ServiceSteps(w)
<1>1. Grows /\ PayloadsMatch'
  BY NothingRecorded
<1>2. \A u \in Workers : InHand(u)'
  BY <1>1, OthersStay
<1>3. Store!TypeOK'
  <2>1. (Facts!IInv => Store!TypeOK)'
    BY SameStore, PTL
  <2> QED
    BY <2>1
<1>4. ServiceTypeOK'
  <2>1. \A u \in Workers : /\ about'[u] = NoBody <=> stage'[u] = "free"
                           /\ pc'[u] # "idle" <=> stage'[u] = "recording"
    BY ServiceTypes DEF OthersUntouched
  <2>2. payloads' \in Seq(Bodies) /\ Len(payloads') = Len(rows')
    BY ServiceTypes
  <2> QED
    BY <1>3, <2>1, <2>2 DEF ServiceTypeOK, RequestsTyped
<1> QED
  BY <1>1, <1>2, <1>4 DEF ServiceSteps, ServiceInv

(* The same of a step that leaves the store alone.                         *)
LEMMA AfterRequest ==
  ASSUME ServiceInv, NEW w \in Workers, UNCHANGED <<storeVars, payloads>>,
         stage[w] # "recording", stage'[w] # "recording", RequestsTyped',
         \A u \in Workers \ {w} : /\ stage'[u] = stage[u] /\ about'[u] = about[u]
                                  /\ body'[u] = body[u],
         InHand(w)', (about[w] = NoBody <=> stage[w] = "free")'
  PROVE  ServiceSteps(w)
<1>1. UNCHANGED <<now, rows, transitions, pc, job>>
  BY DEF storeVars
<1>2. Facts!IInv'
  BY StoreKeeps DEF ServiceInv
<1>3. OthersUntouched(w)
  BY <1>1 DEF OthersUntouched
<1>4. (pc[w] # "idle" <=> stage[w] = "recording")'
  BY <1>1, ServiceTypes
<1> QED
  BY <1>1, <1>2, <1>3, <1>4, AfterWorker

LEMMA ServeSteps ==
  ASSUME ServiceInv, NEW w \in Workers, NEW a \in Agents, Serve(w, a)
  PROVE  /\ ServiceSteps(w)
         /\ stage[w] = "free" /\ stage'[w] = "scoring" /\ about'[w] = a /\ now' = now
<1>1. /\ stage[w] = "free" /\ stage' = [stage EXCEPT ![w] = "scoring"]
      /\ about' = [about EXCEPT ![w] = a] /\ body' = body /\ key' = key
      /\ UNCHANGED <<storeVars, payloads>>
  BY DEF Serve, Move
<1>2. RequestsTyped
  BY ServiceTypes
<1>3. /\ stage'[w] = "scoring" /\ about'[w] = a /\ a # NoBody
      /\ \A u \in Workers \ {w} : stage'[u] = stage[u] /\ about'[u] = about[u]
  BY <1>1, <1>2, BodyAssumption DEF RequestsTyped
<1>4. RequestsTyped'
  BY <1>1, <1>2 DEF RequestsTyped
<1>5. InHand(w)'
  BY <1>3 DEF InHand
<1>6. now' = now
  BY <1>1 DEF storeVars
<1> QED
  BY <1>1, <1>3, <1>4, <1>5, <1>6, AfterRequest

LEMMA ReleaseSteps ==
  ASSUME ServiceInv, NEW w \in Workers, Release(w)
  PROVE  ServiceSteps(w) /\ now' = now
<1>1. /\ stage[w] = "done" /\ stage' = [stage EXCEPT ![w] = "free"]
      /\ about' = [about EXCEPT ![w] = NoBody] /\ body' = [body EXCEPT ![w] = NoBody]
      /\ key' = key /\ UNCHANGED <<storeVars, payloads>>
  BY DEF Release, Move
<1>2. RequestsTyped
  BY ServiceTypes
<1>3. /\ stage'[w] = "free" /\ about'[w] = NoBody
      /\ \A u \in Workers \ {w} : /\ stage'[u] = stage[u] /\ about'[u] = about[u]
                                  /\ body'[u] = body[u]
  BY <1>1, <1>2 DEF RequestsTyped
<1>4. RequestsTyped'
  BY <1>1, <1>2 DEF RequestsTyped
<1>5. InHand(w)'
  BY <1>3 DEF InHand
<1>6. now' = now
  BY <1>1 DEF storeVars
<1> QED
  BY <1>1, <1>3, <1>4, <1>5, <1>6, AfterRequest

(* A request ends with answer b, the store left alone.                     *)
LEMMA EndsWith ==
  ASSUME ServiceInv, NEW w \in Workers, stage[w] \in {"scoring", "fallback"},
         stage' = [stage EXCEPT ![w] = "done"],
         NEW b \in Bodies \cup Errors, Fails(w, b), UNCHANGED storeVars,
         b \in Bodies => AsAnswered(b, about[w])' /\ b.kind = "stale"
  PROVE  ServiceSteps(w) /\ WorkGoesOn(w)
<1>1. /\ body' = [body EXCEPT ![w] = b] /\ about' = about /\ key' = key
      /\ UNCHANGED <<storeVars, payloads>>
  BY DEF Fails
<1>2. RequestsTyped
  BY ServiceTypes
<1>3. /\ stage'[w] = "done" /\ about'[w] = about[w] /\ body'[w] = b
      /\ \A u \in Workers \ {w} : stage'[u] = stage[u] /\ body'[u] = body[u]
  BY <1>1, <1>2 DEF RequestsTyped
<1>4. RequestsTyped'
  BY <1>1, <1>2 DEF RequestsTyped
<1>5. b # NoBody
  BY AnswerKinds
<1>6. InHand(w)'
  BY <1>1, <1>3, <1>5 DEF InHand
<1>7. about[w] # NoBody
  BY ServiceTypes
<1>8. ServiceSteps(w)
  BY <1>1, <1>3, <1>4, <1>6, <1>7, AfterRequest
<1>9. now' = now
  BY <1>1 DEF storeVars
<1>10. \A t \in Nat : Since(w, t) => Since(w, t)'
  BY <1>3, <1>9 DEF Since
<1> QED
  BY <1>3, <1>8, <1>10 DEF WorkGoesOn

LEMMA NotFoundSteps ==
  ASSUME ServiceInv, NEW w \in Workers, NotFound(w)
  PROVE  ServiceSteps(w) /\ WorkGoesOn(w)
  BY EndsWith, AnswerKinds DEF NotFound, Move

LEMMA RaisesSteps ==
  ASSUME ServiceInv, NEW w \in Workers, Raises(w)
  PROVE  ServiceSteps(w) /\ WorkGoesOn(w)
  BY EndsWith, AnswerKinds DEF Raises

LEMMA UnreadableSteps ==
  ASSUME ServiceInv, NEW w \in Workers, Unreadable(w)
  PROVE  ServiceSteps(w) /\ WorkGoesOn(w)
<1>1. /\ stage[w] = "scoring" /\ stage' = [stage EXCEPT ![w] = "fallback"]
      /\ about' = about /\ body' = body /\ key' = key
      /\ UNCHANGED <<storeVars, payloads>>
  BY DEF Unreadable, Move
<1>2. RequestsTyped
  BY ServiceTypes
<1>3. stage'[w] = "fallback" /\ \A u \in Workers \ {w} : stage'[u] = stage[u]
  BY <1>1, <1>2 DEF RequestsTyped
<1>4. RequestsTyped'
  BY <1>1, <1>2 DEF RequestsTyped
<1>5. InHand(w)'
  BY <1>3 DEF InHand
<1>6. about[w] # NoBody
  BY <1>1, ServiceTypes
<1>7. ServiceSteps(w)
  BY <1>1, <1>3, <1>4, <1>5, <1>6, AfterRequest
<1>8. \A t \in Nat : Since(w, t) => Since(w, t)'
  BY <1>1, <1>3 DEF Since, storeVars
<1> QED
  BY <1>1, <1>3, <1>7, <1>8 DEF WorkGoesOn

LEMMA FallbackSteps ==
  ASSUME ServiceInv, NEW w \in Workers, Fallback(w)
  PROVE  ServiceSteps(w) /\ WorkGoesOn(w)
<1>1. /\ stage[w] = "fallback" /\ stage' = [stage EXCEPT ![w] = "done"]
      /\ UNCHANGED storeVars
  BY DEF Fallback, Move
<1>2. CASE Fails(w, Error("detail"))
  BY <1>1, <1>2, EndsWith, AnswerKinds
<1>3. ASSUME NEW i \in DOMAIN rows, Store!IsLatest(rows, about[w], i),
             Fails(w, StaleBody(payloads[i]))
      PROVE  ServiceSteps(w) /\ WorkGoesOn(w)
  <2>1. PICK b, x, a : b = payloads[i] /\ x = StaleBody(b) /\ a = about[w]
    OBVIOUS
  <2>2. rows[i].agent = a /\ AsScored(b, a)
    BY <1>3, <2>1 DEF Store!IsLatest, Store!RowsOf, ServiceInv, PayloadsMatch
  <2>3. /\ x \in Bodies /\ x.kind = "stale" /\ x.signature = NoBody
        /\ x.digest = x.core /\ x.core.agent = a
    BY <2>1, <2>2, StaleAnswer
  <2>4. AsAnswered(x, a)'
    BY <2>3 DEF AsAnswered
  <2>5. about' = about
    BY <1>3 DEF Fails
  <2> QED
    BY <1>1, <1>3, <2>1, <2>3, <2>4, <2>5, EndsWith
<1> QED
  BY <1>2, <1>3 DEF Fallback

LEMMA ScoreSteps ==
  ASSUME ServiceInv, NEW w \in Workers, Score(w)
  PROVE  ServiceSteps(w) /\ WorkGoesOn(w)
<1>0. PICK judged \in Judgements :
        /\ Store!Begin(w, about[w], judged.verdict)
        /\ body' = [body EXCEPT ![w] = Scored(about[w], judged)]
  BY DEF Score
<1>1. /\ stage[w] = "scoring" /\ stage' = [stage EXCEPT ![w] = "recording"]
      /\ about' = about /\ key' = key /\ payloads' = payloads
  BY DEF Score, Move
<1>2. RequestsTyped /\ pc \in [Workers -> {"idle", "read", "write"}]
      /\ job \in [Workers -> Store!Job \cup {NoRow}]
  BY ServiceTypes DEF Store!TypeOK
<1>3. PICK a, b : a = about[w] /\ b = Scored(a, judged)
  OBVIOUS
<1>4. a \in Agents /\ a # NoBody
  BY <1>1, <1>2, <1>3, ServiceTypes DEF RequestsTyped
<1>5. AsScored(b, a) /\ b.core.verdict = judged.verdict /\ b \in Bodies /\ judged.verdict \in Verdicts
  BY <1>3, <1>4, ScoredIsAsScored, ServiceAssumption DEF AsScored
<1>6. /\ pc' = [pc EXCEPT ![w] = "read"]
      /\ job' = [job EXCEPT ![w] = [new |-> [agent |-> a, verdict |-> judged.verdict, at |-> now],
                                    prev |-> NoRow]]
      /\ UNCHANGED <<now, rows, transitions>>
  BY <1>0, <1>3 DEF Store!Begin
<1>7. /\ stage'[w] = "recording" /\ body'[w] = b /\ about'[w] = a /\ pc'[w] = "read"
      /\ job'[w].new.agent = a /\ job'[w].new.verdict = judged.verdict /\ job'[w].new.at = now
      /\ \A u \in Workers \ {w} : pc'[u] = pc[u]
      /\ OthersUntouched(w)
  BY <1>0, <1>1, <1>2, <1>3, <1>6 DEF RequestsTyped, OthersUntouched
<1>8. Facts!IInv'
  BY <1>0, <1>3, <1>4, <1>5, StoreKeeps DEF ServiceInv
<1>9. RequestsTyped'
  BY <1>0, <1>1, <1>2, <1>3, <1>5 DEF RequestsTyped
<1>10. InHand(w)'
  <2>1. AsScored(b, a)'
    BY <1>5 DEF AsScored
  <2> QED
    BY <2>1, <1>5, <1>7 DEF InHand
<1>11. ServiceSteps(w)
  BY <1>1, <1>4, <1>6, <1>7, <1>8, <1>9, <1>10, AfterWorker
<1>12. \A t \in Nat : Since(w, t) => Since(w, t)'
  BY <1>6, <1>7 DEF Since
<1> QED
  BY <1>1, <1>7, <1>11, <1>12 DEF WorkGoesOn

LEMMA ReadPrevSteps ==
  ASSUME ServiceInv, NEW w \in Workers, ReadPrev(w)
  PROVE  ServiceSteps(w) /\ WorkGoesOn(w)
<1>1. /\ pc[w] = "read" /\ pc' = [pc EXCEPT ![w] = "write"]
      /\ UNCHANGED <<now, rows, transitions, payloads, key, stage, about, body>>
  BY DEF ReadPrev, Store!ReadPrev
<1>2. RequestsTyped /\ pc \in [Workers -> {"idle", "read", "write"}]
      /\ job \in [Workers -> Store!Job \cup {NoRow}]
  BY ServiceTypes DEF Store!TypeOK
<1>3. /\ job'[w].new = job[w].new
      /\ \A u \in Workers \ {w} : job'[u] = job[u] /\ pc'[u] = pc[u]
  BY <1>1, <1>2 DEF ReadPrev, Store!ReadPrev
<1>4. stage[w] = "recording" /\ about[w] # NoBody
  BY <1>1, ServiceTypes
<1>5. OthersUntouched(w)
  BY <1>1, <1>3 DEF OthersUntouched
<1>6. Facts!IInv' /\ RequestsTyped'
  BY <1>1, <1>2, StoreKeeps DEF ServiceInv, RequestsTyped, ReadPrev
<1>7. InHand(w)' /\ \A t \in Nat : Since(w, t) => Since(w, t)'
  BY <1>1, <1>3, NothingRecorded, WorkerStays
<1>8. (pc[w] # "idle" <=> stage[w] = "recording")' /\ (about[w] = NoBody <=> stage[w] = "free")'
  BY <1>1, <1>2, <1>4
<1>9. ServiceSteps(w)
  BY <1>1, <1>3, <1>5, <1>6, <1>7, <1>8, AfterWorker
<1> QED
  BY <1>1, <1>4, <1>7, <1>9 DEF WorkGoesOn

LEMMA RecordRaisesSteps ==
  ASSUME ServiceInv, NEW w \in Workers, RecordRaises(w)
  PROVE  ServiceSteps(w) /\ WorkGoesOn(w)
<1>1. /\ stage[w] = "recording" /\ stage' = [stage EXCEPT ![w] = "done"]
      /\ body' = [body EXCEPT ![w] = Error("text")]
      /\ pc' = [pc EXCEPT ![w] = "idle"] /\ job' = [job EXCEPT ![w] = NoRow]
      /\ UNCHANGED <<now, rows, transitions, payloads, key, about>>
      /\ Store!Abort(w)
  BY DEF RecordRaises, Move, Fails, Store!Abort
<1>2. RequestsTyped /\ pc \in [Workers -> {"idle", "read", "write"}]
      /\ job \in [Workers -> Store!Job \cup {NoRow}]
  BY ServiceTypes DEF Store!TypeOK
<1>3. /\ stage'[w] = "done" /\ body'[w] = Error("text") /\ pc'[w] = "idle"
      /\ \A u \in Workers \ {w} : pc'[u] = pc[u]
      /\ OthersUntouched(w)
  BY <1>1, <1>2 DEF RequestsTyped, OthersUntouched
<1>4. about[w] # NoBody
  BY <1>1, ServiceTypes
<1>5. Facts!IInv'
  BY <1>1, StoreKeeps DEF ServiceInv
<1>6. RequestsTyped'
  BY <1>1, <1>2, AnswerKinds DEF RequestsTyped
<1>7. Error("text") # NoBody /\ Error("text") \notin Bodies
  BY AnswerKinds
<1>8. InHand(w)' /\ \A t \in Nat : Since(w, t) => Since(w, t)'
  BY <1>1, <1>3, <1>7 DEF InHand, Since
<1>9. (pc[w] # "idle" <=> stage[w] = "recording")' /\ (about[w] = NoBody <=> stage[w] = "free")'
  BY <1>1, <1>3, <1>4
<1>10. ServiceSteps(w)
  BY <1>1, <1>3, <1>5, <1>6, <1>8, <1>9, AfterWorker
<1> QED
  BY <1>1, <1>3, <1>8, <1>10 DEF WorkGoesOn

(* The one step that writes: what the answer says and tells is committed   *)
(* by the very step that signs it.                                         *)
LEMMA WriteCommits ==
  ASSUME Facts!IInv, NEW w \in Workers, Store!Write(w), NEW n, n = Len(rows) + 1,
         NEW j, j = job[w]
  PROVE  /\ n \in Nat /\ DOMAIN rows = 1..Len(rows) /\ DOMAIN rows' = 1..n /\ n \in DOMAIN rows'
         /\ j \in Store!Job /\ j.new \in Store!Row /\ rows'[n] = j.new
         /\ \A i \in DOMAIN rows : i \in DOMAIN rows' /\ rows'[i] = rows[i] /\ i < n
         /\ \A k \in DOMAIN transitions : k \in DOMAIN transitions'
                                          /\ transitions'[k] = transitions[k]
         /\ j.prev # NoRow => \E h \in Store!RowsOf(rows', j.new.agent) :
                                  h < n /\ rows'[h] = j.prev
         /\ Store!VerdictMoved(j) => \E k \in Store!TransitionsOf(j.new.agent)' :
                                         /\ transitions'[k].from = j.prev.verdict
                                         /\ transitions'[k].to = j.new.verdict
<1>1. /\ pc[w] = "write" /\ rows' = Append(rows, j.new)
      /\ transitions' = IF Store!VerdictMoved(j)
                        THEN Append(transitions, [agent |-> j.new.agent, from |-> j.prev.verdict,
                                                  to |-> j.new.verdict, at |-> j.new.at])
                        ELSE transitions
  BY DEF Store!Write
<1>2. /\ rows \in Seq(Store!Row) /\ transitions \in Seq(Store!Transition)
      /\ j \in Store!Job /\ j.new \in Store!Row
  BY <1>1, SameStore DEF Store!TypeOK, Store!Job
<1>3. /\ n \in Nat /\ Len(rows) \in Nat /\ DOMAIN rows = 1..Len(rows) /\ DOMAIN rows' = 1..n /\ n \in DOMAIN rows'
      /\ rows'[n] = j.new
      /\ \A i \in DOMAIN rows : i \in DOMAIN rows' /\ rows'[i] = rows[i] /\ i < n
  BY <1>1, <1>2
<1>4. j.prev # NoRow => \E h \in Store!RowsOf(rows', j.new.agent) : h < n /\ rows'[h] = j.prev
  <2> SUFFICES ASSUME j.prev # NoRow
               PROVE  \E h \in Store!RowsOf(rows', j.new.agent) : h < n /\ rows'[h] = j.prev
    OBVIOUS
  <2>1. PICK h \in Store!RowsOf(rows, j.new.agent) : rows[h] = j.prev
    BY <1>1, SameStore DEF Facts!IInv, Facts!PrevRecorded
  <2> QED
    BY <2>1, <1>3 DEF Store!RowsOf
<1>5. /\ \A k \in DOMAIN transitions : k \in DOMAIN transitions' /\ transitions'[k] = transitions[k]
      /\ Store!VerdictMoved(j) => \E k \in Store!TransitionsOf(j.new.agent)' :
                                      /\ transitions'[k].from = j.prev.verdict
                                      /\ transitions'[k].to = j.new.verdict
  <2>1. CASE ~Store!VerdictMoved(j)
    BY <2>1, <1>1
  <2>2. CASE Store!VerdictMoved(j)
    <3>1. PICK t, K : /\ t = [agent |-> j.new.agent, from |-> j.prev.verdict,
                              to |-> j.new.verdict, at |-> j.new.at]
                      /\ K = Len(transitions) + 1
      OBVIOUS
    <3>2. transitions' = Append(transitions, t)
      BY <2>2, <3>1, <1>1
    <3>3. /\ K \in DOMAIN transitions' /\ transitions'[K] = t
          /\ \A k \in DOMAIN transitions : k \in DOMAIN transitions'
                                           /\ transitions'[k] = transitions[k]
      BY <3>1, <3>2, <1>2
    <3>4. t.agent = j.new.agent /\ t.from = j.prev.verdict /\ t.to = j.new.verdict
      BY <3>1
    <3>5. K \in Store!TransitionsOf(j.new.agent)'
      BY <3>3, <3>4 DEF Store!TransitionsOf
    <3> QED
      BY <3>3, <3>4, <3>5
  <2> QED
    BY <2>1, <2>2
<1> QED
  BY <1>2, <1>3, <1>4, <1>5

LEMMA RecordSteps ==
  ASSUME ServiceInv, NEW w \in Workers, Record(w)
  PROVE  ServiceSteps(w) /\ WorkGoesOn(w)
<1>0. PICK n, j, a, b, x : /\ n = Len(rows) + 1 /\ j = job[w] /\ a = about[w] /\ b = body[w]
                           /\ x = Sign(Seal(Annotated(b, j)))
  OBVIOUS
<1>1. /\ stage[w] = "recording" /\ stage' = [stage EXCEPT ![w] = "done"]
      /\ payloads' = Append(payloads, b) /\ body' = [body EXCEPT ![w] = x]
      /\ key' = key /\ about' = about
      /\ Store!Write(w)
      /\ pc' = [pc EXCEPT ![w] = "idle"] /\ job' = [job EXCEPT ![w] = NoRow] /\ now' = now
  BY <1>0 DEF Record, Move, Store!Write
<1>2. /\ RequestsTyped /\ now \in Nat /\ a # NoBody
      /\ pc \in [Workers -> {"idle", "read", "write"}]
      /\ job \in [Workers -> Store!Job \cup {NoRow}]
      /\ payloads \in Seq(Bodies) /\ Len(payloads) = Len(rows) /\ DOMAIN payloads = DOMAIN rows
  BY <1>0, <1>1, ServiceTypes DEF Store!TypeOK
<1>3. AsScored(b, a) /\ j.new.agent = a /\ j.new.verdict = b.core.verdict /\ b \in Bodies
  BY <1>0, <1>1, ServiceTypes DEF InHand, AsScored
<1>4. /\ n \in Nat /\ DOMAIN rows = 1..Len(rows) /\ DOMAIN rows' = 1..n /\ n \in DOMAIN rows'
      /\ j \in Store!Job /\ j.new \in Store!Row /\ rows'[n] = j.new
      /\ \A i \in DOMAIN rows : i \in DOMAIN rows' /\ rows'[i] = rows[i] /\ i < n
      /\ \A k \in DOMAIN transitions : k \in DOMAIN transitions'
                                       /\ transitions'[k] = transitions[k]
      /\ j.prev # NoRow => \E h \in Store!RowsOf(rows', j.new.agent) :
                               h < n /\ rows'[h] = j.prev
      /\ Store!VerdictMoved(j) => \E k \in Store!TransitionsOf(j.new.agent)' :
                                      /\ transitions'[k].from = j.prev.verdict
                                      /\ transitions'[k].to = j.new.verdict
  <2>1. Facts!IInv /\ Store!Write(w) /\ n = Len(rows) + 1 /\ j = job[w]
    BY <1>0, <1>1 DEF ServiceInv
  <2> QED
    BY <2>1, WriteCommits
<1>5. /\ payloads' \in Seq(Bodies) /\ Len(payloads') = n /\ payloads'[n] = b
      /\ \A i \in DOMAIN rows : payloads'[i] = payloads[i]
  BY <1>0, <1>1, <1>2, <1>3
<1>6. /\ x \in Bodies /\ x.kind = "verdict"
      /\ x.core.agent = a /\ x.core.verdict = b.core.verdict /\ x.core.usd = b.core.usd
      /\ x.core.note = NoteOf(j)
      /\ x.digest = x.core
      /\ x.signature \in Envelopes /\ x.signature # NoBody
      /\ x.signature.over = x.core /\ x.signature.at = now
  BY <1>0, <1>2, <1>3, <1>4, SignedAnswer DEF RequestsTyped
<1>7. Grows
  BY <1>1, <1>2, <1>4, <1>5 DEF Grows
<1>8. /\ stage'[w] = "done" /\ body'[w] = x /\ about'[w] = a /\ pc'[w] = "idle"
      /\ \A u \in Workers \ {w} : pc'[u] = pc[u]
      /\ OthersUntouched(w)
  BY <1>0, <1>1, <1>2 DEF RequestsTyped, OthersUntouched
<1>9. n \in Store!RowsOf(rows', a) /\ rows'[n].verdict = b.core.verdict
  <2>1. n \in DOMAIN rows'
    BY <1>4
  <2>2. rows'[n].agent = a /\ rows'[n].verdict = b.core.verdict
    BY <1>3, <1>4
  <2> QED
    BY <2>1, <2>2 DEF Store!RowsOf
<1>10. TellsHistory(x)'
  <2>1. x.core.note.previous # NoRow =>
          \E h \in Store!RowsOf(rows', a) : h < n /\ rows'[h].verdict = x.core.note.previous
    BY <1>3, <1>4, <1>6 DEF NoteOf
  <2>2. x.core.note.moved =>
          \E k \in Store!TransitionsOf(a)' : /\ transitions'[k].from = x.core.note.previous
                                             /\ transitions'[k].to = x.core.verdict
    <3>1. x.core.note.moved = Store!VerdictMoved(j)
      BY <1>6 DEF NoteOf
    <3>2. Store!VerdictMoved(j) => x.core.note.previous = j.prev.verdict
      BY <1>6 DEF NoteOf, Store!VerdictMoved
    <3>3. x.core.verdict = j.new.verdict /\ j.new.agent = a
      BY <1>3, <1>6
    <3>4. ASSUME x.core.note.moved
          PROVE  \E k \in Store!TransitionsOf(a)' : /\ transitions'[k].from = x.core.note.previous
                                                    /\ transitions'[k].to = x.core.verdict
      <4>1. Store!VerdictMoved(j)
        BY <3>1, <3>4
      <4>2. PICK k \in Store!TransitionsOf(j.new.agent)' : /\ transitions'[k].from = j.prev.verdict
                                                           /\ transitions'[k].to = j.new.verdict
        BY <4>1, <1>4
      <4>3. k \in Store!TransitionsOf(a)'
        BY <4>2, <3>3 DEF Store!TransitionsOf
      <4> QED
        BY <4>1, <4>2, <4>3, <3>2, <3>3
    <3> QED
      BY <3>4
  <2>3. /\ n \in Store!RowsOf(rows', x.core.agent) /\ rows'[n].verdict = x.core.verdict
        /\ x.core.agent = a
    BY <1>6, <1>9
  <2> QED
    BY <2>1, <2>2, <2>3 DEF TellsHistory
<1>11. InHand(w)'
  <2>1. now' = now /\ now \in Nat
    BY <1>1, <1>2
  <2>2. AsAnswered(x, a)'
    BY <1>6, <1>10, <2>1 DEF AsAnswered
  <2>3. x # NoBody
    BY <1>6, AnswerKinds
  <2> QED
    BY <1>8, <2>2, <2>3 DEF InHand
<1>12. \A t \in Nat : Since(w, t) => Since(w, t)'
  <2> SUFFICES ASSUME NEW t \in Nat, Since(w, t)  PROVE Since(w, t)'
    OBVIOUS
  <2>1. t <= now' /\ t <= rows'[n].at
    BY <1>0, <1>1, <1>4 DEF Since
  <2>2. RecordedSince(x, t)'
    BY <2>1, <1>5, <1>6, <1>9 DEF RecordedSince
  <2> QED
    BY <2>1, <2>2, <1>8 DEF Since
<1>13. PayloadsMatch'
  <2> SUFFICES ASSUME NEW i \in DOMAIN rows'
               PROVE  /\ AsScored(payloads'[i], rows'[i].agent)
                      /\ payloads'[i].core.verdict = rows'[i].verdict
    BY DEF PayloadsMatch, AsScored
  <2>1. CASE i = n
    BY <2>1, <1>3, <1>4, <1>5
  <2>2. CASE i \in DOMAIN rows
    BY <2>2, <1>4, <1>5 DEF ServiceInv, PayloadsMatch
  <2>3. i = n \/ i \in DOMAIN rows
    BY <1>0, <1>2, <1>4, ServiceTypes
  <2> QED
    BY <2>1, <2>2, <2>3
<1>14. \A u \in Workers : InHand(u)'
  BY <1>7, <1>8, <1>11, OthersStay
<1>15. Facts!IInv' /\ Store!TypeOK'
  <2>1. Facts!IInv'
    BY <1>1, StoreKeeps DEF ServiceInv
  <2>2. (Facts!IInv => Store!TypeOK)'
    BY SameStore, PTL
  <2> QED
    BY <2>1, <2>2
<1>16. ServiceTypeOK'
  <2>1. RequestsTyped'
    BY <1>1, <1>2, <1>6 DEF RequestsTyped
  <2>2. \A u \in Workers : /\ about'[u] = NoBody <=> stage'[u] = "free"
                           /\ pc'[u] # "idle" <=> stage'[u] = "recording"
    BY <1>2, <1>8, ServiceTypes DEF OthersUntouched
  <2>3. Len(rows') = n
    BY <1>4, <1>15 DEF Store!TypeOK
  <2> QED
    BY <1>5, <1>15, <2>1, <2>2, <2>3 DEF ServiceTypeOK, RequestsTyped
<1> QED
  BY <1>0, <1>7, <1>8, <1>12, <1>13, <1>14, <1>15, <1>16
     DEF ServiceSteps, ServiceInv, WorkGoesOn

LEMMA WorksSteps ==
  ASSUME ServiceInv, NEW w \in Workers, Works(w)
  PROVE  ServiceSteps(w) /\ WorkGoesOn(w)
  BY ScoreSteps, ReadPrevSteps, RecordSteps, NotFoundSteps, UnreadableSteps, FallbackSteps,
     RaisesSteps, RecordRaisesSteps DEF Works

(* A step of time or a restart: what concerns every worker at once.        *)
LEMMA TickSteps ==
  ASSUME ServiceInv, Tick
  PROVE  /\ ServiceInv' /\ Grows
         /\ UNCHANGED <<stage, about>>
         /\ \A w \in Workers, t \in Nat : Since(w, t) => Since(w, t)'
<1>1. /\ now' = now + 1
      /\ UNCHANGED <<rows, transitions, pc, job, payloads, key, stage, about, body>>
      /\ Store!Tick
  BY DEF Tick, Store!Tick
<1>2. Grows /\ PayloadsMatch'
  BY <1>1, ServiceTypes DEF Grows, ServiceInv, PayloadsMatch
<1>3. \A w \in Workers : InHand(w)' /\ \A t \in Nat : Since(w, t) => Since(w, t)'
  BY <1>1, <1>2, WorkerStays
<1>4. Facts!IInv' /\ Store!TypeOK'
  <2>1. Facts!IInv'
    BY <1>1, StoreKeeps DEF ServiceInv
  <2>2. (Facts!IInv => Store!TypeOK)'
    BY SameStore, PTL
  <2> QED
    BY <2>1, <2>2
<1>5. ServiceTypeOK'
  BY <1>1, <1>4 DEF ServiceInv, ServiceTypeOK
<1> QED
  BY <1>1, <1>2, <1>3, <1>4, <1>5 DEF ServiceInv

LEMMA RestartSteps ==
  ASSUME ServiceInv, Restart
  PROVE  ServiceInv' /\ Grows
<1>1. /\ \A w \in Workers : pc[w] = "idle"
      /\ key' \in Keys
      /\ stage' = [w \in Workers |-> "free"]
      /\ about' = [w \in Workers |-> NoBody]
      /\ body' = [w \in Workers |-> NoBody]
      /\ UNCHANGED <<now, rows, transitions, pc, job, payloads>> /\ UNCHANGED storeVars
  BY DEF Restart, storeVars
<1>2. Grows /\ PayloadsMatch'
  BY <1>1, NothingRecorded
<1>3. \A w \in Workers : InHand(w)'
  BY <1>1 DEF InHand
<1>4. Facts!IInv' /\ Store!TypeOK'
  <2>1. Facts!IInv'
    BY <1>1, StoreKeeps DEF ServiceInv
  <2>2. (Facts!IInv => Store!TypeOK)'
    BY SameStore, PTL
  <2> QED
    BY <2>1, <2>2
<1>5. ServiceTypeOK'
  BY <1>1, <1>4, ServiceTypes DEF ServiceTypeOK
<1> QED
  BY <1>2, <1>3, <1>4, <1>5 DEF ServiceInv

LEMMA ServiceStutters ==
  ASSUME ServiceInv, UNCHANGED serviceVars
  PROVE  /\ ServiceInv' /\ Grows
         /\ UNCHANGED <<stage, about>>
         /\ \A w \in Workers, t \in Nat : Since(w, t) => Since(w, t)'
<1>1. UNCHANGED <<now, rows, transitions, pc, job, payloads, key, stage, about, body>>
      /\ UNCHANGED storeVars
  BY DEF serviceVars, storeVars
<1>2. Grows /\ PayloadsMatch'
  BY <1>1, NothingRecorded
<1>3. \A w \in Workers : InHand(w)' /\ \A t \in Nat : Since(w, t) => Since(w, t)'
  BY <1>1, <1>2, WorkerStays
<1>4. Facts!IInv' /\ Store!TypeOK'
  <2>1. Facts!IInv'
    BY <1>1, StoreKeeps DEF ServiceInv
  <2>2. (Facts!IInv => Store!TypeOK)'
    BY SameStore, PTL
  <2> QED
    BY <2>1, <2>2
<1>5. ServiceTypeOK'
  BY <1>1, <1>4 DEF ServiceInv, ServiceTypeOK
<1> QED
  BY <1>1, <1>2, <1>3, <1>4, <1>5 DEF ServiceInv

-----------------------------------------------------------------------------
(* The callers.                                                            *)

(* What a session keeps, and what it waits for, under a step that does not *)
(* touch it.                                                               *)
LEMMA CacheStays ==
  ASSUME IInv, Grows, NEW c \in Callers, NEW a \in Agents, cache[c][a] \in Bodies
  PROVE  cache'[c][a] = cache[c][a] => KeptAnswer(cache[c][a], a)'
<1>1. PICK b : b = cache[c][a]
  OBVIOUS
<1>2. b \in Bodies /\ KeptAnswer(b, a)
  BY <1>1 DEF IInv, CacheOK
<1>3. AsAnswered(b, a)'
  BY <1>2, AnswersStay DEF KeptAnswer
<1>4. b.kind = "verdict" => \E t \in Nat : /\ b.signature.at <= t + ASK_TIMEOUT
                                           /\ RecordedSince(b, t)'
  BY <1>2, EvidenceStays DEF KeptAnswer
<1>5. KeptAnswer(b, a)'
  BY <1>3, <1>4 DEF KeptAnswer
<1> QED
  BY <1>1, <1>5

LEMMA CachesStay ==
  ASSUME IInv, Grows, cache' = cache
  PROVE  CacheOK'
  BY CacheStays DEF CacheOK

LEMMA WaitingStays ==
  ASSUME IInv, NEW c \in Callers, ask[c] # NoCall, ask'[c] = ask[c],
         NEW w \in Workers, w = ask[c].worker,
         stage'[w] # "free", about'[w] = about[w],
         \A t \in Nat : Since(w, t) => Since(w, t)',
         \A d \in Callers \ {c} : ask'[d] # NoCall => ask'[d].worker # w
  PROVE  Waiting(c)'
<1>1. PICK t, a : t = ask[c].at /\ a = ask[c].agent
  OBVIOUS
<1>2. t \in Nat /\ about[w] = a /\ Since(w, t)
  BY <1>1 DEF IInv, CallersTyped, Waiting, Calls
<1>3. Since(w, t)'
  BY <1>2
<1> QED
  BY <1>1, <1>2, <1>3 DEF Waiting

LEMMA Asked ==
  ASSUME IInv, NEW c \in Callers, ask[c] # NoCall
  PROVE  /\ ask[c].worker \in Workers /\ ask[c].agent \in Agents /\ ask[c].at \in Nat
         /\ stage[ask[c].worker] # "free" /\ about[ask[c].worker] = ask[c].agent
         /\ \A d \in Callers \ {c} : ask[d] # NoCall => ask[d].worker # ask[c].worker
  BY DEF IInv, CallersTyped, Calls, Waiting

(* A worker's step, seen by the callers: it goes on, or nobody waits.      *)
LEMMA CallersWatch ==
  ASSUME IInv, NEW w \in Workers, ServiceSteps(w), UNCHANGED callerVars,
         WorkGoesOn(w) \/ ~Awaited(w)
  PROVE  IInv'
<1>1. ServiceInv' /\ Grows /\ OthersUntouched(w) /\ pinned' = pinned /\ cache' = cache /\ ask' = ask
  BY DEF ServiceSteps, callerVars
<1>2. CallersTyped'
  BY <1>1 DEF IInv, CallersTyped
<1>3. CacheOK'
  BY <1>1, CachesStay
<1>4. ASSUME NEW c \in Callers, ask[c] # NoCall  PROVE Waiting(c)'
  <2>1. PICK u \in Workers : u = ask[c].worker
    BY <1>4, Asked
  <2>2. \A d \in Callers \ {c} : ask'[d] # NoCall => ask'[d].worker # u
    BY <1>1, <1>4, <2>1, Asked
  <2>3. CASE u = w
    <3>1. WorkGoesOn(w)
      BY <1>4, <2>1, <2>3 DEF Awaited
    <3> QED
      BY <1>1, <1>4, <2>1, <2>2, <2>3, <3>1, WaitingStays DEF WorkGoesOn
  <2>4. CASE u # w
    <3>1. stage'[u] = stage[u] /\ about'[u] = about[u] /\ stage[u] # "free"
      BY <1>1, <1>4, <2>1, <2>4, Asked DEF OthersUntouched
    <3>2. \A t \in Nat : Since(u, t) => Since(u, t)'
      BY <1>1, <2>4, OthersStay DEF IInv
    <3> QED
      BY <1>1, <1>4, <2>1, <2>2, <3>1, <3>2, WaitingStays
  <2> QED
    BY <2>3, <2>4
<1>5. \A c \in Callers : Waiting(c)'
  BY <1>1, <1>4 DEF Waiting
<1> QED
  BY <1>1, <1>2, <1>3, <1>5 DEF IInv

(* A step that leaves every worker's request where it is.                  *)
LEMMA CallersWait ==
  ASSUME IInv, ServiceInv', Grows, UNCHANGED <<stage, about>>,
         \A w \in Workers, t \in Nat : Since(w, t) => Since(w, t)',
         \A d \in Callers : ask'[d] \in {ask[d], NoCall}
  PROVE  \A c \in Callers : Waiting(c)'
<1> SUFFICES ASSUME NEW c \in Callers, ask'[c] # NoCall  PROVE Waiting(c)'
  BY DEF Waiting
<1>1. ask'[c] = ask[c] /\ ask[c] # NoCall
  OBVIOUS
<1>2. PICK w \in Workers : w = ask[c].worker
  BY <1>1, Asked
<1>3. stage'[w] # "free" /\ about'[w] = about[w]
  BY <1>1, <1>2, Asked
<1>4. \A d \in Callers \ {c} : ask'[d] # NoCall => ask'[d].worker # w
  BY <1>1, <1>2, Asked
<1> QED
  BY <1>1, <1>2, <1>3, <1>4, WaitingStays

LEMMA NewSessionKeeps ==
  ASSUME IInv, NEW c \in Callers, NewSession(c)
  PROVE  IInv'
<1>1. /\ pinned' = [pinned EXCEPT ![c] = key] /\ cache' = [cache EXCEPT ![c] = Empty]
      /\ ask' = ask /\ UNCHANGED serviceVars
  BY DEF NewSession
<1>2. /\ ServiceInv' /\ Grows /\ UNCHANGED <<stage, about>>
      /\ \A w \in Workers, t \in Nat : Since(w, t) => Since(w, t)'
  BY <1>1, ServiceStutters DEF IInv
<1>3. key \in Keys
  BY ServiceTypes DEF IInv, RequestsTyped
<1>4. Empty \in [Agents -> Bodies \cup [kind : {"detail"}] \cup {NoBody}]
      /\ \A a \in Agents : Empty[a] = NoBody
  BY DEF Empty
<1>5. CallersTyped'
  BY <1>1, <1>3, <1>4 DEF IInv, CallersTyped
<1>6. \A d \in Callers : Waiting(d)'
  BY <1>1, <1>2, CallersWait
<1>7. CacheOK'
  <2> SUFFICES ASSUME NEW d \in Callers, NEW a \in Agents, cache'[d][a] \in Bodies
               PROVE  KeptAnswer(cache[d][a], a)'
    BY DEF CacheOK
  <2>1. d # c
    BY <1>1, <1>4, AnswerKinds DEF IInv, CallersTyped
  <2>2. cache'[d][a] = cache[d][a]
    BY <1>1, <2>1 DEF IInv, CallersTyped
  <2> QED
    BY <1>2, <2>2, CacheStays
<1> QED
  BY <1>2, <1>5, <1>6, <1>7 DEF IInv

LEMMA AskKeeps ==
  ASSUME IInv, NEW c \in Callers, NEW a \in Agents, NEW w \in Workers, Ask(c, a, w)
  PROVE  IInv'
<1>1. PICK t, call : t = now /\ call = [worker |-> w, agent |-> a, at |-> t]
  OBVIOUS
<1>2. /\ ask[c] = NoCall /\ ask' = [ask EXCEPT ![c] = call]
      /\ pinned' = pinned /\ cache' = cache /\ Serve(w, a)
  BY <1>1 DEF Ask
<1>3. /\ ServiceSteps(w) /\ stage[w] = "free" /\ stage'[w] = "scoring" /\ about'[w] = a
      /\ now' = now /\ now \in Nat
  BY <1>2, ServeSteps, ServiceTypes DEF IInv
<1>4. ServiceInv' /\ Grows /\ OthersUntouched(w)
  BY <1>3 DEF ServiceSteps
<1>5. call \in Calls /\ call # NoCall /\ call.worker = w /\ call.agent = a /\ call.at = t
  BY <1>1, <1>3, NoCallAssumption DEF Calls
<1>6. /\ CallersTyped' /\ ask'[c] = call
      /\ \A d \in Callers \ {c} : ask'[d] = ask[d]
  BY <1>2, <1>5 DEF IInv, CallersTyped
<1>7. CacheOK'
  BY <1>2, <1>4, CachesStay
<1>8. \A d \in Callers : ask[d] # NoCall => ask[d].worker # w
  BY <1>3, Asked
<1>9. Waiting(c)'
  <2>1. Since(w, t)'
    BY <1>1, <1>3 DEF Since
  <2> QED
    BY <1>3, <1>5, <1>6, <1>8, <2>1 DEF Waiting
<1>10. ASSUME NEW d \in Callers \ {c}, ask'[d] # NoCall  PROVE Waiting(d)'
  <2>1. ask'[d] = ask[d] /\ ask[d] # NoCall
    BY <1>6, <1>10
  <2>2. PICK u \in Workers : u = ask[d].worker
    BY <2>1, Asked
  <2>3. u # w /\ stage'[u] = stage[u] /\ about'[u] = about[u] /\ stage[u] # "free"
    BY <1>4, <1>8, <2>1, <2>2, Asked DEF OthersUntouched
  <2>4. \A s \in Nat : Since(u, s) => Since(u, s)'
    BY <1>4, <2>3, OthersStay DEF IInv
  <2>5. \A e \in Callers \ {d} : ask'[e] # NoCall => ask'[e].worker # u
    BY <1>5, <1>6, <2>1, <2>2, <2>3, Asked
  <2> QED
    BY <2>1, <2>2, <2>3, <2>4, <2>5, WaitingStays
<1>11. \A d \in Callers : Waiting(d)'
  BY <1>9, <1>10 DEF Waiting
<1> QED
  BY <1>4, <1>6, <1>7, <1>11 DEF IInv

LEMMA ReceiveKeeps ==
  ASSUME IInv, NEW c \in Callers, Receive(c)
  PROVE  IInv'
<1>1. ask[c] # NoCall /\ InTime(c) /\ ask' = [ask EXCEPT ![c] = NoCall] /\ pinned' = pinned
  BY DEF Receive
<1>2. PICK w, a, t, b : /\ w = ask[c].worker /\ a = ask[c].agent /\ t = ask[c].at
                        /\ b = body[w]
  OBVIOUS
<1>3. /\ w \in Workers /\ a \in Agents /\ t \in Nat
      /\ about[w] = a /\ now <= t + ASK_TIMEOUT /\ Since(w, t)
  BY <1>1, <1>2, Asked DEF IInv, Waiting, InTime
<1>4. /\ Release(w)
      /\ cache' = IF b.kind = "text" THEN cache ELSE [cache EXCEPT ![c][a] = b]
  BY <1>2 DEF Receive
<1>5. ServiceSteps(w) /\ now' = now /\ stage[w] = "done"
  BY <1>3, <1>4, ReleaseSteps DEF IInv, Release, Move
<1>6. ServiceInv' /\ Grows /\ OthersUntouched(w)
  BY <1>5 DEF ServiceSteps
<1>7. b \in Bodies \cup Errors /\ (b \in Bodies => AsAnswered(b, a))
  BY <1>2, <1>3, <1>5, ServiceTypes DEF IInv, RequestsTyped, InHand
<1>8. /\ \A d \in Callers : ask'[d] = IF d = c THEN NoCall ELSE ask[d]
      /\ \A d \in Callers, e \in Agents :
            cache'[d][e] = IF d = c /\ e = a /\ b.kind # "text" THEN b ELSE cache[d][e]
  BY <1>1, <1>4 DEF IInv, CallersTyped
<1>9. CallersTyped'
  <2>1. b.kind # "text" => b \in Bodies \cup [kind : {"detail"}] \cup {NoBody}
    BY <1>7, AnswerKinds
  <2>2. cache' \in [Callers -> [Agents -> Bodies \cup [kind : {"detail"}] \cup {NoBody}]]
    BY <1>4, <2>1 DEF IInv, CallersTyped
  <2> QED
    BY <1>1, <2>2 DEF IInv, CallersTyped
<1>10. b \in Bodies => KeptAnswer(b, a)'
  <2> SUFFICES ASSUME b \in Bodies  PROVE KeptAnswer(b, a)'
    OBVIOUS
  <2>1. AsAnswered(b, a)'
    BY <1>6, <1>7, AnswersStay
  <2>2. ASSUME b.kind = "verdict"
        PROVE  b.signature.at <= t + ASK_TIMEOUT /\ RecordedSince(b, t)'
    <3>1. b.signature \in Envelopes /\ b.signature.at <= now
      BY <1>7, <2>2, AnswerKinds DEF AsAnswered
    <3>2. b.signature.at \in Nat /\ now \in Nat /\ ASK_TIMEOUT \in Nat
      BY <3>1, ServiceTypes, CallersAssumption DEF Envelopes, IInv
    <3>3. RecordedSince(b, t)
      BY <1>2, <1>3, <1>5, <2>2 DEF Since
    <3> QED
      BY <1>3, <1>6, <3>1, <3>2, <3>3, EvidenceStays
  <2> QED
    BY <1>3, <2>1, <2>2 DEF KeptAnswer
<1>11. CacheOK'
  <2> SUFFICES ASSUME NEW d \in Callers, NEW e \in Agents, cache'[d][e] \in Bodies
               PROVE  KeptAnswer(cache[d][e], e)'
    BY DEF CacheOK
  <2>1. CASE d = c /\ e = a /\ b.kind # "text"
    BY <1>8, <1>10, <2>1
  <2>2. CASE ~(d = c /\ e = a /\ b.kind # "text")
    BY <1>6, <1>8, <2>2, CacheStays
  <2> QED
    BY <2>1, <2>2
<1>12. ASSUME NEW d \in Callers, ask'[d] # NoCall  PROVE Waiting(d)'
  <2>1. d # c /\ ask'[d] = ask[d] /\ ask[d] # NoCall
    BY <1>8, <1>12
  <2>2. PICK u \in Workers : u = ask[d].worker
    BY <2>1, Asked
  <2>3. u # w /\ stage'[u] = stage[u] /\ about'[u] = about[u] /\ stage[u] # "free"
    BY <1>1, <1>2, <1>6, <2>1, <2>2, Asked DEF OthersUntouched
  <2>4. \A s \in Nat : Since(u, s) => Since(u, s)'
    BY <1>3, <1>6, <2>3, OthersStay DEF IInv
  <2>5. \A e \in Callers \ {d} : ask'[e] # NoCall => ask'[e].worker # u
    BY <1>8, <2>1, <2>2, Asked
  <2> QED
    BY <2>1, <2>2, <2>3, <2>4, <2>5, WaitingStays
<1>13. \A d \in Callers : Waiting(d)'
  BY <1>12 DEF Waiting
<1> QED
  BY <1>6, <1>9, <1>11, <1>13 DEF IInv

LEMMA GiveUpKeeps ==
  ASSUME IInv, NEW c \in Callers, GiveUp(c)
  PROVE  IInv'
<1>1. /\ ask' = [ask EXCEPT ![c] = NoCall] /\ pinned' = pinned /\ cache' = cache
      /\ UNCHANGED serviceVars
  BY DEF GiveUp
<1>2. /\ ServiceInv' /\ Grows /\ UNCHANGED <<stage, about>>
      /\ \A w \in Workers, t \in Nat : Since(w, t) => Since(w, t)'
  BY <1>1, ServiceStutters DEF IInv
<1>3. CallersTyped' /\ \A d \in Callers : ask'[d] \in {ask[d], NoCall}
  BY <1>1 DEF IInv, CallersTyped
<1> QED
  BY <1>1, <1>2, <1>3, CallersWait, CachesStay DEF IInv

LEMMA RedeployKeeps ==
  ASSUME IInv, Redeploy
  PROVE  IInv'
<1>1. /\ Restart /\ ask' = [c \in Callers |-> NoCall] /\ pinned' = pinned /\ cache' = cache
  BY DEF Redeploy
<1>2. ServiceInv' /\ Grows
  BY <1>1, RestartSteps DEF IInv
<1>3. CallersTyped' /\ \A c \in Callers : Waiting(c)'
  BY <1>1 DEF IInv, CallersTyped, Waiting
<1> QED
  BY <1>1, <1>2, <1>3, CachesStay DEF IInv

LEMMA TickKeeps ==
  ASSUME IInv, Tick, UNCHANGED callerVars
  PROVE  IInv'
<1>1. pinned' = pinned /\ cache' = cache /\ ask' = ask
  BY DEF callerVars
<1>2. /\ ServiceInv' /\ Grows /\ UNCHANGED <<stage, about>>
      /\ \A w \in Workers, t \in Nat : Since(w, t) => Since(w, t)'
  BY TickSteps DEF IInv
<1>3. CallersTyped'
  BY <1>1 DEF IInv, CallersTyped
<1> QED
  BY <1>1, <1>2, <1>3, CallersWait, CachesStay DEF IInv

-----------------------------------------------------------------------------
(* The theorems.                                                           *)

LEMMA InitEstablishes == Init => IInv
<1> SUFFICES ASSUME Init  PROVE IInv
  OBVIOUS
<1>1. /\ Store!Init /\ payloads = << >> /\ key = 1 /\ rows = << >>
      /\ stage = [w \in Workers |-> "free"]
      /\ about = [w \in Workers |-> NoBody]
      /\ body = [w \in Workers |-> NoBody]
      /\ pc = [w \in Workers |-> "idle"]
  BY DEF Init, ServiceInit, Store!Init
<1>2. Facts!IInv /\ Store!TypeOK
  <2>1. Facts!Init
    BY <1>1 DEF Store!Init, Facts!Init
  <2> QED
    BY <2>1, FactsApply, Facts!InitIInv, SameStore
<1>3. key \in Keys
  BY <1>1, ServiceAssumption DEF Keys
<1>4. ServiceTypeOK
  BY <1>1, <1>2, <1>3 DEF ServiceTypeOK
<1>5. PayloadsMatch /\ \A w \in Workers : InHand(w)
  BY <1>1 DEF PayloadsMatch, InHand
<1>6. CallersTyped /\ CacheOK /\ \A c \in Callers : Waiting(c)
  <2>1. Empty \in [Agents -> Bodies \cup [kind : {"detail"}] \cup {NoBody}]
        /\ \A a \in Agents : Empty[a] = NoBody
    BY DEF Empty
  <2> QED
    BY <2>1, <1>3, AnswerKinds DEF Init, CallersTyped, CacheOK, Waiting
<1> QED
  BY <1>2, <1>4, <1>5, <1>6 DEF IInv, ServiceInv

LEMMA StepKeeps == IInv /\ [Next]_vars => IInv'
<1> SUFFICES ASSUME IInv, [Next]_vars  PROVE IInv'
  OBVIOUS
<1>1. ASSUME NEW c \in Callers, NewSession(c)  PROVE IInv'
  BY <1>1, NewSessionKeeps
<1>2. ASSUME NEW c \in Callers, Receive(c)  PROVE IInv'
  BY <1>2, ReceiveKeeps
<1>3. ASSUME NEW c \in Callers, GiveUp(c)  PROVE IInv'
  BY <1>3, GiveUpKeeps
<1>4. ASSUME NEW c \in Callers, NEW a \in Agents, NEW w \in Workers, Ask(c, a, w)  PROVE IInv'
  BY <1>4, AskKeeps
<1>5. ASSUME NEW w \in Workers, Works(w), UNCHANGED callerVars  PROVE IInv'
  BY <1>5, WorksSteps, CallersWatch DEF IInv
<1>6. ASSUME NEW w \in Workers, ServeOther(w)  PROVE IInv'
  <2>1. PICK a \in Agents : Serve(w, a) /\ UNCHANGED callerVars
    BY <1>6 DEF ServeOther
  <2>2. ServiceSteps(w) /\ stage[w] = "free"
    BY <2>1, ServeSteps DEF IInv
  <2>3. ~Awaited(w)
    BY <2>2, Asked DEF Awaited
  <2> QED
    BY <2>1, <2>2, <2>3, CallersWatch
<1>7. ASSUME NEW w \in Workers, ReleaseOther(w)  PROVE IInv'
  BY <1>7, ReleaseSteps, CallersWatch DEF ReleaseOther, IInv
<1>8. CASE Redeploy
  BY <1>8, RedeployKeeps
<1>9. CASE Tick /\ UNCHANGED callerVars
  BY <1>9, TickKeeps
<1>10. CASE UNCHANGED vars
  <2>1. UNCHANGED <<serviceVars, pinned, cache, ask>>
    BY <1>10 DEF vars, callerVars
  <2>2. /\ ServiceInv' /\ Grows /\ UNCHANGED <<stage, about>>
        /\ \A w \in Workers, t \in Nat : Since(w, t) => Since(w, t)'
    BY <2>1, ServiceStutters DEF IInv
  <2>3. CallersTyped'
    BY <2>1 DEF IInv, CallersTyped
  <2> QED
    BY <2>1, <2>2, <2>3, CallersWait, CachesStay DEF IInv
<1> QED
  BY <1>1, <1>2, <1>3, <1>4, <1>5, <1>6, <1>7, <1>8, <1>9, <1>10 DEF Next

LEMMA InvariantHolds == Spec => []IInv
  BY InitEstablishes, StepKeeps, PTL DEF Spec

(* The service's requests, the store under it and the callers' sessions    *)
(* keep their types, whoever waits, gives up or is cut off by a restart.   *)
THEOREM DecisionTyped == Spec => []TypeOK
<1>1. IInv => TypeOK
  BY DEF IInv, ServiceInv, CallersTyped, TypeOK
<1> QED
  BY <1>1, InvariantHolds, PTL

(* verify.py:50-68: whatever assess() adds after scoring, body and digest  *)
(* never part, nor the digest and what the signature is over.              *)
THEOREM KeptAnswersRecompute == Spec => []AnswersRecompute
<1>1. IInv => AnswersRecompute
  <2> SUFFICES ASSUME IInv, NEW b \in Kept
               PROVE  /\ b.digest = DigestForBody(b)
                      /\ b.kind = "verdict" => b.signature # NoBody
                                               /\ b.signature.over = DigestForBody(b)
    BY DEF AnswersRecompute
  <2>1. PICK c \in Callers, a \in Agents : b = cache[c][a]
    BY DEF Kept
  <2>2. AsAnswered(b, a)
    BY <2>1 DEF Kept, IInv, CacheOK, KeptAnswer
  <2> QED
    BY <2>2 DEF AsAnswered, DigestForBody
<1> QED
  BY <1>1, InvariantHolds, PTL

(* verify.py:54-63: the verdict, the previous one and the crossing that a  *)
(* signed answer names are rows of the database, in that order.            *)
THEOREM KeptAnswersTellHistory == Spec => []AnswersTellHistory
<1>1. IInv => AnswersTellHistory
  <2> SUFFICES ASSUME IInv, NEW b \in Kept, b.kind = "verdict"  PROVE TellsHistory(b)
    BY DEF AnswersTellHistory, TellsHistory
  <2>1. PICK c \in Callers, a \in Agents : b = cache[c][a]
    BY DEF Kept
  <2> QED
    BY <2>1 DEF Kept, IInv, CacheOK, KeptAnswer, AsAnswered
<1> QED
  BY <1>1, InvariantHolds, PTL

(* demo_caller.py:170-192, signing.py:95-111: the reference caller pays on *)
(* a SAFE verdict recorded for that agent, with a ceiling that covers the  *)
(* amount, and no longer ago than a signature lives and a call may take.   *)
THEOREM NeverPaidOnOldRecord == Spec => []PaidOnRecentRecord
<1>1. IInv => PaidOnRecentRecord
  <2> SUFFICES ASSUME IInv, NEW c \in Callers, NEW a \in Agents, NEW amount \in Amounts,
                      cache[c][a] \in Bodies,
                      GateTransaction(c, cache[c][a], amount) = "PROCEED"
               PROVE  \E i \in Store!RowsOf(rows, a) : /\ rows[i].verdict = "SAFE"
                                                       /\ amount <= payloads[i].core.usd
                                                       /\ now <= rows[i].at + TTL + ASK_TIMEOUT
    BY DEF PaidOnRecentRecord
  <2>1. PICK b : b = cache[c][a]
    OBVIOUS
  <2>2. /\ b \in Bodies /\ KeptAnswer(b, a) /\ b.core.agent = a
        /\ b.core \in Cores /\ b.kind \in {"verdict", "stale"}
        /\ b.signature \in Envelopes \cup {NoBody}
    BY <2>1, AnswerKinds DEF IInv, CacheOK, KeptAnswer, AsAnswered
  <2>3. /\ b.signature # NoBody
        /\ VerifyEnvelope(DigestForBody(b), b.signature, pinned[c])
        /\ b.core.verdict # "BLOCK" /\ b.core.verdict # "CAUTION"
        /\ ~(amount > b.core.usd)
    BY <2>1 DEF GateTransaction
  <2>4. b.kind = "verdict"
    BY <2>2, <2>3 DEF KeptAnswer, AsAnswered
  <2>5. PICK t \in Nat : b.signature.at <= t + ASK_TIMEOUT /\ RecordedSince(b, t)
    BY <2>2, <2>4 DEF KeptAnswer
  <2>6. PICK i \in Store!RowsOf(rows, a) : /\ rows[i].verdict = b.core.verdict
                                           /\ payloads[i].core.usd = b.core.usd
                                           /\ t <= rows[i].at
    BY <2>2, <2>5 DEF RecordedSince
  <2>7. b.core.verdict = "SAFE" /\ b.core.usd \in Nat /\ amount \in Nat
    BY <2>2, <2>3, CallersAssumption DEF Cores, Verdicts
  <2>8. now <= b.signature.at + TTL /\ b.signature.at \in Nat
    BY <2>2, <2>3 DEF VerifyEnvelope, Envelopes
  <2>9. /\ now \in Nat /\ rows[i].at \in Nat /\ TTL \in Nat /\ ASK_TIMEOUT \in Nat
    <3>1. rows[i] \in Store!Row
      BY ServiceTypes DEF IInv, Store!RowsOf
    <3> QED
      BY <3>1, ServiceTypes, ServiceAssumption, CallersAssumption DEF IInv, Store!Row
  <2>10. now <= rows[i].at + TTL + ASK_TIMEOUT
    BY <2>5, <2>6, <2>8, <2>9
  <2>11. amount <= payloads[i].core.usd
    BY <2>3, <2>6, <2>7
  <2> QED
    BY <2>6, <2>7, <2>10, <2>11
<1> QED
  BY <1>1, InvariantHolds, PTL

=============================================================================
