---------------------------- MODULE UpstreamProofs ----------------------------
(***************************************************************************)
(* Proofs about the upstream state and the two that live on it, for every  *)
(* set of threads, agents and requests and for any cache lifetimes.        *)
(*                                                                         *)
(* UpstreamReaders, whoever reads:                                         *)
(*   ReadersTyped       the shared upstream state keeps its types          *)
(*   HealthyIsRecent    a "yes" of probe_upstream() rests on a recent read *)
(* AuditSale, where a read decides about a payment:                        *)
(*   SaleTyped          the shared state and the handlers keep their types *)
(*   PaidLossExplained  who pays and gets no verdict had one of the three  *)
(*                      reasons PaidLossIsExplained names                  *)
(***************************************************************************)
EXTENDS UpstreamReaders, AuditSale, TLAPS

-----------------------------------------------------------------------------
(* What the steps of one thread do to the shared state.                    *)

(* What is in the cache is in _last_good as well.                          *)
CachedIsGood == \A a \in Agents : cache_age[a] < CACHE_TTL => a \in last_good

UpstreamInv == UpstreamTypeOK /\ CachedIsGood

(* No step of a thread touches the marketplace, what is remembered of it   *)
(* is not forgotten, and the other threads notice nothing.                 *)
OnlyThread(t) ==
  /\ UpstreamInv'
  /\ listed' = listed
  /\ last_good \subseteq last_good'
  /\ \A u \in Threads \ {t} : call'[u] = call[u] /\ answer'[u] = answer[u]

(* A thread that runs or has run a subprocess.                             *)
LEMMA RunningTypes ==
  ASSUME UpstreamTypeOK, NEW t \in Threads, call[t] # NoCall
  PROVE  /\ call[t] \in Subprocess
         /\ call[t].agent \in Agents /\ call[t].op \in Ops /\ call[t].outcome \in Outcomes
         /\ call[t].age \in 0..CALL_TIMEOUT
<1>1. call[t] \in Subprocess
  BY DEF UpstreamTypeOK
<1> QED
  BY <1>1 DEF Subprocess

LEMMA IdleThread ==
  ASSUME UpstreamInv, NEW t \in Threads, UNCHANGED upstreamVars
  PROVE  OnlyThread(t)
  BY DEF UpstreamInv, UpstreamTypeOK, CachedIsGood, upstreamVars, OnlyThread

LEMMA TellEffect ==
  ASSUME UpstreamTypeOK, NEW t \in Threads, NEW kind \in Kinds, Tell(t, kind)
  PROVE  /\ answer' \in [Threads -> Kinds]
         /\ answer'[t] = kind
         /\ \A u \in Threads \ {t} : answer'[u] = answer[u]
  BY DEF UpstreamTypeOK, Tell

LEMMA RunEffect ==
  ASSUME UpstreamTypeOK, NEW t \in Threads, NEW op \in Ops, NEW a \in Agents, Run(t, op, a)
  PROVE  /\ call' \in [Threads -> Subprocess \cup {NoCall}]
         /\ answer' \in [Threads -> Kinds]
         /\ call'[t] # NoCall /\ answer'[t] = "none"
         /\ call'[t].op = op /\ call'[t].agent = a /\ call'[t].outcome = "pending"
         /\ \A u \in Threads \ {t} : call'[u] = call[u] /\ answer'[u] = answer[u]
<1> DEFINE started == [op |-> op, agent |-> a, outcome |-> "pending", age |-> 0]
<1>1. started \in Subprocess
  BY DEF Subprocess, Outcomes, CALL_TIMEOUT
<1>2. started # NoCall
  BY <1>1, SubprocessAssumption
<1>3. started.op = op /\ started.agent = a /\ started.outcome = "pending"
  OBVIOUS
<1>4. call' = [call EXCEPT ![t] = started] /\ answer' = [answer EXCEPT ![t] = "none"]
  BY DEF Run
<1> HIDE DEF started
<1> QED
  BY <1>1, <1>2, <1>3, <1>4 DEF UpstreamTypeOK, Kinds

LEMMA FinishedEffect ==
  ASSUME UpstreamTypeOK, NEW t \in Threads, NEW op \in Ops, Finished(t, op)
  PROVE  /\ call' \in [Threads -> Subprocess \cup {NoCall}]
         /\ call[t] # NoCall /\ call[t].op = op /\ call[t].outcome # "pending"
         /\ call'[t] = NoCall
         /\ \A u \in Threads \ {t} : call'[u] = call[u]
  BY DEF UpstreamTypeOK, Finished

(* The marketplace answers: it says what is listed at that moment.         *)
LEMMA ReplyEffect ==
  ASSUME UpstreamInv, NEW t \in Threads, Reply(t)
  PROVE  /\ OnlyThread(t)
         /\ call[t] # NoCall /\ call'[t] # NoCall
         /\ call'[t].op = call[t].op /\ call'[t].agent = call[t].agent
         /\ call'[t].outcome = "record" => call[t].agent \in listed
         /\ call'[t].outcome = "empty" => call[t].agent \notin listed
         /\ answer' = answer
<1>1. call[t] \in Subprocess
  BY RunningTypes DEF UpstreamInv, Reply
<1> DEFINE said == IF ~up THEN "fail"
                   ELSE IF call[t].agent \in listed THEN "record" ELSE "empty"
           ended == [call[t] EXCEPT !.outcome = said]
<1>2. /\ ended \in Subprocess
      /\ ended.op = call[t].op /\ ended.agent = call[t].agent /\ ended.outcome = said
  BY <1>1 DEF Subprocess, Outcomes
<1>3. ended # NoCall
  BY <1>2, SubprocessAssumption
<1>4. call' = [call EXCEPT ![t] = ended] /\ call[t] # NoCall
  BY DEF Reply
<1>5. said = "record" => call[t].agent \in listed
  OBVIOUS
<1>6. said = "empty" => call[t].agent \notin listed
  OBVIOUS
<1> HIDE DEF ended, said
<1>7. /\ call' \in [Threads -> Subprocess \cup {NoCall}] /\ call'[t] = ended
      /\ \A u \in Threads \ {t} : call'[u] = call[u]
  BY <1>2, <1>4 DEF UpstreamInv, UpstreamTypeOK
<1>8. UNCHANGED <<up, listed, cache_age, last_good, session_ok, probe_age, answer>>
  BY DEF Reply
<1>9. OnlyThread(t)
  BY <1>7, <1>8 DEF OnlyThread, UpstreamInv, UpstreamTypeOK, CachedIsGood
<1> QED
  BY <1>2, <1>3, <1>4, <1>5, <1>6, <1>7, <1>8, <1>9

LEMMA ProbeStarted ==
  ASSUME UpstreamInv, NEW t \in Threads, ProbeCached(t) \/ ProbeStart(t)
  PROVE  /\ OnlyThread(t)
         /\ call'[t] # NoCall => call'[t].op = "probe"
<1>1. CASE ProbeCached(t)
  <2>1. Tell(t, "alive") \/ Tell(t, "dead")
    BY <1>1 DEF ProbeCached
  <2>2. /\ answer' \in [Threads -> Kinds]
        /\ \A u \in Threads \ {t} : answer'[u] = answer[u]
    BY <2>1, TellEffect DEF UpstreamInv, Kinds
  <2> QED
    BY <1>1, <2>2 DEF ProbeCached, OnlyThread, UpstreamInv, UpstreamTypeOK, CachedIsGood
<1>2. CASE ProbeStart(t)
  <2>1. PROBE_AGENT \in Agents /\ "probe" \in Ops
    BY SubprocessAssumption DEF PROBE_AGENT, Ops
  <2>2. Run(t, "probe", PROBE_AGENT)
    BY <1>2 DEF ProbeStart
  <2>3. /\ call' \in [Threads -> Subprocess \cup {NoCall}]
        /\ answer' \in [Threads -> Kinds]
        /\ call'[t].op = "probe"
        /\ \A u \in Threads \ {t} : call'[u] = call[u] /\ answer'[u] = answer[u]
    BY <2>1, <2>2, RunEffect DEF UpstreamInv
  <2>4. probe_age' \in 0..PROBE_TTL
    BY <1>2, TTLAssumption DEF ProbeStart
  <2> QED
    BY <1>2, <2>3, <2>4 DEF ProbeStart, OnlyThread, UpstreamInv, UpstreamTypeOK, CachedIsGood
<1> QED
  BY <1>1, <1>2

LEMMA ProbeReturned ==
  ASSUME UpstreamInv, NEW t \in Threads, ProbeReturn(t)
  PROVE  /\ OnlyThread(t)
         /\ call[t] # NoCall /\ call[t].op = "probe" /\ call'[t] = NoCall
         /\ answer'[t] \in {"alive", "dead"}
<1>1. Tell(t, "alive") \/ Tell(t, "dead")
  BY DEF ProbeReturn
<1>2. /\ answer' \in [Threads -> Kinds]
      /\ answer'[t] \in {"alive", "dead"}
      /\ \A u \in Threads \ {t} : answer'[u] = answer[u]
  BY <1>1, TellEffect DEF UpstreamInv, Kinds
<1>3. /\ call' \in [Threads -> Subprocess \cup {NoCall}]
      /\ call[t] # NoCall /\ call[t].op = "probe" /\ call'[t] = NoCall
      /\ \A u \in Threads \ {t} : call'[u] = call[u]
  BY FinishedEffect DEF UpstreamInv, ProbeReturn, Ops
<1>4. session_ok' \in BOOLEAN
  BY DEF ProbeReturn
<1> QED
  BY <1>2, <1>3, <1>4 DEF ProbeReturn, OnlyThread, UpstreamInv, UpstreamTypeOK, CachedIsGood

LEMMA FetchStarted ==
  ASSUME UpstreamInv, NEW t \in Threads, NEW a \in Agents, FetchCached(t, a) \/ FetchStart(t, a)
  PROVE  /\ OnlyThread(t)
         /\ answer'[t] \in {"none", "cached"}
         /\ answer'[t] = "cached" => a \in last_good'
         /\ call'[t] # NoCall => /\ call'[t].op = "fetch" /\ call'[t].agent = a
                                 /\ call'[t].outcome = "pending"
<1>1. CASE FetchCached(t, a)
  <2>1. /\ answer' \in [Threads -> Kinds] /\ answer'[t] = "cached"
        /\ \A u \in Threads \ {t} : answer'[u] = answer[u]
    BY <1>1, TellEffect DEF UpstreamInv, Kinds, FetchCached
  <2>2. a \in last_good
    BY <1>1 DEF FetchCached, UpstreamInv, CachedIsGood
  <2> QED
    BY <1>1, <2>1, <2>2
       DEF FetchCached, OnlyThread, UpstreamInv, UpstreamTypeOK, CachedIsGood
<1>2. CASE FetchStart(t, a)
  <2>1. /\ call' \in [Threads -> Subprocess \cup {NoCall}]
        /\ answer' \in [Threads -> Kinds] /\ answer'[t] = "none"
        /\ call'[t].op = "fetch" /\ call'[t].agent = a /\ call'[t].outcome = "pending"
        /\ \A u \in Threads \ {t} : call'[u] = call[u] /\ answer'[u] = answer[u]
    BY <1>2, RunEffect DEF UpstreamInv, FetchStart, Ops
  <2> QED
    BY <1>2, <2>1 DEF FetchStart, OnlyThread, UpstreamInv, UpstreamTypeOK, CachedIsGood
<1> QED
  BY <1>1, <1>2

(* A fetch that ends told a record only of an agent it then remembers, and *)
(* an error only of one it does not.                                       *)
LEMMA FetchReturned ==
  ASSUME UpstreamInv, NEW t \in Threads, FetchReturn(t)
  PROVE  /\ OnlyThread(t)
         /\ call[t] # NoCall /\ call[t].op = "fetch" /\ call'[t] = NoCall
         /\ answer'[t] \in {"record", "fallback", "notfound", "error"}
         /\ answer'[t] \in {"record", "fallback"} => call[t].agent \in last_good'
         /\ answer'[t] = "record" => call[t].outcome = "record"
         /\ answer'[t] = "notfound" => call[t].outcome = "empty"
         /\ answer'[t] = "error" => call[t].agent \notin last_good
<1>1. Finished(t, "fetch")
  BY DEF FetchReturn, FetchRecord, FetchEmpty, FetchFail
<1>2. /\ call' \in [Threads -> Subprocess \cup {NoCall}]
      /\ call[t] # NoCall /\ call[t].op = "fetch" /\ call'[t] = NoCall
      /\ \A u \in Threads \ {t} : call'[u] = call[u]
  BY <1>1, FinishedEffect DEF UpstreamInv, Ops
<1>3. call[t].agent \in Agents
  BY <1>2, RunningTypes DEF UpstreamInv
<1>4. CASE FetchRecord(t)
  <2>1. /\ answer' \in [Threads -> Kinds] /\ answer'[t] = "record"
        /\ \A u \in Threads \ {t} : answer'[u] = answer[u]
    BY <1>4, TellEffect DEF UpstreamInv, Kinds, FetchRecord
  <2>2. /\ cache_age' \in [Agents -> 0..CACHE_TTL]
        /\ \A a \in Agents : a # call[t].agent => cache_age'[a] = cache_age[a]
    BY <1>3, <1>4, TTLAssumption DEF FetchRecord, UpstreamInv, UpstreamTypeOK
  <2>3. last_good' = last_good \cup {call[t].agent} /\ session_ok' \in BOOLEAN
        /\ UNCHANGED <<up, listed, probe_age>>
    BY <1>4 DEF FetchRecord
  <2>4. UpstreamTypeOK'
    BY <1>2, <1>3, <2>1, <2>2, <2>3 DEF UpstreamInv, UpstreamTypeOK
  <2>5. CachedIsGood'
    BY <2>2, <2>3 DEF UpstreamInv, CachedIsGood
  <2> QED
    BY <1>2, <1>4, <2>1, <2>3, <2>4, <2>5 DEF OnlyThread, UpstreamInv, FetchRecord
<1>5. CASE FetchEmpty(t)
  <2>1. /\ answer' \in [Threads -> Kinds] /\ answer'[t] = "notfound"
        /\ \A u \in Threads \ {t} : answer'[u] = answer[u]
    BY <1>5, TellEffect DEF UpstreamInv, Kinds, FetchEmpty
  <2> QED
    BY <1>2, <1>5, <2>1 DEF FetchEmpty, OnlyThread, UpstreamInv, UpstreamTypeOK, CachedIsGood
<1>6. CASE FetchFail(t)
  <2>1. \/ Tell(t, "fallback") /\ call[t].agent \in last_good
        \/ Tell(t, "error") /\ call[t].agent \notin last_good
    BY <1>6 DEF FetchFail
  <2>2. /\ answer' \in [Threads -> Kinds]
        /\ \/ answer'[t] = "fallback" /\ call[t].agent \in last_good
           \/ answer'[t] = "error" /\ call[t].agent \notin last_good
        /\ \A u \in Threads \ {t} : answer'[u] = answer[u]
    BY <2>1, TellEffect DEF UpstreamInv, Kinds
  <2>3. session_ok' \in BOOLEAN /\ UNCHANGED <<up, listed, cache_age, last_good, probe_age>>
    BY <1>6 DEF FetchFail
  <2>4. OnlyThread(t)
    BY <1>2, <2>2, <2>3 DEF OnlyThread, UpstreamInv, UpstreamTypeOK, CachedIsGood
  <2> QED
    BY <1>2, <2>2, <2>3, <2>4
<1> QED
  BY <1>4, <1>5, <1>6 DEF FetchReturn

LEMMA SearchStarted ==
  ASSUME UpstreamInv, NEW t \in Threads, NEW a \in Agents, SearchStart(t, a)
  PROVE  /\ OnlyThread(t)
         /\ answer'[t] = "none"
         /\ call'[t].op = "search" /\ call'[t].agent = a /\ call'[t].outcome = "pending"
<1>1. /\ call' \in [Threads -> Subprocess \cup {NoCall}]
      /\ answer' \in [Threads -> Kinds] /\ answer'[t] = "none"
      /\ call'[t].op = "search" /\ call'[t].agent = a /\ call'[t].outcome = "pending"
      /\ \A u \in Threads \ {t} : call'[u] = call[u] /\ answer'[u] = answer[u]
  BY RunEffect DEF UpstreamInv, SearchStart, Ops
<1> QED
  BY <1>1 DEF SearchStart, OnlyThread, UpstreamInv, UpstreamTypeOK, CachedIsGood

LEMMA SearchReturned ==
  ASSUME UpstreamInv, NEW t \in Threads, SearchReturn(t)
  PROVE  /\ OnlyThread(t)
         /\ call[t] # NoCall /\ call[t].op = "search" /\ call'[t] = NoCall
         /\ answer'[t] = "notfound" => call[t].outcome = "empty"
<1>1. /\ call' \in [Threads -> Subprocess \cup {NoCall}]
      /\ call[t] # NoCall /\ call[t].op = "search" /\ call[t].outcome # "pending"
      /\ call'[t] = NoCall
      /\ \A u \in Threads \ {t} : call'[u] = call[u]
  BY FinishedEffect DEF UpstreamInv, SearchReturn, Ops
<1>2. call[t].outcome \in {"record", "empty", "fail"}
  BY <1>1, RunningTypes DEF UpstreamInv, Outcomes
<1>3. \/ call[t].outcome = "record" /\ Tell(t, "id")
      \/ call[t].outcome = "empty" /\ Tell(t, "notfound")
      \/ call[t].outcome = "fail" /\ Tell(t, "error")
  BY <1>2 DEF SearchReturn
<1>4. /\ answer' \in [Threads -> Kinds]
      /\ answer'[t] = "notfound" => call[t].outcome = "empty"
      /\ \A u \in Threads \ {t} : answer'[u] = answer[u]
  BY <1>3, TellEffect DEF UpstreamInv, Kinds
<1> QED
  BY <1>1, <1>4 DEF SearchReturn, OnlyThread, UpstreamInv, UpstreamTypeOK, CachedIsGood

(* Time: ages grow to their bounds, what threads wait for stays the same.  *)
LEMMA TickEffect ==
  ASSUME UpstreamInv, Tick
  PROVE  /\ UpstreamInv'
         /\ listed' = listed /\ last_good' = last_good /\ answer' = answer
         /\ \A t \in Threads : /\ call'[t] = NoCall <=> call[t] = NoCall
                               /\ call[t] # NoCall => /\ call'[t].op = call[t].op
                                                      /\ call'[t].agent = call[t].agent
                                                      /\ call'[t].outcome = call[t].outcome
<1> DEFINE later(t) == [call[t] EXCEPT !.age = @ + 1]
<1>1. /\ cache_age' = [a \in Agents |-> Older(cache_age[a], CACHE_TTL)]
      /\ probe_age' = Older(probe_age, PROBE_TTL)
      /\ call' = [t \in Threads |-> IF call[t] = NoCall THEN NoCall ELSE later(t)]
      /\ UNCHANGED <<up, listed, last_good, session_ok, answer>>
  BY DEF Tick
<1>2. ASSUME NEW t \in Threads, call[t] # NoCall
      PROVE  /\ later(t) \in Subprocess /\ later(t) # NoCall
             /\ later(t).op = call[t].op /\ later(t).agent = call[t].agent
             /\ later(t).outcome = call[t].outcome
  <2>1. call[t] \in Subprocess
    BY <1>2, RunningTypes DEF UpstreamInv
  <2>2. call[t].age < CALL_TIMEOUT /\ call[t].age \in 0..CALL_TIMEOUT
    BY <1>2, RunningTypes DEF Tick, UpstreamInv
  <2>3. /\ later(t) \in Subprocess
        /\ later(t).op = call[t].op /\ later(t).agent = call[t].agent
        /\ later(t).outcome = call[t].outcome
    BY <2>1, <2>2 DEF Subprocess, CALL_TIMEOUT
  <2> QED
    BY <2>3, SubprocessAssumption
<1>3. \A a \in Agents : cache_age'[a] \in 0..CACHE_TTL
                        /\ (cache_age'[a] < CACHE_TTL => cache_age[a] < CACHE_TTL)
  BY <1>1, TTLAssumption DEF UpstreamInv, UpstreamTypeOK, Older
<1>4. probe_age' \in 0..PROBE_TTL
  BY <1>1, TTLAssumption DEF UpstreamInv, UpstreamTypeOK, Older
<1> HIDE DEF later
<1>5. call' \in [Threads -> Subprocess \cup {NoCall}]
  BY <1>1, <1>2
<1>6. UpstreamTypeOK'
  BY <1>1, <1>3, <1>4, <1>5 DEF UpstreamInv, UpstreamTypeOK
<1>7. CachedIsGood'
  BY <1>1, <1>3 DEF UpstreamInv, CachedIsGood
<1> QED
  BY <1>1, <1>2, <1>6, <1>7 DEF UpstreamInv

LEMMA RestartEffect ==
  ASSUME UpstreamInv, Restart
  PROVE  UpstreamInv' /\ \A t \in Threads : call'[t] = NoCall
<1>1. UpstreamTypeOK'
  BY TTLAssumption DEF UpstreamInv, UpstreamTypeOK, Restart, Kinds
<1>2. CachedIsGood'
  BY TTLAssumption DEF CachedIsGood, Restart
<1> QED
  BY <1>1, <1>2 DEF UpstreamInv, Restart

-----------------------------------------------------------------------------
(* The readers.  The flag's proof is carried by two things: a read that    *)
(* was answered is processed within CALL_TIMEOUT of it, and the flag is    *)
(* re-proved by the probe whose start set probe_age to 0, unless that      *)
(* probe is still out.                                                     *)

(* The marketplace answered this thread's read, which is not processed yet. *)
Answered(t) == call[t] # NoCall /\ call[t].outcome \in {"record", "empty"}

ProofOfReads == \A t \in Threads : Answered(t) => proof_age <= call[t].age

NoProbeOut == \A t \in Threads : call[t] = NoCall \/ call[t].op # "probe"

ProofOfFlag ==
  session_ok /\ probe_age < PROBE_TTL /\ NoProbeOut => proof_age <= probe_age + 1

ReadersInv == ReadersTypeOK /\ ProofOfReads /\ ProofOfFlag

-----------------------------------------------------------------------------
(* What the steps of a thread do to its subprocess and its answer.         *)

LEMMA Ages ==
  ASSUME ReadersTypeOK
  PROVE  /\ PROBE_TTL \in Nat \ {0} /\ CACHE_TTL \in Nat \ {0}
         /\ CALL_TIMEOUT = 1 /\ HORIZON = PROBE_TTL + 1
         /\ proof_age \in 0..HORIZON /\ probe_age \in 0..PROBE_TTL
  BY TTLAssumption DEF ReadersTypeOK, UpstreamTypeOK, HORIZON, CALL_TIMEOUT

LEMMA Running ==
  ASSUME ReadersTypeOK, NEW t \in Threads, call[t] # NoCall
  PROVE  /\ call[t] \in Subprocess
         /\ call[t].agent \in Agents /\ call[t].op \in Ops /\ call[t].outcome \in Outcomes
         /\ call[t].age \in 0..1
  BY RunningTypes DEF ReadersTypeOK, CALL_TIMEOUT

(* A thread that starts a subprocess has no answer to rest a proof on.     *)
LEMMA Started ==
  ASSUME ReadersInv, NEW t \in Threads, NEW op \in Ops, NEW a \in Agents, Run(t, op, a),
         proof_age' = proof_age
  PROVE  /\ call' \in [Threads -> Subprocess \cup {NoCall}]
         /\ answer' \in [Threads -> Kinds]
         /\ call'[t] # NoCall /\ call'[t].op = op
         /\ \A u \in Threads \ {t} : call'[u] = call[u]
         /\ call[t] = NoCall
         /\ ProofOfReads'
<1> DEFINE fresh == [op |-> op, agent |-> a, outcome |-> "pending", age |-> 0]
<1>1. fresh \in Subprocess /\ fresh.op = op /\ fresh.outcome = "pending"
  BY DEF Subprocess, Outcomes, CALL_TIMEOUT
<1>2. fresh # NoCall
  BY <1>1, SubprocessAssumption
<1>3. call' = [call EXCEPT ![t] = fresh] /\ answer' = [answer EXCEPT ![t] = "none"]
      /\ call[t] = NoCall
  BY DEF Run
<1> HIDE DEF fresh
<1>4. /\ call' \in [Threads -> Subprocess \cup {NoCall}]
      /\ answer' \in [Threads -> Kinds]
      /\ call'[t] = fresh
      /\ \A u \in Threads \ {t} : call'[u] = call[u]
  BY <1>1, <1>3 DEF ReadersInv, ReadersTypeOK, UpstreamTypeOK, Kinds
<1>5. ASSUME NEW u \in Threads, Answered(u)'
      PROVE  proof_age' <= call'[u].age
  <2>1. u # t
    BY <1>1, <1>4, <1>5 DEF Answered
  <2> QED
    BY <1>4, <1>5, <2>1 DEF Answered, ReadersInv, ProofOfReads
<1>6. ProofOfReads'
  BY <1>5 DEF ProofOfReads
<1> QED
  BY <1>1, <1>2, <1>3, <1>4, <1>6

(* A thread that processes what its subprocess brought: unless that was a  *)
(* failure, the marketplace answered at most one timeout ago.              *)
LEMMA Ended ==
  ASSUME ReadersInv, NEW t \in Threads, NEW op \in Ops, Finished(t, op), proof_age' = proof_age
  PROVE  /\ call' \in [Threads -> Subprocess \cup {NoCall}]
         /\ call[t] # NoCall /\ call[t].op = op /\ call[t].agent \in Agents
         /\ call[t].outcome \in {"record", "empty", "fail"}
         /\ call[t].outcome # "fail" => proof_age <= 1
         /\ ProofOfReads'
         /\ op # "probe" /\ NoProbeOut' => NoProbeOut
<1>1. /\ call[t] # NoCall /\ call[t].op = op /\ call[t].outcome # "pending"
      /\ call' = [call EXCEPT ![t] = NoCall]
  BY DEF Finished
<1>2. /\ call' \in [Threads -> Subprocess \cup {NoCall}]
      /\ call'[t] = NoCall
      /\ \A u \in Threads \ {t} : call'[u] = call[u]
  BY <1>1 DEF ReadersInv, ReadersTypeOK, UpstreamTypeOK
<1>3. /\ call[t].agent \in Agents /\ call[t].age \in 0..1
      /\ call[t].outcome \in {"record", "empty", "fail"}
  BY <1>1, Running DEF ReadersInv, Outcomes
<1>4. call[t].outcome # "fail" => proof_age <= 1
  <2>1. ASSUME call[t].outcome # "fail"
        PROVE  proof_age <= call[t].age
    BY <1>1, <1>3, <2>1 DEF ReadersInv, ProofOfReads, Answered
  <2>2. proof_age \in Nat
    BY Ages DEF ReadersInv
  <2> QED
    BY <1>3, <2>1, <2>2
<1>5. ProofOfReads'
  <2>1. ASSUME NEW u \in Threads, Answered(u)'
        PROVE  proof_age' <= call'[u].age
    BY <1>2, <2>1 DEF Answered, ReadersInv, ProofOfReads
  <2> QED
    BY <2>1 DEF ProofOfReads
<1>6. op # "probe" /\ NoProbeOut' => NoProbeOut
  BY <1>1, <1>2 DEF NoProbeOut
<1> QED
  BY <1>1, <1>2, <1>3, <1>4, <1>5, <1>6

-----------------------------------------------------------------------------
(* One lemma per action.                                                   *)

LEMMA StepProbe ==
  ASSUME ReadersInv, NEW t \in Threads, Probe(t)
  PROVE  ReadersInv'
<1>1. proof_age' = proof_age
  BY DEF Probe
<1>2. CASE ProbeCached(t)
  <2>1. Tell(t, "alive") \/ Tell(t, "dead")
    BY <1>2 DEF ProbeCached
  <2>2. answer' \in [Threads -> Kinds]
    BY <2>1, TellEffect DEF ReadersInv, ReadersTypeOK, Kinds
  <2>3. UNCHANGED <<up, listed, cache_age, last_good, session_ok, probe_age, call>>
    BY <1>2 DEF ProbeCached
  <2> QED
    BY <1>1, <2>2, <2>3
       DEF ReadersInv, ReadersTypeOK, UpstreamTypeOK, ProofOfReads, Answered, ProofOfFlag, NoProbeOut
<1>3. CASE ProbeStart(t)
  <2>1. PROBE_AGENT \in Agents /\ "probe" \in Ops
    BY SubprocessAssumption DEF PROBE_AGENT, Ops
  <2>2. /\ Run(t, "probe", PROBE_AGENT) /\ probe_age' = 0
        /\ UNCHANGED <<up, listed, cache_age, last_good, session_ok>>
    BY <1>3 DEF ProbeStart
  <2>3. /\ call' \in [Threads -> Subprocess \cup {NoCall}]
        /\ answer' \in [Threads -> Kinds]
        /\ call'[t] # NoCall /\ call'[t].op = "probe"
        /\ ProofOfReads'
    BY <1>1, <2>1, <2>2, Started
  <2>4. ProofOfFlag'
    BY <2>3 DEF ProofOfFlag, NoProbeOut
  <2>5. ReadersTypeOK'
    BY <1>1, <2>2, <2>3, Ages DEF ReadersInv, ReadersTypeOK, UpstreamTypeOK, HORIZON
  <2> QED
    BY <2>3, <2>4, <2>5 DEF ReadersInv
<1> QED
  BY <1>2, <1>3 DEF Probe

(* The answer puts the age of the proof back to 0.                         *)
LEMMA StepReplied ==
  ASSUME ReadersInv, NEW t \in Threads, Replied(t)
  PROVE  ReadersInv'
<1> DEFINE said == IF ~up THEN "fail"
                   ELSE IF call[t].agent \in listed THEN "record" ELSE "empty"
           ended == [call[t] EXCEPT !.outcome = said]
<1>1. /\ call[t] # NoCall /\ call' = [call EXCEPT ![t] = ended]
      /\ UNCHANGED <<up, listed, cache_age, last_good, session_ok, probe_age, answer>>
      /\ proof_age' = IF up THEN 0 ELSE proof_age
  BY DEF Replied, Reply
<1>2. call[t] \in Subprocess /\ call[t].age \in 0..1
  BY <1>1, Running DEF ReadersInv
<1>3. /\ ended \in Subprocess /\ ended.op = call[t].op
      /\ ended.outcome = said /\ ended.age = call[t].age
  BY <1>2 DEF Subprocess, Outcomes
<1>4. ended # NoCall
  BY <1>3, SubprocessAssumption
<1>5. ~up => said = "fail"
  OBVIOUS
<1> HIDE DEF ended, said
<1>6. /\ call' \in [Threads -> Subprocess \cup {NoCall}] /\ call'[t] = ended
      /\ \A u \in Threads \ {t} : call'[u] = call[u]
  BY <1>1, <1>3 DEF ReadersInv, ReadersTypeOK, UpstreamTypeOK
<1>7. /\ proof_age' \in 0..HORIZON /\ proof_age \in 0..HORIZON
      /\ proof_age' <= proof_age /\ HORIZON \in Nat /\ probe_age \in 0..PROBE_TTL
  BY <1>1, Ages DEF ReadersInv
<1>8. ReadersTypeOK'
  BY <1>1, <1>6, <1>7 DEF ReadersInv, ReadersTypeOK, UpstreamTypeOK, HORIZON
<1>9. ProofOfReads'
  <2>1. ASSUME NEW u \in Threads, Answered(u)', up
        PROVE  proof_age' <= call'[u].age
    <3>1. call'[u].age \in 0..1
      BY <1>8, <2>1 DEF Answered, Subprocess, ReadersTypeOK, UpstreamTypeOK, CALL_TIMEOUT
    <3> QED
      BY <1>1, <2>1, <3>1
  <2>2. ASSUME NEW u \in Threads, Answered(u)', ~up
        PROVE  proof_age' <= call'[u].age
    <3>1. u # t
      BY <1>3, <1>5, <1>6, <2>2 DEF Answered
    <3> QED
      BY <1>1, <1>6, <2>2, <3>1 DEF Answered, ReadersInv, ProofOfReads
  <2> QED
    BY <2>1, <2>2 DEF ProofOfReads
<1>10. ProofOfFlag'
  <2>1. NoProbeOut' => NoProbeOut
    BY <1>3, <1>4, <1>6 DEF NoProbeOut
  <2>2. ASSUME session_ok, probe_age < PROBE_TTL, NoProbeOut
        PROVE  proof_age' <= probe_age + 1
    <3>1. proof_age <= probe_age + 1
      BY <2>2 DEF ReadersInv, ProofOfFlag
    <3>2. PROBE_TTL \in Nat
      BY TTLAssumption
    <3> QED
      BY <1>7, <3>1, <3>2
  <2> QED
    BY <1>1, <2>1, <2>2 DEF ProofOfFlag
<1> QED
  BY <1>8, <1>9, <1>10 DEF ReadersInv

(* Starting a read of an agent that is no probe changes only who waits.    *)
LEMMA StepRun ==
  ASSUME ReadersInv, NEW t \in Threads, NEW op \in Ops \ {"probe"}, NEW a \in Agents, Run(t, op, a),
         UNCHANGED <<up, listed, cache_age, last_good, session_ok, probe_age, proof_age>>
  PROVE  ReadersInv'
<1>1. /\ call' \in [Threads -> Subprocess \cup {NoCall}]
      /\ answer' \in [Threads -> Kinds]
      /\ \A u \in Threads \ {t} : call'[u] = call[u]
      /\ call[t] = NoCall
      /\ ProofOfReads'
  BY Started
<1>2. ReadersTypeOK'
  BY <1>1 DEF ReadersInv, ReadersTypeOK, UpstreamTypeOK, HORIZON
<1>3. NoProbeOut' => NoProbeOut
  BY <1>1 DEF NoProbeOut
<1> QED
  BY <1>1, <1>2, <1>3 DEF ReadersInv, ProofOfFlag

(* So does a result that leaves the flag as it was.                        *)
LEMMA StepQuietEnd ==
  ASSUME ReadersInv, NEW t \in Threads, NEW op \in Ops \ {"probe"}, Finished(t, op),
         NEW kind \in Kinds, Tell(t, kind),
         UNCHANGED <<up, listed, cache_age, last_good, session_ok, probe_age, proof_age>>
  PROVE  ReadersInv'
<1>1. /\ call' \in [Threads -> Subprocess \cup {NoCall}]
      /\ ProofOfReads'
      /\ NoProbeOut' => NoProbeOut
  BY Ended
<1>2. answer' \in [Threads -> Kinds]
  BY TellEffect DEF ReadersInv, ReadersTypeOK
<1>3. ReadersTypeOK'
  BY <1>1, <1>2 DEF ReadersInv, ReadersTypeOK, UpstreamTypeOK, HORIZON
<1> QED
  BY <1>1, <1>3 DEF ReadersInv, ProofOfFlag

LEMMA StepFetch ==
  ASSUME ReadersInv, NEW t \in Threads, Fetch(t)
  PROVE  ReadersInv'
<1>1. PICK a \in Agents : FetchCached(t, a) \/ FetchStart(t, a)
  BY DEF Fetch
<1>2. proof_age' = proof_age
  BY DEF Fetch
<1>3. CASE FetchCached(t, a)
  <2>1. answer' \in [Threads -> Kinds]
    BY <1>3, TellEffect DEF FetchCached, ReadersInv, ReadersTypeOK, Kinds
  <2>2. UNCHANGED <<up, listed, cache_age, last_good, session_ok, probe_age, call>>
    BY <1>3 DEF FetchCached
  <2> QED
    BY <1>2, <2>1, <2>2
       DEF ReadersInv, ReadersTypeOK, UpstreamTypeOK, ProofOfReads, Answered, ProofOfFlag, NoProbeOut
<1>4. CASE FetchStart(t, a)
  <2>1. Run(t, "fetch", a) /\ UNCHANGED <<up, listed, cache_age, last_good, session_ok, probe_age>>
    BY <1>4 DEF FetchStart
  <2> QED
    BY <1>2, <2>1, StepRun DEF Ops
<1> QED
  BY <1>1, <1>3, <1>4

LEMMA StepSearch ==
  ASSUME ReadersInv, NEW t \in Threads, Search(t)
  PROVE  ReadersInv'
<1>1. PICK a \in Agents : SearchStart(t, a)
  BY DEF Search
<1>2. /\ Run(t, "search", a) /\ proof_age' = proof_age
      /\ UNCHANGED <<up, listed, cache_age, last_good, session_ok, probe_age>>
  BY <1>1 DEF SearchStart, Search
<1> QED
  BY <1>2, StepRun DEF Ops

(* A result is processed: only one that is no failure leaves the flag true, *)
(* and that one is a proof itself.                                         *)
LEMMA StepReturn ==
  ASSUME ReadersInv, NEW t \in Threads, Return(t)
  PROVE  ReadersInv'
<1>1. proof_age' = proof_age /\ probe_age' = probe_age
  BY DEF Return, ProbeReturn, FetchReturn, FetchRecord, FetchEmpty, FetchFail, SearchReturn
<1>2. /\ proof_age \in Nat /\ probe_age \in Nat
  BY Ages DEF ReadersInv
<1>3. CASE ProbeReturn(t)
  <2>1. /\ call' \in [Threads -> Subprocess \cup {NoCall}]
        /\ call[t].outcome # "fail" => proof_age <= 1
        /\ ProofOfReads'
    BY <1>1, <1>3, Ended DEF ProbeReturn, Ops
  <2>2. Tell(t, "alive") \/ Tell(t, "dead")
    BY <1>3 DEF ProbeReturn
  <2>3. answer' \in [Threads -> Kinds]
    BY <2>2, TellEffect DEF ReadersInv, ReadersTypeOK, Kinds
  <2>4. /\ session_ok' = (call[t].outcome # "fail")
        /\ UNCHANGED <<up, listed, cache_age, last_good>>
    BY <1>3 DEF ProbeReturn
  <2>5. ReadersTypeOK'
    BY <1>1, <2>1, <2>3, <2>4 DEF ReadersInv, ReadersTypeOK, UpstreamTypeOK, HORIZON
  <2>6. session_ok' => proof_age <= 1
    BY <2>1, <2>4
  <2>7. ProofOfFlag'
    BY <1>1, <1>2, <2>6 DEF ProofOfFlag
  <2> QED
    BY <2>1, <2>5, <2>7 DEF ReadersInv
<1>4. CASE FetchRecord(t)
  <2>1. /\ call' \in [Threads -> Subprocess \cup {NoCall}]
        /\ call[t].agent \in Agents
        /\ call[t].outcome # "fail" => proof_age <= 1
        /\ ProofOfReads'
    BY <1>1, <1>4, Ended DEF FetchRecord, Ops
  <2>2. answer' \in [Threads -> Kinds]
    BY <1>4, TellEffect DEF FetchRecord, ReadersInv, ReadersTypeOK, Kinds
  <2>3. /\ call[t].outcome = "record" /\ session_ok' = TRUE
        /\ cache_age' = [cache_age EXCEPT ![call[t].agent] = 0]
        /\ last_good' = last_good \cup {call[t].agent}
        /\ UNCHANGED <<up, listed>>
    BY <1>4 DEF FetchRecord
  <2>4. cache_age' \in [Agents -> 0..CACHE_TTL] /\ last_good' \subseteq Agents
    BY <2>1, <2>3, TTLAssumption DEF ReadersInv, ReadersTypeOK, UpstreamTypeOK
  <2>5. ReadersTypeOK'
    BY <1>1, <2>1, <2>2, <2>3, <2>4 DEF ReadersInv, ReadersTypeOK, UpstreamTypeOK, HORIZON
  <2>6. proof_age <= 1
    BY <2>1, <2>3
  <2>7. ProofOfFlag'
    BY <1>1, <1>2, <2>6 DEF ProofOfFlag
  <2> QED
    BY <2>1, <2>5, <2>7 DEF ReadersInv
<1>5. CASE FetchEmpty(t)
  <2>1. Tell(t, "notfound") /\ Finished(t, "fetch")
        /\ UNCHANGED <<up, listed, cache_age, last_good, session_ok>>
    BY <1>5 DEF FetchEmpty
  <2> QED
    BY <1>1, <2>1, StepQuietEnd DEF Ops, Kinds
<1>6. CASE FetchFail(t)
  <2>1. /\ call' \in [Threads -> Subprocess \cup {NoCall}]
        /\ ProofOfReads'
    BY <1>1, <1>6, Ended DEF FetchFail, Ops
  <2>2. Tell(t, "fallback") \/ Tell(t, "error")
    BY <1>6 DEF FetchFail
  <2>3. answer' \in [Threads -> Kinds]
    BY <2>2, TellEffect DEF ReadersInv, ReadersTypeOK, Kinds
  <2>4. session_ok' = FALSE /\ UNCHANGED <<up, listed, cache_age, last_good>>
    BY <1>6 DEF FetchFail
  <2>5. ReadersTypeOK'
    BY <1>1, <2>1, <2>3, <2>4 DEF ReadersInv, ReadersTypeOK, UpstreamTypeOK, HORIZON
  <2> QED
    BY <2>1, <2>4, <2>5 DEF ReadersInv, ProofOfFlag
<1>7. CASE SearchReturn(t)
  <2>1. Finished(t, "search") /\ UNCHANGED <<up, listed, cache_age, last_good, session_ok>>
    BY <1>7 DEF SearchReturn
  <2>2. call[t].outcome \in {"record", "empty", "fail"}
    BY <1>1, <2>1, Ended DEF Ops
  <2>3. Tell(t, "id") \/ Tell(t, "notfound") \/ Tell(t, "error")
    BY <1>7, <2>2 DEF SearchReturn
  <2> QED
    BY <1>1, <2>1, <2>3, StepQuietEnd DEF Ops, Kinds
<1> QED
  BY <1>3, <1>4, <1>5, <1>6, <1>7 DEF Return, FetchReturn

(* Everything grows old together, so what is younger than a bound was      *)
(* younger before by one.                                                  *)
LEMMA StepTimePasses ==
  ASSUME ReadersInv, TimePasses
  PROVE  ReadersInv'
<1> DEFINE later(t) == [call[t] EXCEPT !.age = @ + 1]
<1>1. /\ \A t \in Threads : call[t] # NoCall => call[t].age < CALL_TIMEOUT
      /\ cache_age' = [a \in Agents |-> Older(cache_age[a], CACHE_TTL)]
      /\ probe_age' = Older(probe_age, PROBE_TTL)
      /\ proof_age' = Older(proof_age, HORIZON)
      /\ call' = [t \in Threads |-> IF call[t] = NoCall THEN NoCall ELSE later(t)]
      /\ UNCHANGED <<up, listed, last_good, session_ok, answer>>
  BY DEF TimePasses, Tick
<1>2. ASSUME NEW t \in Threads, call[t] # NoCall
      PROVE  /\ later(t) \in Subprocess /\ later(t) # NoCall
             /\ later(t).op = call[t].op /\ later(t).outcome = call[t].outcome
             /\ later(t).age = call[t].age + 1 /\ call[t].age \in Nat
  <2>1. call[t] \in Subprocess /\ call[t].age < CALL_TIMEOUT /\ call[t].age \in 0..1
    BY <1>1, <1>2, Running DEF ReadersInv
  <2>2. /\ later(t) \in Subprocess
        /\ later(t).op = call[t].op /\ later(t).outcome = call[t].outcome
        /\ later(t).age = call[t].age + 1
    BY <2>1 DEF Subprocess, CALL_TIMEOUT
  <2> QED
    BY <2>1, <2>2, SubprocessAssumption
<1> HIDE DEF later
<1>3. call' \in [Threads -> Subprocess \cup {NoCall}]
  BY <1>1, <1>2
<1>4. \A t \in Threads :
        IF call[t] = NoCall THEN call'[t] = NoCall ELSE call'[t] = later(t)
  BY <1>1
<1>5. /\ PROBE_TTL \in Nat \ {0} /\ HORIZON = PROBE_TTL + 1
      /\ proof_age \in 0..HORIZON /\ probe_age \in 0..PROBE_TTL
  BY Ages DEF ReadersInv
<1>6. /\ proof_age' \in 0..HORIZON /\ proof_age' <= proof_age + 1
      /\ probe_age' \in 0..PROBE_TTL
      /\ probe_age' < PROBE_TTL => probe_age' = probe_age + 1 /\ probe_age < PROBE_TTL
  BY <1>1, <1>5 DEF Older
<1>7. cache_age' \in [Agents -> 0..CACHE_TTL]
  BY <1>1, TTLAssumption DEF ReadersInv, ReadersTypeOK, UpstreamTypeOK, Older
<1>8. ReadersTypeOK'
  BY <1>1, <1>3, <1>6, <1>7 DEF ReadersInv, ReadersTypeOK, UpstreamTypeOK, HORIZON
<1>9. ProofOfReads'
  <2>1. ASSUME NEW t \in Threads, Answered(t)'
        PROVE  proof_age' <= call'[t].age
    <3>1. call[t] # NoCall /\ call'[t] = later(t)
      BY <1>4, <2>1 DEF Answered
    <3>2. proof_age <= call[t].age
      BY <1>2, <2>1, <3>1 DEF Answered, ReadersInv, ProofOfReads
    <3> QED
      BY <1>2, <1>5, <1>6, <3>1, <3>2
  <2> QED
    BY <2>1 DEF ProofOfReads
<1>10. ProofOfFlag'
  <2>1. NoProbeOut' => NoProbeOut
    BY <1>2, <1>4 DEF NoProbeOut
  <2>2. ASSUME session_ok, probe_age' < PROBE_TTL, NoProbeOut
        PROVE  proof_age' <= probe_age' + 1
    <3>1. proof_age <= probe_age + 1
      BY <1>6, <2>2 DEF ReadersInv, ProofOfFlag
    <3> QED
      BY <1>5, <1>6, <2>2, <3>1
  <2> QED
    BY <1>1, <2>1, <2>2 DEF ProofOfFlag
<1> QED
  BY <1>8, <1>9, <1>10 DEF ReadersInv

LEMMA StepWorld ==
  ASSUME ReadersInv, ReadersWorld
  PROVE  ReadersInv'
<1>1. UNCHANGED <<cache_age, last_good, session_ok, probe_age, call, answer, proof_age>>
  BY DEF ReadersWorld, UpOrDown, ListOrDelist
<1>2. up' \in BOOLEAN /\ listed' \subseteq Agents
  BY DEF ReadersWorld, UpOrDown, ListOrDelist, ReadersInv, ReadersTypeOK, UpstreamTypeOK
<1> QED
  BY <1>1, <1>2
     DEF ReadersInv, ReadersTypeOK, UpstreamTypeOK, ProofOfReads, Answered, ProofOfFlag, NoProbeOut, HORIZON

(* A restart starts with a probe due, so its green flag proves nothing.    *)
LEMMA StepReboot ==
  ASSUME ReadersInv, Reboot
  PROVE  ReadersInv'
<1>1. /\ cache_age' = [a \in Agents |-> CACHE_TTL] /\ last_good' = {}
      /\ session_ok' = TRUE /\ probe_age' = PROBE_TTL
      /\ call' = [t \in Threads |-> NoCall] /\ answer' = [t \in Threads |-> "none"]
      /\ UNCHANGED <<up, listed, proof_age>>
  BY DEF Reboot, Restart
<1>2. ReadersTypeOK'
  BY <1>1, TTLAssumption DEF ReadersInv, ReadersTypeOK, UpstreamTypeOK, Kinds, HORIZON
<1>3. ProofOfReads'
  BY <1>1 DEF ProofOfReads, Answered
<1>4. ProofOfFlag'
  BY <1>1, TTLAssumption DEF ProofOfFlag
<1> QED
  BY <1>2, <1>3, <1>4 DEF ReadersInv

-----------------------------------------------------------------------------
LEMMA InitReaders == ReadersInit => ReadersInv
<1> SUFFICES ASSUME ReadersInit PROVE ReadersInv
  OBVIOUS
<1>1. ReadersTypeOK
  BY TTLAssumption
     DEF ReadersInit, UpstreamInit, ReadersTypeOK, UpstreamTypeOK, Kinds, HORIZON, CALL_TIMEOUT
<1>2. ProofOfReads /\ ProofOfFlag
  BY TTLAssumption DEF ReadersInit, UpstreamInit, ProofOfReads, Answered, ProofOfFlag
<1> QED
  BY <1>1, <1>2 DEF ReadersInv

LEMMA StepReaders == ReadersInv /\ [ReadersNext]_readersVars => ReadersInv'
<1> SUFFICES ASSUME ReadersInv, [ReadersNext]_readersVars PROVE ReadersInv'
  OBVIOUS
<1>1. ASSUME NEW t \in Threads, Probe(t) \/ Replied(t) \/ Return(t)
      PROVE  ReadersInv'
  BY <1>1, StepProbe, StepReplied, StepReturn
<1>2. ASSUME NEW t \in Threads \ Monitors, Fetch(t) \/ Search(t)
      PROVE  ReadersInv'
  BY <1>2, StepFetch, StepSearch
<1>3. CASE ReadersWorld \/ TimePasses \/ Reboot
  BY <1>3, StepWorld, StepTimePasses, StepReboot
<1>4. CASE UNCHANGED readersVars
  BY <1>4 DEF readersVars, upstreamVars, ReadersInv, ReadersTypeOK, UpstreamTypeOK, ProofOfReads, Answered,
              ProofOfFlag, NoProbeOut, HORIZON
<1> QED
  BY <1>1, <1>2, <1>3, <1>4 DEF ReadersNext

LEMMA ReadersHold == ReadersSpec => []ReadersInv
  BY InitReaders, StepReaders, PTL DEF ReadersSpec

(* The caches, the flag, the subprocesses of all threads and what they are *)
(* told keep their types (data.py:20-76).                                  *)
THEOREM ReadersTyped == ReadersSpec => []ReadersTypeOK
<1>1. ReadersInv => ReadersTypeOK
  BY DEF ReadersInv
<1> QED
  BY <1>1, ReadersHold, PTL

(* A "yes" of the flag between two probes has the proof the flag carries,  *)
(* and a "yes" of a probe its own.                                         *)
LEMMA RecentYes ==
  ASSUME ReadersInv, NEW t \in Threads, ProbeCached(t) \/ ProbeReturn(t), answer'[t] = "alive"
  PROVE  proof_age < HORIZON \/ ProbeInFlight(t)
<1>1. /\ PROBE_TTL \in Nat \ {0} /\ HORIZON = PROBE_TTL + 1
      /\ proof_age \in 0..HORIZON /\ probe_age \in 0..PROBE_TTL
  BY Ages DEF ReadersInv
<1>2. CASE ProbeCached(t)
  <2>1. call[t] = NoCall /\ probe_age < PROBE_TTL /\ session_ok
    <3>1. call[t] = NoCall /\ probe_age < PROBE_TTL
          /\ Tell(t, IF session_ok THEN "alive" ELSE "dead")
      BY <1>2 DEF ProbeCached
    <3>2. answer'[t] = IF session_ok THEN "alive" ELSE "dead"
      BY <3>1, TellEffect DEF ReadersInv, ReadersTypeOK, Kinds
    <3> QED
      BY <3>1, <3>2
  <2>2. NoProbeOut \/ ProbeInFlight(t)
    BY <2>1 DEF NoProbeOut, ProbeInFlight
  <2>3. NoProbeOut => proof_age <= probe_age + 1
    BY <2>1 DEF ReadersInv, ProofOfFlag
  <2> QED
    BY <1>1, <2>1, <2>2, <2>3
<1>3. CASE ProbeReturn(t)
  <2>1. /\ Finished(t, "probe") /\ proof_age \in 0..HORIZON
        /\ Tell(t, IF call[t].outcome # "fail" THEN "alive" ELSE "dead")
    BY <1>1, <1>3 DEF ProbeReturn
  <2>2. answer'[t] = IF call[t].outcome # "fail" THEN "alive" ELSE "dead"
    BY <2>1, TellEffect DEF ReadersInv, ReadersTypeOK, Kinds
  <2>3. /\ call[t] # NoCall /\ call[t].outcome \notin {"pending", "fail"}
    BY <2>1, <2>2 DEF Finished
  <2>4. /\ call[t].outcome \in Outcomes /\ call[t].age \in 0..1
    BY <2>3, Running DEF ReadersInv
  <2>5. proof_age <= call[t].age
    BY <2>3, <2>4 DEF ReadersInv, ProofOfReads, Answered, Outcomes
  <2> QED
    BY <1>1, <2>4, <2>5
<1> QED
  BY <1>2, <1>3

(* Whichever late results overwrote the flag, probe_upstream() says "yes"  *)
(* only on a read the marketplace answered within PROBE_TTL and one        *)
(* timeout, or while another thread's probe is out (data.py:58-70).        *)
THEOREM HealthyIsRecent == ReadersSpec => YesIsRecent
<1>1. ReadersInv => \A t \in Threads :
                (ProbeCached(t) \/ ProbeReturn(t)) /\ answer'[t] = "alive" =>
                  proof_age < HORIZON \/ ProbeInFlight(t)
  BY RecentYes
<1> QED
  BY <1>1, ReadersHold, PTL DEF YesIsRecent

-----------------------------------------------------------------------------
(* The inductive invariant: what each buyer's request relies on, stage by  *)
(* stage.                                                                  *)

(* A handler waits only for the subprocess its stage started.              *)
CallMatches(b) ==
  call[b] # NoCall =>
    \/ pc[b] = "gate_probed" /\ call[b].op = "probe"
    \/ /\ pc[b] \in {"gate_resolved", "route_resolved"}
       /\ call[b].op = "search" /\ call[b].agent = request[b].agent
    \/ /\ pc[b] \in {"gate_fetched", "route_fetched"}
       /\ call[b].op = "fetch" /\ call[b].agent = request[b].agent

Unparsed == {"gate_probe", "gate_probed", "gate_parse"}

Unpaid == Unparsed \cup {"gate_resolve", "gate_resolved", "gate_fetch", "gate_fetched", "pay"}

Passed == {"pay", "route_parse", "route_resolve", "route_resolved", "route_fetch", "route_fetched"}

(* What is known of a request while its handlers run.                      *)
InProgress(b) ==
  pc[b] # "idle" =>
    /\ request[b] \in Requests
    /\ outcome[b] = 0
    /\ pc[b] \in Unpaid => b \notin paid
    /\ pc[b] \notin Unparsed => GateReads(request[b]) \in {"id", "name"}
    /\ pc[b] \in {"route_resolve", "route_resolved"} => RouteReads(request[b]) = "name"

(* The agent is on the marketplace still, or its leaving was noticed.      *)
StillListed(b) == request[b].agent \in listed \/ b \in delisted

(* What the gate was told of the agent holds until the route asks again.   *)
GateKnew(b) ==
  /\ pc[b] = "gate_fetched" =>
       /\ answer[b] \in {"record", "cached", "fallback"} => request[b].agent \in last_good
       /\ answer[b] = "record" => StillListed(b)
       /\ call[b] # NoCall /\ call[b].outcome = "record" => StillListed(b)
  /\ pc[b] \in Passed =>
       /\ request[b].agent \in last_good
       /\ basis[b].gate = "record" => StillListed(b)

(* The agent left meanwhile, or the gate had not read its record.          *)
NotFoundExcused(b) == b \in delisted \/ basis[b].gate # "record"

(* A 404 the route is going to answer can be explained; and no 502 comes.  *)
RouteToldWhy(b) ==
  /\ pc[b] \in {"route_resolved", "route_fetched"} =>
       /\ answer[b] = "notfound" => NotFoundExcused(b)
       /\ call[b] # NoCall /\ call[b].outcome = "empty" => NotFoundExcused(b)
  /\ pc[b] = "route_fetched" => answer[b] # "error"

(* PaidLossIsExplained, of one buyer.                                      *)
Explained(b) ==
  b \in paid /\ pc[b] = "idle" /\ outcome[b] # 200 =>
    LET r == request[b]
    IN  \/ outcome[b] = Dropped
        \/ outcome[b] = 400 /\ GateReads(r) # RouteReads(r)
        \/ outcome[b] = 404 /\ NotFoundExcused(b)
        \/ outcome[b] = 500 /\ (RouteReads(r) = "name" \/ basis[b].route # "none")

BuyerInv(b) ==
  CallMatches(b) /\ InProgress(b) /\ GateKnew(b) /\ RouteToldWhy(b) /\ Explained(b)

IInv == UpstreamInv /\ BuyerTypeOK /\ \A b \in Buyers : BuyerInv(b)

LEMMA InitIInv == Init => IInv
<1> SUFFICES ASSUME Init PROVE IInv
  OBVIOUS
<1>1. UpstreamInv
  BY TTLAssumption DEF Init, UpstreamInit, UpstreamInv, UpstreamTypeOK, CachedIsGood, Kinds
<1>2. BuyerTypeOK
  BY DEF Init, BuyerTypeOK, Stages, Unread, Kinds, Statuses
<1>3. ASSUME NEW b \in Buyers PROVE BuyerInv(b)
  <2>1. pc[b] = "idle" /\ call[b] = NoCall /\ paid = {}
    BY DEF Init, UpstreamInit, Buyers
  <2> QED
    BY <2>1 DEF BuyerInv, CallMatches, InProgress, GateKnew, RouteToldWhy, Explained, Passed
<1> QED
  BY <1>1, <1>2, <1>3 DEF IInv

-----------------------------------------------------------------------------
(* A step of one buyer's handlers leaves the other buyers alone.           *)
OnlyBuyer(b) ==
  /\ BuyerTypeOK'
  /\ \A u \in Buyers \ {b} :
       /\ pc'[u] = pc[u] /\ request'[u] = request[u] /\ outcome'[u] = outcome[u]
       /\ basis'[u] = basis[u]
       /\ u \in paid' <=> u \in paid
       /\ u \in delisted' <=> u \in delisted

LEMMA OthersKeep ==
  ASSUME IInv, NEW b \in Buyers, OnlyThread(b), OnlyBuyer(b), BuyerInv(b)'
  PROVE  IInv'
<1>1. ASSUME NEW u \in Buyers \ {b} PROVE BuyerInv(u)'
  <2>1. BuyerInv(u)
    BY DEF IInv
  <2>2. /\ pc'[u] = pc[u] /\ request'[u] = request[u] /\ outcome'[u] = outcome[u]
        /\ basis'[u] = basis[u] /\ call'[u] = call[u] /\ answer'[u] = answer[u]
        /\ u \in paid' <=> u \in paid
        /\ u \in delisted' <=> u \in delisted
        /\ listed' = listed /\ last_good \subseteq last_good'
    BY DEF OnlyThread, OnlyBuyer, Buyers
  <2>3. CallMatches(u)'
    BY <2>1, <2>2 DEF BuyerInv, CallMatches
  <2>4. InProgress(u)'
    BY <2>1, <2>2 DEF BuyerInv, InProgress
  <2>5. StillListed(u)' <=> StillListed(u)
    BY <2>2 DEF StillListed
  <2>6. GateKnew(u)'
    BY <2>1, <2>2, <2>5 DEF BuyerInv, GateKnew
  <2>7. NotFoundExcused(u)' <=> NotFoundExcused(u)
    BY <2>2 DEF NotFoundExcused
  <2>8. RouteToldWhy(u)'
    BY <2>1, <2>2, <2>7 DEF BuyerInv, RouteToldWhy
  <2>9. Explained(u)'
    BY <2>1, <2>2, <2>7 DEF BuyerInv, Explained
  <2> QED
    BY <2>3, <2>4, <2>6, <2>8, <2>9 DEF BuyerInv
<1> QED
  BY <1>1 DEF IInv, OnlyThread, OnlyBuyer

LEMMA GotoEffect ==
  ASSUME BuyerTypeOK, NEW b \in Buyers, NEW stage \in Stages, Goto(b, stage)
  PROVE  /\ OnlyBuyer(b)
         /\ pc'[b] = stage
         /\ UNCHANGED <<request, paid, outcome, basis, delisted>>
  BY DEF BuyerTypeOK, Goto, OnlyBuyer

LEMMA RespondEffect ==
  ASSUME BuyerTypeOK, NEW b \in Buyers,
         NEW status \in {200, 400, 402, 404, 500, 502, 503}, Respond(b, status)
  PROVE  /\ OnlyBuyer(b)
         /\ pc'[b] = "idle" /\ outcome'[b] = status
         /\ UNCHANGED <<request, paid, basis, delisted>>
  BY DEF BuyerTypeOK, Respond, OnlyBuyer, Stages, Statuses

LEMMA RequestTypes ==
  ASSUME NEW r \in Requests
  PROVE  /\ r.agent \in Agents
         /\ GateReads(r) \in {"none", "id", "name", "bad"}
         /\ RouteReads(r) \in {"none", "id", "name", "bad"}
<1>1. r \in AllRequests
  BY RequestsAssumption
<1> QED
  BY <1>1 DEF AllRequests, GateReads, RouteReads

(* An answer of the gate cost nobody anything.                             *)
LEMMA GateAnswers ==
  ASSUME IInv, NEW b \in Buyers, pc[b] \in Unpaid, call'[b] = NoCall,
         OnlyThread(b), OnlyBuyer(b), pc'[b] = "idle", paid' = paid
  PROVE  IInv'
<1>1. b \notin paid'
  BY DEF IInv, BuyerInv, InProgress, Unpaid, Unparsed
<1>2. BuyerInv(b)'
  BY <1>1 DEF BuyerInv, CallMatches, InProgress, GateKnew, RouteToldWhy, Explained, Passed
<1> QED
  BY <1>2, OthersKeep

(* Between waiting stages nothing is known but the request.                *)
LEMMA GateGoesOn ==
  ASSUME IInv, NEW b \in Buyers, pc[b] \in Unpaid, OnlyThread(b), OnlyBuyer(b),
         pc'[b] \in Unpaid \ {"gate_fetched", "pay"},
         UNCHANGED <<request, paid, outcome, basis, delisted>>, CallMatches(b)',
         pc'[b] \notin Unparsed => GateReads(request[b]) \in {"id", "name"}
  PROVE  IInv'
<1>1. InProgress(b)'
  BY DEF IInv, BuyerInv, InProgress, Unpaid, Unparsed
<1>2. BuyerInv(b)'
  BY <1>1 DEF BuyerInv, GateKnew, RouteToldWhy, Explained, Passed, Unpaid, Unparsed
<1> QED
  BY <1>2, OthersKeep

-----------------------------------------------------------------------------
(* The stages of the gate.                                                 *)

LEMMA GateProbeStep ==
  ASSUME IInv, NEW b \in Buyers, GateProbe(b) \/ GateProbed(b)
  PROVE  IInv'
<1>0. UpstreamInv /\ BuyerTypeOK /\ b \in Threads /\ BuyerInv(b)
  BY DEF IInv, Buyers
<1>1. CASE GateProbe(b)
  <2>1. pc[b] = "gate_probe" /\ Goto(b, "gate_probed")
    BY <1>1 DEF GateProbe
  <2>2. OnlyThread(b) /\ (call'[b] # NoCall => call'[b].op = "probe")
    BY <1>0, <1>1, ProbeStarted DEF GateProbe
  <2>3. /\ OnlyBuyer(b) /\ pc'[b] = "gate_probed"
        /\ UNCHANGED <<request, paid, outcome, basis, delisted>>
    BY <1>0, <2>1, GotoEffect DEF Stages
  <2>4. CallMatches(b)'
    BY <2>2, <2>3 DEF CallMatches
  <2> QED
    BY <2>1, <2>2, <2>3, <2>4, GateGoesOn DEF Unpaid, Unparsed
<1>2. CASE GateProbed(b)
  <2>1. pc[b] = "gate_probed" /\ call[b] = NoCall /\ call' = call /\ OnlyThread(b)
    BY <1>0, <1>2, IdleThread DEF GateProbed, Waiting, upstreamVars
  <2>2. CASE Goto(b, "gate_parse")
    <3>1. /\ OnlyBuyer(b) /\ pc'[b] = "gate_parse"
          /\ UNCHANGED <<request, paid, outcome, basis, delisted>>
      BY <1>0, <2>2, GotoEffect DEF Stages
    <3>2. CallMatches(b)'
      BY <2>1 DEF CallMatches
    <3> QED
      BY <2>1, <3>1, <3>2, GateGoesOn DEF Unpaid, Unparsed
  <2>3. CASE Respond(b, 503)
    <3>1. OnlyBuyer(b) /\ pc'[b] = "idle" /\ paid' = paid
      BY <1>0, <2>3, RespondEffect
    <3> QED
      BY <2>1, <3>1, GateAnswers DEF Unpaid, Unparsed
  <2> QED
    BY <1>2, <2>2, <2>3 DEF GateProbed
<1> QED
  BY <1>1, <1>2

LEMMA GateParseStep ==
  ASSUME IInv, NEW b \in Buyers, GateParse(b)
  PROVE  IInv'
<1>1. /\ UpstreamInv /\ BuyerTypeOK /\ b \in Threads
      /\ pc[b] = "gate_parse" /\ call[b] = NoCall /\ request[b] \in Requests
  BY DEF IInv, Buyers, GateParse, BuyerInv, CallMatches, InProgress
<1>2. call' = call /\ OnlyThread(b)
  BY <1>1, IdleThread DEF GateParse, upstreamVars
<1>3. \/ Respond(b, 400)
      \/ Goto(b, "gate_fetch") /\ GateReads(request[b]) = "id"
      \/ Goto(b, "gate_resolve") /\ GateReads(request[b]) = "name"
  <2>1. GateReads(request[b]) \in {"none", "id", "name", "bad"}
    BY <1>1, RequestTypes
  <2> QED
    BY <2>1 DEF GateParse
<1>4. CASE Respond(b, 400)
  <2>1. OnlyBuyer(b) /\ pc'[b] = "idle" /\ paid' = paid
    BY <1>1, <1>4, RespondEffect
  <2> QED
    BY <1>1, <1>2, <2>1, GateAnswers DEF Unpaid, Unparsed
<1>5. CASE \/ Goto(b, "gate_fetch") /\ GateReads(request[b]) = "id"
           \/ Goto(b, "gate_resolve") /\ GateReads(request[b]) = "name"
  <2>1. /\ OnlyBuyer(b) /\ pc'[b] \in {"gate_fetch", "gate_resolve"}
        /\ UNCHANGED <<request, paid, outcome, basis, delisted>>
    BY <1>1, <1>5, GotoEffect DEF Stages
  <2>2. CallMatches(b)'
    BY <1>1, <1>2 DEF CallMatches
  <2> QED
    BY <1>1, <1>2, <1>5, <2>1, <2>2, GateGoesOn DEF Unpaid, Unparsed
<1> QED
  BY <1>3, <1>4, <1>5

(* The handler of a RuntimeError clears the flag and answers 503.          *)
LEMMA GateRefuses ==
  ASSUME IInv, NEW b \in Buyers, pc[b] \in Unpaid, call[b] = NoCall,
         \/ GateRefuse503(b)
         \/ Respond(b, 404) /\ UNCHANGED upstreamVars
  PROVE  IInv'
<1>0. UpstreamInv /\ BuyerTypeOK /\ b \in Threads
  BY DEF IInv, Buyers
<1>1. call' = call /\ OnlyThread(b)
  <2>1. CASE GateRefuse503(b)
    BY <1>0, <2>1
       DEF GateRefuse503, OnlyThread, UpstreamInv, UpstreamTypeOK, CachedIsGood
  <2>2. CASE UNCHANGED upstreamVars
    BY <1>0, <2>2, IdleThread DEF upstreamVars
  <2> QED
    BY <2>1, <2>2
<1>2. OnlyBuyer(b) /\ pc'[b] = "idle" /\ paid' = paid
  BY <1>0, RespondEffect DEF GateRefuse503
<1> QED
  BY <1>1, <1>2, GateAnswers

LEMMA GateResolveStep ==
  ASSUME IInv, NEW b \in Buyers, GateResolve(b) \/ GateResolved(b)
  PROVE  IInv'
<1>0. UpstreamInv /\ BuyerTypeOK /\ b \in Threads /\ BuyerInv(b)
  BY DEF IInv, Buyers
<1>1. pc[b] \in {"gate_resolve", "gate_resolved"}
  BY DEF GateResolve, GateResolved
<1>2. /\ request[b] \in Requests /\ request[b].agent \in Agents
      /\ GateReads(request[b]) \in {"id", "name"}
  BY <1>0, <1>1, RequestTypes DEF BuyerInv, InProgress, Unparsed
<1>3. CASE GateResolve(b)
  <2>1. /\ OnlyThread(b)
        /\ call'[b].op = "search" /\ call'[b].agent = request[b].agent
    BY <1>0, <1>2, <1>3, SearchStarted DEF GateResolve
  <2>2. /\ OnlyBuyer(b) /\ pc'[b] = "gate_resolved"
        /\ UNCHANGED <<request, paid, outcome, basis, delisted>>
    BY <1>0, <1>3, GotoEffect DEF GateResolve, Stages
  <2>3. CallMatches(b)'
    BY <2>1, <2>2 DEF CallMatches
  <2> QED
    BY <1>1, <1>2, <2>1, <2>2, <2>3, GateGoesOn DEF Unpaid, Unparsed
<1>4. CASE GateResolved(b)
  <2>1. call[b] = NoCall
    BY <1>4 DEF GateResolved, Waiting
  <2>2. CASE Goto(b, "gate_fetch") /\ UNCHANGED upstreamVars
    <3>1. /\ OnlyBuyer(b) /\ pc'[b] = "gate_fetch"
          /\ UNCHANGED <<request, paid, outcome, basis, delisted>>
      BY <1>0, <2>2, GotoEffect DEF Stages
    <3>2. OnlyThread(b) /\ call' = call
      BY <1>0, <2>2, IdleThread DEF upstreamVars
    <3>3. CallMatches(b)'
      BY <2>1, <3>2 DEF CallMatches
    <3> QED
      BY <1>1, <1>2, <3>1, <3>2, <3>3, GateGoesOn DEF Unpaid, Unparsed
  <2>3. CASE GateRefuse503(b) \/ (Respond(b, 404) /\ UNCHANGED upstreamVars)
    BY <1>1, <2>1, <2>3, GateRefuses DEF Unpaid, Unparsed
  <2> QED
    BY <1>4, <2>2, <2>3 DEF GateResolved
<1> QED
  BY <1>3, <1>4

LEMMA GateFetchStep ==
  ASSUME IInv, NEW b \in Buyers, GateFetch(b)
  PROVE  IInv'
<1>0. /\ UpstreamInv /\ BuyerTypeOK /\ b \in Threads /\ BuyerInv(b)
      /\ pc[b] = "gate_fetch"
  BY DEF IInv, Buyers, GateFetch
<1>1. /\ request[b] \in Requests /\ request[b].agent \in Agents
      /\ GateReads(request[b]) \in {"id", "name"} /\ b \notin paid /\ outcome[b] = 0
  BY <1>0, RequestTypes DEF BuyerInv, InProgress, Unparsed, Unpaid
<1>2. /\ OnlyThread(b)
      /\ answer'[b] \in {"none", "cached"}
      /\ answer'[b] = "cached" => request[b].agent \in last_good'
      /\ call'[b] # NoCall => /\ call'[b].op = "fetch" /\ call'[b].agent = request[b].agent
                              /\ call'[b].outcome = "pending"
  BY <1>0, <1>1, FetchStarted DEF GateFetch
<1>3. /\ OnlyBuyer(b) /\ pc'[b] = "gate_fetched"
      /\ UNCHANGED <<request, paid, outcome, basis, delisted>>
  BY <1>0, GotoEffect DEF GateFetch, Stages
<1>4. CallMatches(b)'
  BY <1>2, <1>3 DEF CallMatches
<1>5. InProgress(b)'
  BY <1>1, <1>3 DEF InProgress
<1>6. GateKnew(b)'
  BY <1>2, <1>3 DEF GateKnew, Passed
<1>7. RouteToldWhy(b)' /\ Explained(b)'
  BY <1>3 DEF RouteToldWhy, Explained
<1> QED
  BY <1>2, <1>3, <1>4, <1>5, <1>6, <1>7, OthersKeep DEF BuyerInv

LEMMA GateFetchedStep ==
  ASSUME IInv, NEW b \in Buyers, GateFetched(b)
  PROVE  IInv'
<1>0. /\ UpstreamInv /\ BuyerTypeOK /\ b \in Threads /\ BuyerInv(b)
      /\ pc[b] = "gate_fetched" /\ call[b] = NoCall
  BY DEF IInv, Buyers, GateFetched, Waiting
<1>1. CASE GateRefuse503(b) \/ (Respond(b, 404) /\ UNCHANGED upstreamVars)
  BY <1>0, <1>1, GateRefuses DEF Unpaid, Unparsed
<1>2. CASE GatePass(b)
  <2>1. /\ answer[b] \in {"record", "cached", "fallback"}
        /\ pc' = [pc EXCEPT ![b] = "pay"]
        /\ basis' = [basis EXCEPT ![b].gate = answer[b]]
        /\ UNCHANGED <<request, paid, outcome, delisted>>
        /\ UNCHANGED upstreamVars
    BY <1>2 DEF GatePass, Told
  <2>2. OnlyThread(b) /\ call' = call /\ listed' = listed /\ last_good' = last_good
    BY <1>0, <2>1, IdleThread DEF upstreamVars
  <2>3. /\ pc'[b] = "pay" /\ pc' \in [Buyers -> Stages]
        /\ \A u \in Buyers \ {b} : pc'[u] = pc[u]
    BY <1>0, <2>1 DEF BuyerTypeOK, Stages
  <2>4. /\ basis'[b].gate = answer[b]
        /\ basis' \in [Buyers -> [gate : Kinds, route : Kinds]]
        /\ \A u \in Buyers \ {b} : basis'[u] = basis[u]
    BY <1>0, <2>1 DEF BuyerTypeOK, Kinds
  <2>5. OnlyBuyer(b)
    BY <1>0, <2>1, <2>3, <2>4 DEF OnlyBuyer, BuyerTypeOK
  <2>6. /\ request[b].agent \in last_good
        /\ answer[b] = "record" => StillListed(b)
    BY <1>0, <2>1 DEF BuyerInv, GateKnew
  <2>7. GateKnew(b)'
    BY <2>1, <2>2, <2>3, <2>4, <2>6 DEF GateKnew, StillListed
  <2>8. InProgress(b)'
    BY <1>0, <2>1, <2>3 DEF BuyerInv, InProgress, Unpaid, Unparsed
  <2>9. CallMatches(b)' /\ RouteToldWhy(b)' /\ Explained(b)'
    BY <1>0, <2>2, <2>3 DEF CallMatches, RouteToldWhy, Explained
  <2> QED
    BY <2>2, <2>5, <2>7, <2>8, <2>9, OthersKeep DEF BuyerInv
<1> QED
  BY <1>1, <1>2 DEF GateFetched

-----------------------------------------------------------------------------
(* The payment.                                                            *)

LEMMA PaymentStep ==
  ASSUME IInv, NEW b \in Buyers, AskPayment(b) \/ Settle(b)
  PROVE  IInv'
<1>0. /\ UpstreamInv /\ BuyerTypeOK /\ b \in Threads /\ BuyerInv(b)
      /\ pc[b] = "pay" /\ UNCHANGED upstreamVars
  BY DEF IInv, Buyers, AskPayment, Settle
<1>1. call[b] = NoCall /\ OnlyThread(b) /\ call' = call /\ listed' = listed
      /\ last_good' = last_good
  BY <1>0, IdleThread DEF BuyerInv, CallMatches, upstreamVars
<1>2. CASE AskPayment(b)
  <2>1. OnlyBuyer(b) /\ pc'[b] = "idle" /\ paid' = paid
    BY <1>0, <1>2, RespondEffect DEF AskPayment
  <2> QED
    BY <1>0, <1>1, <2>1, GateAnswers DEF Unpaid
<1>3. CASE Settle(b)
  <2>1. /\ pc' = [pc EXCEPT ![b] = "route_parse"] /\ paid' = paid \cup {b}
        /\ UNCHANGED <<request, outcome, basis, delisted>>
    BY <1>3 DEF Settle
  <2>2. /\ pc'[b] = "route_parse" /\ pc' \in [Buyers -> Stages]
        /\ \A u \in Buyers \ {b} : pc'[u] = pc[u]
    BY <1>0, <2>1 DEF BuyerTypeOK, Stages
  <2>3. OnlyBuyer(b)
    BY <1>0, <2>1, <2>2 DEF OnlyBuyer, BuyerTypeOK
  <2>4. GateKnew(b)'
    BY <1>0, <1>1, <2>1, <2>2 DEF BuyerInv, GateKnew, StillListed, Passed
  <2>5. InProgress(b)'
    BY <1>0, <2>1, <2>2 DEF BuyerInv, InProgress, Unpaid, Unparsed
  <2>6. CallMatches(b)' /\ RouteToldWhy(b)' /\ Explained(b)'
    BY <1>1, <2>2 DEF CallMatches, RouteToldWhy, Explained
  <2> QED
    BY <1>1, <2>3, <2>4, <2>5, <2>6, OthersKeep DEF BuyerInv
<1> QED
  BY <1>2, <1>3

-----------------------------------------------------------------------------
(* The stages of the route, once the payment is real.                      *)

(* An answer of the route that PaidLossIsExplained explains.               *)
LEMMA RouteAnswered ==
  ASSUME IInv, NEW b \in Buyers, UNCHANGED upstreamVars, call[b] = NoCall, OnlyBuyer(b),
         pc'[b] = "idle", UNCHANGED <<request, delisted>>,
         basis'[b].gate = basis[b].gate,
         \/ outcome'[b] = 200
         \/ outcome'[b] = 400 /\ GateReads(request[b]) # RouteReads(request[b])
         \/ outcome'[b] = 404 /\ NotFoundExcused(b)
         \/ outcome'[b] = 500 /\ (RouteReads(request[b]) = "name" \/ basis'[b].route # "none")
  PROVE  IInv'
<1>1. OnlyThread(b) /\ call' = call
  BY IdleThread DEF IInv, Buyers, upstreamVars
<1>2. Explained(b)'
  BY DEF Explained, NotFoundExcused
<1>3. CallMatches(b)' /\ InProgress(b)' /\ GateKnew(b)' /\ RouteToldWhy(b)'
  BY <1>1 DEF CallMatches, InProgress, GateKnew, RouteToldWhy, Passed
<1> QED
  BY <1>1, <1>2, <1>3, OthersKeep DEF BuyerInv

(* The route goes on knowing what the gate knew.                           *)
LEMMA RouteGoesOn ==
  ASSUME IInv, NEW b \in Buyers, pc[b] \in Passed, OnlyThread(b), OnlyBuyer(b),
         pc'[b] \in Passed \ {"pay"}, UNCHANGED <<request, paid, outcome, basis, delisted>>,
         pc'[b] \in {"route_resolve", "route_resolved"} => RouteReads(request[b]) = "name",
         CallMatches(b)', RouteToldWhy(b)'
  PROVE  IInv'
<1>1. BuyerInv(b) /\ pc[b] # "idle" /\ pc[b] \notin Unparsed
  BY DEF IInv, Passed, Unparsed
<1>2. InProgress(b)'
  BY <1>1 DEF BuyerInv, InProgress, Passed, Unpaid, Unparsed
<1>3. GateKnew(b)'
  BY <1>1 DEF BuyerInv, GateKnew, StillListed, OnlyThread, Passed
<1>4. Explained(b)'
  BY DEF Explained, Passed
<1> QED
  BY <1>2, <1>3, <1>4, OthersKeep DEF BuyerInv

LEMMA RouteParseStep ==
  ASSUME IInv, NEW b \in Buyers, RouteParse(b)
  PROVE  IInv'
<1>1. /\ UpstreamInv /\ BuyerTypeOK /\ b \in Threads /\ UNCHANGED upstreamVars
      /\ pc[b] = "route_parse" /\ call[b] = NoCall /\ request[b] \in Requests
      /\ GateReads(request[b]) \in {"id", "name"}
  BY DEF IInv, Buyers, RouteParse, BuyerInv, CallMatches, InProgress, Unparsed
<1>2. call' = call /\ OnlyThread(b)
  BY <1>1, IdleThread DEF upstreamVars
<1>3. \/ Respond(b, 400) /\ RouteReads(request[b]) \in {"none", "bad"}
      \/ Goto(b, "route_fetch")
      \/ Goto(b, "route_resolve") /\ RouteReads(request[b]) = "name"
  <2>1. RouteReads(request[b]) \in {"none", "id", "name", "bad"}
    BY <1>1, RequestTypes
  <2> QED
    BY <2>1 DEF RouteParse
<1>4. CASE Respond(b, 400) /\ RouteReads(request[b]) \in {"none", "bad"}
  <2>1. /\ OnlyBuyer(b) /\ pc'[b] = "idle" /\ outcome'[b] = 400
        /\ UNCHANGED <<request, paid, basis, delisted>>
    BY <1>1, <1>4, RespondEffect
  <2>2. GateReads(request[b]) # RouteReads(request[b])
    BY <1>1, <1>4
  <2> QED
    BY <1>1, <2>1, <2>2, RouteAnswered
<1>5. CASE \/ Goto(b, "route_fetch")
           \/ Goto(b, "route_resolve") /\ RouteReads(request[b]) = "name"
  <2>1. /\ OnlyBuyer(b) /\ pc'[b] \in {"route_fetch", "route_resolve"}
        /\ pc'[b] = "route_resolve" => RouteReads(request[b]) = "name"
        /\ UNCHANGED <<request, paid, outcome, basis, delisted>>
    BY <1>1, <1>5, GotoEffect DEF Stages
  <2>2. CallMatches(b)' /\ RouteToldWhy(b)'
    BY <1>1, <1>2, <2>1 DEF CallMatches, RouteToldWhy
  <2> QED
    BY <1>1, <1>2, <2>1, <2>2, RouteGoesOn DEF Passed
<1> QED
  BY <1>3, <1>4, <1>5

LEMMA RouteResolveStep ==
  ASSUME IInv, NEW b \in Buyers, RouteResolve(b) \/ RouteResolved(b)
  PROVE  IInv'
<1>0. UpstreamInv /\ BuyerTypeOK /\ b \in Threads /\ BuyerInv(b)
  BY DEF IInv, Buyers
<1>1. pc[b] \in {"route_resolve", "route_resolved"}
  BY DEF RouteResolve, RouteResolved
<1>2. /\ request[b] \in Requests /\ request[b].agent \in Agents
      /\ RouteReads(request[b]) = "name"
  BY <1>0, <1>1, RequestTypes DEF BuyerInv, InProgress
<1>3. CASE RouteResolve(b)
  <2>1. /\ OnlyThread(b) /\ answer'[b] = "none"
        /\ call'[b].op = "search" /\ call'[b].agent = request[b].agent
        /\ call'[b].outcome = "pending"
    BY <1>0, <1>2, <1>3, SearchStarted DEF RouteResolve
  <2>2. /\ OnlyBuyer(b) /\ pc'[b] = "route_resolved"
        /\ UNCHANGED <<request, paid, outcome, basis, delisted>>
    BY <1>0, <1>3, GotoEffect DEF RouteResolve, Stages
  <2>3. CallMatches(b)' /\ RouteToldWhy(b)'
    BY <2>1, <2>2 DEF CallMatches, RouteToldWhy
  <2> QED
    BY <1>1, <1>2, <2>1, <2>2, <2>3, RouteGoesOn DEF Passed
<1>4. CASE RouteResolved(b)
  <2>1. /\ pc[b] = "route_resolved" /\ call[b] = NoCall /\ UNCHANGED upstreamVars
        /\ OnlyThread(b) /\ call' = call /\ answer' = answer
    BY <1>0, <1>4, IdleThread DEF RouteResolved, Waiting, upstreamVars
  <2>2. CASE Goto(b, "route_fetch")
    <3>1. /\ OnlyBuyer(b) /\ pc'[b] = "route_fetch"
          /\ UNCHANGED <<request, paid, outcome, basis, delisted>>
      BY <1>0, <2>2, GotoEffect DEF Stages
    <3>2. CallMatches(b)' /\ RouteToldWhy(b)'
      BY <2>1, <3>1 DEF CallMatches, RouteToldWhy
    <3> QED
      BY <1>1, <2>1, <3>1, <3>2, RouteGoesOn DEF Passed
  <2>3. CASE answer[b] = "notfound" /\ Respond(b, 404)
    <3>1. /\ OnlyBuyer(b) /\ pc'[b] = "idle" /\ outcome'[b] = 404
          /\ UNCHANGED <<request, paid, basis, delisted>>
      BY <1>0, <2>3, RespondEffect
    <3>2. NotFoundExcused(b)
      BY <1>0, <2>1, <2>3 DEF BuyerInv, RouteToldWhy
    <3> QED
      BY <2>1, <3>1, <3>2, RouteAnswered
  <2>4. CASE Respond(b, 500)
    <3>1. /\ OnlyBuyer(b) /\ pc'[b] = "idle" /\ outcome'[b] = 500
          /\ UNCHANGED <<request, paid, basis, delisted>>
      BY <1>0, <2>4, RespondEffect
    <3> QED
      BY <1>2, <2>1, <3>1, RouteAnswered
  <2> QED
    BY <1>4, <2>2, <2>3, <2>4 DEF RouteResolved, Told
<1> QED
  BY <1>3, <1>4

LEMMA RouteFetchStep ==
  ASSUME IInv, NEW b \in Buyers, RouteFetch(b)
  PROVE  IInv'
<1>0. /\ UpstreamInv /\ BuyerTypeOK /\ b \in Threads /\ BuyerInv(b)
      /\ pc[b] = "route_fetch"
  BY DEF IInv, Buyers, RouteFetch
<1>1. request[b] \in Requests /\ request[b].agent \in Agents
  BY <1>0, RequestTypes DEF BuyerInv, InProgress
<1>2. /\ OnlyThread(b)
      /\ answer'[b] \in {"none", "cached"}
      /\ call'[b] # NoCall => /\ call'[b].op = "fetch" /\ call'[b].agent = request[b].agent
                              /\ call'[b].outcome = "pending"
  BY <1>0, <1>1, FetchStarted DEF RouteFetch
<1>3. /\ OnlyBuyer(b) /\ pc'[b] = "route_fetched"
      /\ UNCHANGED <<request, paid, outcome, basis, delisted>>
  BY <1>0, GotoEffect DEF RouteFetch, Stages
<1>4. CallMatches(b)' /\ RouteToldWhy(b)'
  BY <1>2, <1>3 DEF CallMatches, RouteToldWhy
<1> QED
  BY <1>0, <1>2, <1>3, <1>4, RouteGoesOn DEF Passed

LEMMA RouteFetchedStep ==
  ASSUME IInv, NEW b \in Buyers, RouteFetched(b)
  PROVE  IInv'
<1>0. /\ UpstreamInv /\ BuyerTypeOK /\ b \in Threads /\ BuyerInv(b)
      /\ pc[b] = "route_fetched" /\ call[b] = NoCall /\ UNCHANGED upstreamVars
  BY DEF IInv, Buyers, RouteFetched, Waiting
<1>1. ASSUME NEW status \in {200, 500}, RouteAnswers(b, status) PROVE IInv'
  <2>1. /\ answer[b] \in {"record", "cached", "fallback"}
        /\ pc' = [pc EXCEPT ![b] = "idle"]
        /\ outcome' = [outcome EXCEPT ![b] = status]
        /\ basis' = [basis EXCEPT ![b].route = answer[b]]
        /\ UNCHANGED <<request, paid, delisted>>
    BY <1>1 DEF RouteAnswers, Told
  <2>2. /\ pc'[b] = "idle" /\ pc' \in [Buyers -> Stages]
        /\ \A u \in Buyers \ {b} : pc'[u] = pc[u]
    BY <1>0, <2>1 DEF BuyerTypeOK, Stages
  <2>3. /\ basis'[b].gate = basis[b].gate /\ basis'[b].route = answer[b]
        /\ basis' \in [Buyers -> [gate : Kinds, route : Kinds]]
        /\ \A u \in Buyers \ {b} : basis'[u] = basis[u]
    BY <1>0, <2>1 DEF BuyerTypeOK, Kinds
  <2>4. /\ outcome'[b] = status /\ outcome' \in [Buyers -> Statuses]
        /\ \A u \in Buyers \ {b} : outcome'[u] = outcome[u]
    BY <1>0, <2>1 DEF BuyerTypeOK, Statuses
  <2>5. OnlyBuyer(b)
    BY <1>0, <2>1, <2>2, <2>3, <2>4 DEF OnlyBuyer, BuyerTypeOK
  <2>6. basis'[b].route # "none"
    BY <2>1, <2>3
  <2> QED
    BY <1>0, <2>1, <2>2, <2>3, <2>4, <2>5, <2>6, RouteAnswered
<1>2. CASE answer[b] = "notfound" /\ Respond(b, 404)
  <2>1. /\ OnlyBuyer(b) /\ pc'[b] = "idle" /\ outcome'[b] = 404
        /\ UNCHANGED <<request, paid, basis, delisted>>
    BY <1>0, <1>2, RespondEffect
  <2>2. NotFoundExcused(b)
    BY <1>0, <1>2 DEF BuyerInv, RouteToldWhy
  <2> QED
    BY <1>0, <2>1, <2>2, RouteAnswered
<1>3. answer[b] # "error"
  BY <1>0 DEF BuyerInv, RouteToldWhy
<1> QED
  BY <1>1, <1>2, <1>3 DEF RouteFetched, RouteServe, RouteRaises, Told

-----------------------------------------------------------------------------
(* A subprocess a buyer's handler waits for.                               *)

LEMMA BuyersStandStill ==
  ASSUME BuyerTypeOK, UNCHANGED buyerVars, NEW b \in Buyers
  PROVE  OnlyBuyer(b)
  BY DEF BuyerTypeOK, buyerVars, OnlyBuyer

LEMMA ReplyStep ==
  ASSUME IInv, NEW b \in Buyers, Reply(b), UNCHANGED buyerVars
  PROVE  IInv'
<1>0. /\ UpstreamInv /\ BuyerTypeOK /\ b \in Threads /\ BuyerInv(b) /\ OnlyBuyer(b)
      /\ UNCHANGED <<pc, request, paid, outcome, basis, delisted>>
  BY BuyersStandStill DEF IInv, Buyers, buyerVars
<1>1. /\ OnlyThread(b)
      /\ call[b] # NoCall /\ call'[b] # NoCall
      /\ call'[b].op = call[b].op /\ call'[b].agent = call[b].agent
      /\ call'[b].outcome = "record" => call[b].agent \in listed
      /\ call'[b].outcome = "empty" => call[b].agent \notin listed
      /\ answer' = answer
  BY <1>0, ReplyEffect
<1>2. listed' = listed /\ last_good \subseteq last_good'
  BY <1>1 DEF OnlyThread
<1>3. /\ pc[b] \in {"gate_probed", "gate_resolved", "gate_fetched", "route_resolved",
                    "route_fetched"}
      /\ pc[b] # "gate_probed" => call[b].agent = request[b].agent
  BY <1>0, <1>1 DEF BuyerInv, CallMatches
<1>4. CallMatches(b)'
  BY <1>0, <1>1 DEF BuyerInv, CallMatches
<1>5. GateKnew(b)'
  <2>1. CASE pc[b] = "gate_fetched"
    BY <1>0, <1>1, <1>2, <1>3, <2>1 DEF BuyerInv, GateKnew, StillListed, Passed
  <2>2. CASE pc[b] # "gate_fetched"
    BY <1>0, <1>2, <2>2 DEF BuyerInv, GateKnew, StillListed
  <2> QED
    BY <2>1, <2>2
<1>6. RouteToldWhy(b)'
  <2>1. CASE pc[b] \in {"route_resolved", "route_fetched"}
    <3>1. call'[b].outcome = "empty" => NotFoundExcused(b)
      BY <1>0, <1>1, <1>3, <2>1 DEF BuyerInv, GateKnew, StillListed, NotFoundExcused, Passed
    <3> QED
      BY <1>0, <1>1, <3>1 DEF BuyerInv, RouteToldWhy, NotFoundExcused
  <2>2. CASE pc[b] \notin {"route_resolved", "route_fetched"}
    BY <1>0, <2>2 DEF RouteToldWhy
  <2> QED
    BY <2>1, <2>2
<1>7. InProgress(b)' /\ Explained(b)'
  BY <1>0 DEF BuyerInv, InProgress, Explained, NotFoundExcused
<1> QED
  BY <1>0, <1>1, <1>4, <1>5, <1>6, <1>7, OthersKeep DEF BuyerInv

LEMMA ReturnStep ==
  ASSUME IInv, NEW b \in Buyers, ProbeReturn(b) \/ FetchReturn(b) \/ SearchReturn(b),
         UNCHANGED buyerVars
  PROVE  IInv'
<1>0. /\ UpstreamInv /\ BuyerTypeOK /\ b \in Threads /\ BuyerInv(b) /\ OnlyBuyer(b)
      /\ UNCHANGED <<pc, request, paid, outcome, basis, delisted>>
  BY BuyersStandStill DEF IInv, Buyers, buyerVars
<1>1. /\ OnlyThread(b) /\ call[b] # NoCall /\ call'[b] = NoCall
      /\ \/ call[b].op = "probe"
         \/ /\ call[b].op = "fetch"
            /\ answer'[b] \in {"record", "fallback"} => call[b].agent \in last_good'
            /\ answer'[b] = "record" => call[b].outcome = "record"
            /\ answer'[b] = "notfound" => call[b].outcome = "empty"
            /\ answer'[b] = "error" => call[b].agent \notin last_good
            /\ answer'[b] # "cached"
         \/ /\ call[b].op = "search"
            /\ answer'[b] = "notfound" => call[b].outcome = "empty"
  BY <1>0, ProbeReturned, FetchReturned, SearchReturned
<1>2. listed' = listed /\ last_good \subseteq last_good'
  BY <1>1 DEF OnlyThread
<1>3. \/ call[b].op = "probe" /\ pc[b] = "gate_probed"
      \/ call[b].op = "search" /\ pc[b] \in {"gate_resolved", "route_resolved"}
      \/ /\ call[b].op = "fetch" /\ pc[b] \in {"gate_fetched", "route_fetched"}
         /\ call[b].agent = request[b].agent
  BY <1>0, <1>1 DEF BuyerInv, CallMatches
<1>4. GateKnew(b)'
  <2>1. CASE pc[b] = "gate_fetched"
    BY <1>0, <1>1, <1>2, <1>3, <2>1 DEF BuyerInv, GateKnew, StillListed, Passed
  <2>2. CASE pc[b] # "gate_fetched"
    BY <1>0, <1>2, <2>2 DEF BuyerInv, GateKnew, StillListed
  <2> QED
    BY <2>1, <2>2
<1>5. RouteToldWhy(b)'
  <2>1. CASE pc[b] = "route_fetched"
    <3>1. request[b].agent \in last_good
      BY <1>0, <2>1 DEF BuyerInv, GateKnew, Passed
    <3> QED
      BY <1>0, <1>1, <1>3, <2>1, <3>1 DEF BuyerInv, RouteToldWhy, NotFoundExcused
  <2>2. CASE pc[b] = "route_resolved"
    BY <1>0, <1>1, <1>3, <2>2 DEF BuyerInv, RouteToldWhy, NotFoundExcused
  <2>3. CASE pc[b] \notin {"route_resolved", "route_fetched"}
    BY <1>0, <2>3 DEF RouteToldWhy
  <2> QED
    BY <2>1, <2>2, <2>3
<1>6. CallMatches(b)' /\ InProgress(b)' /\ Explained(b)'
  BY <1>0, <1>1 DEF BuyerInv, CallMatches, InProgress, Explained, NotFoundExcused
<1> QED
  BY <1>0, <1>1, <1>4, <1>5, <1>6, OthersKeep DEF BuyerInv

-----------------------------------------------------------------------------
(* What the buyers and the world do.                                       *)

LEMMA AskStep ==
  ASSUME IInv, NEW b \in Buyers, NEW r \in Requests, Ask(b, r)
  PROVE  IInv'
<1>0. /\ UpstreamInv /\ BuyerTypeOK /\ b \in Threads /\ BuyerInv(b) /\ pc[b] = "idle"
  BY DEF IInv, Buyers, Ask
<1>1. /\ pc' = [pc EXCEPT ![b] = "gate_probe"] /\ request' = [request EXCEPT ![b] = r]
      /\ paid' = paid \ {b} /\ outcome' = [outcome EXCEPT ![b] = 0]
      /\ basis' = [basis EXCEPT ![b] = Unread] /\ delisted' = delisted \ {b}
      /\ answer' = [answer EXCEPT ![b] = "none"]
      /\ UNCHANGED <<up, listed, cache_age, last_good, session_ok, probe_age, call>>
  BY DEF Ask
<1>2. OnlyThread(b)
  BY <1>0, <1>1 DEF OnlyThread, UpstreamInv, UpstreamTypeOK, CachedIsGood, Kinds
<1>3. /\ pc'[b] = "gate_probe" /\ request'[b] = r /\ outcome'[b] = 0 /\ b \notin paid'
      /\ call'[b] = NoCall
  BY <1>0, <1>1 DEF BuyerTypeOK, BuyerInv, CallMatches
<1>4. OnlyBuyer(b)
  <2>1. Unread \in [gate : Kinds, route : Kinds]
    BY DEF Unread, Kinds
  <2>2. BuyerTypeOK'
    BY <1>0, <1>1, <2>1 DEF BuyerTypeOK, Stages, Statuses
  <2>3. \A u \in Buyers \ {b} : /\ pc'[u] = pc[u] /\ request'[u] = request[u]
                                /\ outcome'[u] = outcome[u] /\ basis'[u] = basis[u]
    BY <1>0, <1>1 DEF BuyerTypeOK
  <2> QED
    BY <1>1, <2>2, <2>3 DEF OnlyBuyer
<1>5. BuyerInv(b)'
  BY <1>3 DEF BuyerInv, CallMatches, InProgress, GateKnew, RouteToldWhy, Explained,
              Passed, Unparsed
<1> QED
  BY <1>2, <1>4, <1>5, OthersKeep

LEMMA RelistStep ==
  ASSUME IInv, NEW a \in Agents, Relist(a)
  PROVE  IInv'
<1>1. /\ UNCHANGED <<up, cache_age, last_good, session_ok, probe_age, call, answer>>
      /\ UNCHANGED <<pc, request, paid, outcome, basis>>
      /\ listed' = IF a \in listed THEN listed \ {a} ELSE listed \cup {a}
      /\ delisted' = delisted \cup {b \in Buyers : /\ a \in listed /\ pc[b] # "idle"
                                                   /\ request[b].agent = a}
  BY DEF Relist, ListOrDelist
<1>2. UpstreamInv' /\ BuyerTypeOK'
  BY <1>1 DEF IInv, UpstreamInv, UpstreamTypeOK, CachedIsGood, BuyerTypeOK
<1>3. ASSUME NEW b \in Buyers PROVE BuyerInv(b)'
  <2>1. BuyerInv(b)
    BY DEF IInv
  <2>2. StillListed(b) /\ pc[b] # "idle" => StillListed(b)'
    BY <1>1 DEF StillListed
  <2>3. NotFoundExcused(b) => NotFoundExcused(b)'
    BY <1>1 DEF NotFoundExcused
  <2>4. CallMatches(b)' /\ InProgress(b)'
    BY <1>1, <2>1 DEF BuyerInv, CallMatches, InProgress
  <2>5. GateKnew(b)'
    BY <1>1, <2>1, <2>2 DEF BuyerInv, GateKnew, Passed
  <2>6. RouteToldWhy(b)' /\ Explained(b)'
    BY <1>1, <2>1, <2>3 DEF BuyerInv, RouteToldWhy, Explained
  <2> QED
    BY <2>4, <2>5, <2>6 DEF BuyerInv
<1> QED
  BY <1>2, <1>3 DEF IInv

LEMMA WorldStep ==
  ASSUME IInv, World \/ UNCHANGED vars
  PROVE  IInv'
<1>1. /\ UpstreamInv' /\ BuyerTypeOK' /\ UNCHANGED buyerVars
      /\ listed' = listed /\ last_good' = last_good /\ answer' = answer
      /\ \A t \in Threads : /\ call'[t] = NoCall <=> call[t] = NoCall
                            /\ call[t] # NoCall => /\ call'[t].op = call[t].op
                                                   /\ call'[t].agent = call[t].agent
                                                   /\ call'[t].outcome = call[t].outcome
  <2>1. UNCHANGED buyerVars /\ BuyerTypeOK'
    BY DEF World, vars, buyerVars, IInv, BuyerTypeOK
  <2>2. CASE Tick
    BY <2>1, <2>2, TickEffect DEF IInv
  <2>3. CASE UpOrDown \/ UNCHANGED vars
    <3>1. /\ up' \in BOOLEAN
          /\ UNCHANGED <<listed, cache_age, last_good, session_ok, probe_age, call, answer>>
      BY <2>3 DEF UpOrDown, vars, upstreamVars, IInv, UpstreamInv, UpstreamTypeOK
    <3> QED
      BY <2>1, <3>1 DEF IInv, UpstreamInv, UpstreamTypeOK, CachedIsGood
  <2> QED
    BY <2>2, <2>3 DEF World
<1>2. UNCHANGED <<pc, request, paid, outcome, basis, delisted>>
  BY <1>1 DEF buyerVars
<1>3. ASSUME NEW b \in Buyers PROVE BuyerInv(b)'
  <2>1. /\ BuyerInv(b)
        /\ call'[b] = NoCall <=> call[b] = NoCall
        /\ call[b] # NoCall => /\ call'[b].op = call[b].op /\ call'[b].agent = call[b].agent
                               /\ call'[b].outcome = call[b].outcome
    BY <1>1 DEF IInv, Buyers
  <2>2. CallMatches(b)'
    BY <1>2, <2>1 DEF BuyerInv, CallMatches
  <2>3. InProgress(b)' /\ Explained(b)'
    BY <1>2, <2>1 DEF BuyerInv, InProgress, Explained, NotFoundExcused
  <2>4. GateKnew(b)'
    BY <1>1, <1>2, <2>1 DEF BuyerInv, GateKnew, StillListed
  <2>5. RouteToldWhy(b)'
    BY <1>1, <1>2, <2>1 DEF BuyerInv, RouteToldWhy, NotFoundExcused
  <2> QED
    BY <2>2, <2>3, <2>4, <2>5 DEF BuyerInv
<1> QED
  BY <1>1, <1>3 DEF IInv

LEMMA RedeployStep ==
  ASSUME IInv, Redeploy
  PROVE  IInv'
<1>1. UpstreamInv' /\ \A t \in Threads : call'[t] = NoCall
  BY RestartEffect DEF IInv, Redeploy
<1>2. /\ UNCHANGED <<request, paid, basis, delisted>>
      /\ pc' = [b \in Buyers |-> "idle"]
      /\ outcome' = [b \in Buyers |-> IF pc[b] = "idle" THEN outcome[b] ELSE Dropped]
  BY DEF Redeploy
<1>3. BuyerTypeOK'
  BY <1>2 DEF IInv, BuyerTypeOK, Stages, Statuses
<1>4. ASSUME NEW b \in Buyers PROVE BuyerInv(b)'
  <2>1. pc'[b] = "idle" /\ call'[b] = NoCall /\ BuyerInv(b)
    BY <1>1, <1>2 DEF IInv, Buyers
  <2>2. outcome'[b] = Dropped \/ (pc[b] = "idle" /\ outcome'[b] = outcome[b])
    BY <1>2
  <2>3. Explained(b)'
    BY <1>2, <2>1, <2>2 DEF BuyerInv, Explained, NotFoundExcused
  <2> QED
    BY <2>1, <2>3 DEF BuyerInv, CallMatches, InProgress, GateKnew, RouteToldWhy, Passed
<1> QED
  BY <1>1, <1>3, <1>4 DEF IInv

LEMMA HandleStep ==
  ASSUME IInv, NEW b \in Buyers, Handle(b)
  PROVE  IInv'
<1>1. CASE GateProbe(b) \/ GateProbed(b)
  BY <1>1, GateProbeStep
<1>2. CASE GateParse(b)
  BY <1>2, GateParseStep
<1>3. CASE GateResolve(b) \/ GateResolved(b)
  BY <1>3, GateResolveStep
<1>4. CASE GateFetch(b)
  BY <1>4, GateFetchStep
<1>5. CASE GateFetched(b)
  BY <1>5, GateFetchedStep
<1>6. CASE AskPayment(b) \/ Settle(b)
  BY <1>6, PaymentStep
<1>7. CASE RouteParse(b)
  BY <1>7, RouteParseStep
<1>8. CASE RouteResolve(b) \/ RouteResolved(b)
  BY <1>8, RouteResolveStep
<1>9. CASE RouteFetch(b)
  BY <1>9, RouteFetchStep
<1>10. CASE RouteFetched(b)
  BY <1>10, RouteFetchedStep
<1>11. CASE Resume(b)
  BY <1>11, ReplyStep, ReturnStep DEF Resume
<1> QED
  BY <1>1, <1>2, <1>3, <1>4, <1>5, <1>6, <1>7, <1>8, <1>9, <1>10, <1>11 DEF Handle

LEMMA StepIInv == IInv /\ [Next]_vars => IInv'
<1> SUFFICES ASSUME IInv, [Next]_vars
             PROVE  IInv'
  OBVIOUS
<1>1. ASSUME NEW b \in Buyers, Handle(b) PROVE IInv'
  BY <1>1, HandleStep
<1>2. ASSUME NEW b \in Buyers, NEW r \in Requests, Ask(b, r) PROVE IInv'
  BY <1>2, AskStep
<1>3. ASSUME NEW a \in Agents, Relist(a) PROVE IInv'
  BY <1>3, RelistStep
<1>4. ASSUME World \/ UNCHANGED vars PROVE IInv'
  BY <1>4, WorldStep
<1>5. ASSUME Redeploy PROVE IInv'
  BY <1>5, RedeployStep
<1> QED
  BY <1>1, <1>2, <1>3, <1>4, <1>5 DEF Next

LEMMA InvariantHolds == Spec => []IInv
  BY InitIInv, StepIInv, PTL DEF Spec

(* Type correctness of the shared upstream state and of the handlers.      *)
THEOREM SaleTyped == Spec => []TypeOK
<1>1. IInv => TypeOK
  BY DEF IInv, UpstreamInv, TypeOK
<1> QED
  BY <1>1, InvariantHolds, PTL

(* Whatever buyers, marketplace, time and redeploys do between payment and *)
(* verdict: who paid and got none was cut off by a redeploy, had put two    *)
(* identifiers into one request, asked for an agent that left, asked by a  *)
(* name, or met an error of KYA's own once the agent was read.  No 502 is  *)
(* ever sold, and no 500 by an id for want of the marketplace.             *)
THEOREM PaidLossExplained == Spec => []PaidLossIsExplained
<1>1. IInv => PaidLossIsExplained
  BY DEF IInv, BuyerInv, Explained, NotFoundExcused, PaidLossIsExplained, BuyerTypeOK
<1> QED
  BY <1>1, InvariantHolds, PTL
=============================================================================
