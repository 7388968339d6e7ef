------------------------------- MODULE Upstream -------------------------------
(***************************************************************************)
(* oracle/data.py: reading the marketplace through the `onchainos`         *)
(* subprocess, and the three module globals every reader shares.           *)
(*                                                                         *)
(*   _cache          a read younger than CACHE_TTL is served again         *)
(*   _last_good      the last read that worked, kept without expiry        *)
(*   UPSTREAM_STATE  session_ok, what /health and the audit gate trust     *)
(*                                                                         *)
(* A thread starts a subprocess, the marketplace answers it at some        *)
(* moment (or the 30 s timeout does), and the thread resumes later to      *)
(* process the outcome: three steps, with other threads in between.        *)
(* Time is kept as ages that stop growing once nothing can tell them       *)
(* apart, so the model has no clock to run out.  One tick is the           *)
(* subprocess timeout.                                                     *)
(***************************************************************************)
EXTENDS Naturals

CONSTANTS
  Threads,      \* thread pool workers
  Agents,       \* agent ids a caller may name
  CACHE_TTL,    \* _CACHE_TTL, in ticks
  PROBE_TTL,    \* _PROBE_TTL, in ticks
  NoCall        \* a thread with no subprocess running

ASSUME TTLAssumption == CACHE_TTL \in Nat \ {0} /\ PROBE_TTL \in Nat \ {0}

VARIABLES
  up,           \* the session is valid and the marketplace answers in time
  listed,       \* the agents the marketplace has
  cache_age,    \* seconds since _cache[a] was written, CACHE_TTL when expired or absent
  last_good,    \* the agents with an entry in _last_good
  session_ok,   \* UPSTREAM_STATE["session_ok"]
  probe_age,    \* seconds since _probe_at, PROBE_TTL when a probe is due
  call,         \* the subprocess each thread is waiting for
  answer        \* what each thread was last told

upstreamVars == <<up, listed, cache_age, last_good, session_ok, probe_age, call, answer>>

CALL_TIMEOUT == 1

(* _PROBE_AGENT; which agent a probe reads makes no difference.            *)
PROBE_AGENT == CHOOSE a \in Agents : TRUE

Ops == {"probe", "fetch", "search"}

Outcomes == {"pending", "record", "empty", "fail"}

(* "record" was just read, "cached" is younger than CACHE_TTL, "fallback" *)
(* is what _last_good holds: the caller gets the same record for all three. *)
Kinds == {"none", "alive", "dead", "record", "cached", "fallback", "notfound", "error", "id"}

(* A running subprocess: for what, how it ended if it did, ticks since.     *)
Subprocess == [op : Ops, agent : Agents, outcome : Outcomes, age : 0..CALL_TIMEOUT]

ASSUME SubprocessAssumption == Agents # {} /\ NoCall \notin Subprocess

UpstreamTypeOK ==
  /\ up \in BOOLEAN
  /\ listed \subseteq Agents
  /\ cache_age \in [Agents -> 0..CACHE_TTL]
  /\ last_good \subseteq Agents
  /\ session_ok \in BOOLEAN
  /\ probe_age \in 0..PROBE_TTL
  /\ call \in [Threads -> Subprocess \cup {NoCall}]
  /\ answer \in [Threads -> Kinds]

UpstreamInit ==
  /\ up \in BOOLEAN
  /\ listed \in SUBSET Agents
  /\ cache_age = [a \in Agents |-> CACHE_TTL]
  /\ last_good = {}
  /\ session_ok = TRUE
  /\ probe_age = PROBE_TTL
  /\ call = [t \in Threads |-> NoCall]
  /\ answer = [t \in Threads |-> "none"]

-----------------------------------------------------------------------------
(* The subprocess.                                                         *)

Tell(t, kind) == answer' = [answer EXCEPT ![t] = kind]

Run(t, op, a) ==
  /\ call[t] = NoCall
  /\ call' = [call EXCEPT ![t] = [op |-> op, agent |-> a, outcome |-> "pending", age |-> 0]]
  /\ answer' = [answer EXCEPT ![t] = "none"]

(* The marketplace answers, or cannot: onchainos exits nonzero, prints no  *)
(* JSON, or is killed after its timeout; all become RuntimeError.          *)
Reply(t) ==
  /\ call[t] # NoCall
  /\ call[t].outcome = "pending"
  /\ call' = [call EXCEPT ![t].outcome =
                IF ~up THEN "fail" ELSE IF call[t].agent \in listed THEN "record" ELSE "empty"]
  /\ UNCHANGED <<up, listed, cache_age, last_good, session_ok, probe_age, answer>>

Finished(t, op) ==
  /\ call[t] # NoCall
  /\ call[t].op = op
  /\ call[t].outcome # "pending"
  /\ call' = [call EXCEPT ![t] = NoCall]

-----------------------------------------------------------------------------
(* probe_upstream(): the answer is the session flag, re-proved by a read   *)
(* when the last probe STARTED PROBE_TTL ago.  Any JSON the read returns   *)
(* counts, whether or not it lists the probed agent.                       *)

(* Mutant of ProbeCached: the first proof is good for ever.                *)
ProbeCachedForever(t) ==
  /\ call[t] = NoCall
  /\ Tell(t, IF session_ok THEN "alive" ELSE "dead")
  /\ UNCHANGED <<up, listed, cache_age, last_good, session_ok, probe_age, call>>

ProbeCached(t) ==
  /\ call[t] = NoCall
  /\ probe_age < PROBE_TTL
  /\ Tell(t, IF session_ok THEN "alive" ELSE "dead")
  /\ UNCHANGED <<up, listed, cache_age, last_good, session_ok, probe_age, call>>

ProbeStart(t) ==
  /\ probe_age = PROBE_TTL
  /\ Run(t, "probe", PROBE_AGENT)
  /\ probe_age' = 0
  /\ UNCHANGED <<up, listed, cache_age, last_good, session_ok>>

(* Mutants of ProbeReturn: a probe that failed, or one that worked, does   *)
(* not touch the flag.                                                     *)
ProbeReturnGreenOnly(t) ==
  /\ Finished(t, "probe")
  /\ session_ok' = (session_ok \/ call[t].outcome # "fail")
  /\ Tell(t, IF call[t].outcome # "fail" THEN "alive" ELSE "dead")
  /\ UNCHANGED <<up, listed, cache_age, last_good, probe_age>>

ProbeReturnRedOnly(t) ==
  /\ Finished(t, "probe")
  /\ session_ok' = (session_ok /\ call[t].outcome # "fail")
  /\ Tell(t, IF call[t].outcome # "fail" THEN "alive" ELSE "dead")
  /\ UNCHANGED <<up, listed, cache_age, last_good, probe_age>>

ProbeReturn(t) ==
  /\ Finished(t, "probe")
  /\ session_ok' = (call[t].outcome # "fail")
  /\ Tell(t, IF call[t].outcome # "fail" THEN "alive" ELSE "dead")
  /\ UNCHANGED <<up, listed, cache_age, last_good, probe_age>>

-----------------------------------------------------------------------------
(* fetch_agent(a): the cache, else a read; a failed read falls back on     *)
(* _last_good and raises RuntimeError only where that is empty.            *)

FetchCached(t, a) ==
  /\ call[t] = NoCall
  /\ cache_age[a] < CACHE_TTL
  /\ Tell(t, "cached")
  /\ UNCHANGED <<up, listed, cache_age, last_good, session_ok, probe_age, call>>

FetchStart(t, a) ==
  /\ cache_age[a] = CACHE_TTL
  /\ Run(t, "fetch", a)
  /\ UNCHANGED <<up, listed, cache_age, last_good, session_ok, probe_age>>

(* Mutant of FetchRecord: nothing is kept to fall back on.                 *)
FetchRecordForgetful(t) ==
  /\ Finished(t, "fetch")
  /\ call[t].outcome = "record"
  /\ cache_age' = [cache_age EXCEPT ![call[t].agent] = 0]
  /\ session_ok' = TRUE
  /\ Tell(t, "record")
  /\ UNCHANGED <<up, listed, last_good, probe_age>>

FetchRecord(t) ==
  /\ Finished(t, "fetch")
  /\ call[t].outcome = "record"
  /\ cache_age' = [cache_age EXCEPT ![call[t].agent] = 0]
  /\ last_good' = last_good \cup {call[t].agent}
  /\ session_ok' = TRUE
  /\ Tell(t, "record")
  /\ UNCHANGED <<up, listed, probe_age>>

(* AgentNotFound: the read worked, yet session_ok is left as it was.       *)
FetchEmpty(t) ==
  /\ Finished(t, "fetch")
  /\ call[t].outcome = "empty"
  /\ Tell(t, "notfound")
  /\ UNCHANGED <<up, listed, cache_age, last_good, session_ok, probe_age>>

FetchFail(t) ==
  /\ Finished(t, "fetch")
  /\ call[t].outcome = "fail"
  /\ session_ok' = FALSE
  /\ Tell(t, IF call[t].agent \in last_good THEN "fallback" ELSE "error")
  /\ UNCHANGED <<up, listed, cache_age, last_good, probe_age>>

FetchReturn(t) == FetchRecord(t) \/ FetchEmpty(t) \/ FetchFail(t)

-----------------------------------------------------------------------------
(* resolve_agent_id(name): a marketplace search and an exact match.  The   *)
(* model writes a name as the id it belongs to.  It never touches the      *)
(* shared state, even when the search fails.                               *)

SearchStart(t, a) ==
  /\ Run(t, "search", a)
  /\ UNCHANGED <<up, listed, cache_age, last_good, session_ok, probe_age>>

SearchReturn(t) ==
  /\ Finished(t, "search")
  /\ Tell(t, CASE call[t].outcome = "record" -> "id"
               [] call[t].outcome = "empty" -> "notfound"
               [] call[t].outcome = "fail" -> "error")
  /\ UNCHANGED <<up, listed, cache_age, last_good, session_ok, probe_age>>

-----------------------------------------------------------------------------
(* The world.                                                              *)

UpOrDown ==
  /\ up' = ~up
  /\ UNCHANGED <<listed, cache_age, last_good, session_ok, probe_age, call, answer>>

ListOrDelist(a) ==
  /\ listed' = IF a \in listed THEN listed \ {a} ELSE listed \cup {a}
  /\ UNCHANGED <<up, cache_age, last_good, session_ok, probe_age, call, answer>>

Older(age, bound) == IF age < bound THEN age + 1 ELSE bound

(* Mutant of Tick: a subprocess without a timeout.                         *)
TickPastTimeout ==
  /\ cache_age' = [a \in Agents |-> Older(cache_age[a], CACHE_TTL)]
  /\ probe_age' = Older(probe_age, PROBE_TTL)
  /\ call' = [t \in Threads |-> IF call[t] = NoCall THEN NoCall
                                ELSE [call[t] EXCEPT !.age = @ + 1]]
  /\ UNCHANGED <<up, listed, last_good, session_ok, answer>>

(* Time passes; no subprocess outlives its timeout unanswered, and no      *)
(* thread is kept from processing an answer for longer than that.          *)
Tick ==
  /\ \A t \in Threads : call[t] # NoCall => call[t].age < CALL_TIMEOUT
  /\ cache_age' = [a \in Agents |-> Older(cache_age[a], CACHE_TTL)]
  /\ probe_age' = Older(probe_age, PROBE_TTL)
  /\ call' = [t \in Threads |-> IF call[t] = NoCall THEN NoCall
                                ELSE [call[t] EXCEPT !.age = @ + 1]]
  /\ UNCHANGED <<up, listed, last_good, session_ok, answer>>

(* The container restarts: every global is initialised again.              *)
Restart ==
  /\ cache_age' = [a \in Agents |-> CACHE_TTL]
  /\ last_good' = {}
  /\ session_ok' = TRUE
  /\ probe_age' = PROBE_TTL
  /\ call' = [t \in Threads |-> NoCall]
  /\ answer' = [t \in Threads |-> "none"]
  /\ UNCHANGED <<up, listed>>
=============================================================================
