--------------------------- MODULE UpstreamReaders ---------------------------
(***************************************************************************)
(* The shared upstream state under everything that reads it at once:       *)
(* /health probes, verdicts fetch agents, callers' names are searched.     *)
(* Answers the question /health is there for: does session_ok follow the   *)
(* marketplace, and how old can the proof behind a "yes" be?               *)
(***************************************************************************)
EXTENDS Upstream

CONSTANT Monitors    \* threads that serve whoever polls /health, and nothing else

ASSUME MonitorsAssumption == Monitors \subseteq Threads

VARIABLE proof_age   \* history: since the marketplace last answered a read

readersVars == <<upstreamVars, proof_age>>

(* proof_age stops here: older than the probe cache and a read allow for.  *)
HORIZON == PROBE_TTL + CALL_TIMEOUT

ReadersTypeOK ==
  /\ UpstreamTypeOK
  /\ proof_age \in 0..HORIZON

ReadersInit ==
  /\ UpstreamInit
  /\ proof_age = HORIZON

Replied(t) ==
  /\ Reply(t)
  /\ proof_age' = IF up THEN 0 ELSE proof_age

Probe(t) == (ProbeCached(t) \/ ProbeStart(t)) /\ UNCHANGED proof_age

Fetch(t) == \E a \in Agents : (FetchCached(t, a) \/ FetchStart(t, a)) /\ UNCHANGED proof_age

Search(t) == \E a \in Agents : SearchStart(t, a) /\ UNCHANGED proof_age

Return(t) == (ProbeReturn(t) \/ FetchReturn(t) \/ SearchReturn(t)) /\ UNCHANGED proof_age

TimePasses == Tick /\ proof_age' = Older(proof_age, HORIZON)

ReadersWorld == (UpOrDown \/ \E a \in Agents : ListOrDelist(a)) /\ UNCHANGED proof_age

Reboot == Restart /\ UNCHANGED proof_age

ReadersNext ==
  \/ \E t \in Threads : Probe(t) \/ Replied(t) \/ Return(t)
  \/ \E t \in Threads \ Monitors : Fetch(t) \/ Search(t)
  \/ ReadersWorld
  \/ TimePasses
  \/ Reboot

ReadersSpec == ReadersInit /\ [][ReadersNext]_readersVars

(* Time passes, subprocesses finish (the 30 s timeout sees to it) and the   *)
(* platform's health check keeps polling.                                   *)
ReadersFairness ==
  /\ WF_readersVars(TimePasses)
  /\ \A t \in Threads : WF_readersVars(Replied(t) \/ Return(t))
  /\ \A m \in Monitors : WF_readersVars(Probe(m))

ReadersLiveSpec == ReadersSpec /\ ReadersFairness

-----------------------------------------------------------------------------
ProbeInFlight(t) == \E u \in Threads \ {t} : call[u] # NoCall /\ call[u].op = "probe"

(* data.py:59: "True when the upstream read path works right now (cached    *)
(* for _PROBE_TTL seconds)".  A "yes" rests on a read the marketplace       *)
(* answered at most PROBE_TTL and one subprocess timeout ago, whichever     *)
(* late results overwrote the flag; the one exception is a "yes" told while *)
(* another thread's probe is still out, which repeats the old flag.         *)
YesIsRecent ==
  [][\A t \in Threads :
       (ProbeCached(t) \/ ProbeReturn(t)) /\ answer'[t] = "alive" =>
         proof_age < HORIZON \/ ProbeInFlight(t)]_readersVars

(* /health goes red by itself: a marketplace that stays down is eventually  *)
(* reported down for good, whatever reads were in flight when it went       *)
(* (app.py:215-234, data.py:53-55).                                         *)
HealthTurnsRed == <>[](~up) /\ <>[][~Reboot]_readersVars => <>[](~session_ok)

(* /health recovers by itself: once the marketplace stays up the flag is    *)
(* eventually green for good, with no restart (data.py:68,129).             *)
HealthTurnsGreen == <>[]up => <>[]session_ok
=============================================================================
