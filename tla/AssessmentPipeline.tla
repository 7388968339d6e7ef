------------------------- MODULE AssessmentPipeline -------------------------
(***************************************************************************)
(* oracle/verify.py, assess(), between the marketplace and the store, by   *)
(* several pool workers at once: read the record, probe the endpoint, read *)
(* the rolling uptime, index the owner, read the owner's fleet, and at     *)
(* last record the probe.  Each step that touches the store is a           *)
(* connection of its own.  scripts/index_owners.py writes the same index.  *)
(*                                                                         *)
(* An agent's public record goes through the versions of its life: who     *)
(* owns it, what it sold, at which endpoint it serves.                     *)
(***************************************************************************)
EXTENDS Integers, Sequences, FiniteSets, FiniteSetsExt, Functions

CONSTANTS
    Workers, Agents, Owners, Endpoints,
    NoOwner,        \* a record without ownerAddress
    NoEndpoint,     \* an agent that lists none
    NoRow,          \* an agent that is not in the owner index
    NoJob,          \* a worker that assesses nobody
    Lives,          \* the lives the agents may have; <<>>: never listed
    MIN_SAMPLES,    \* uptime() judges from so many samples on (5)
    WINDOW,         \* and looks so far back (7 days), in ticks
    ASSESS_TIME,    \* no assessment takes longer, in ticks
    RATE,           \* bound: assessments of an agent within a tick
    Failing         \* bound: the endpoints that may go down

Version == [owner : Owners \cup {NoOwner}, sold : Nat, endpoint : Endpoints \cup {NoEndpoint}]

ASSUME PipelineAssumption ==
    /\ NoOwner \notin Owners /\ NoEndpoint \notin Endpoints
    /\ Failing \subseteq Endpoints /\ IsFiniteSet(Endpoints) /\ IsFiniteSet(Workers)
    /\ NoRow \notin [owner : Owners, sold : Nat]
    /\ Lives \subseteq [Agents -> Seq(Version)]
    /\ {MIN_SAMPLES, WINDOW, ASSESS_TIME, RATE} \subseteq Nat

VARIABLES
    life, now,       \* the marketplace: the lives, and each agent's version
    serving,         \* endpoints that answer
    sinceDown,       \* history: ticks since each last did not
    cache,           \* _cache and _last_good: the version read last, or 0
    agent_owners,    \* the owner index: a row per agent
    probe_samples,   \* per agent, endpoint and age in ticks: samples healthy or not
    batch,           \* versions the owner sweep has read and not written
    pc, job          \* the workers

world == <<life, now, serving, sinceDown>>
tables == <<agent_owners, probe_samples>>
vars == <<world, cache, tables, batch, pc, job>>

Horizon == WINDOW + 2 * ASSESS_TIME + 1   \* sinceDown stops counting
Aged == WINDOW + 1                        \* all samples out of the window

-----------------------------------------------------------------------------
Lesser(m, n) == IF m < n THEN m ELSE n

Info(w) == life[job[w].agent][job[w].info]
Hosted(w) == Info(w).endpoint # NoEndpoint
Listed(a) == {life[a][v].endpoint : v \in DOMAIN life[a] \cap 1..now[a]}
Busy(a) == {w \in Workers : pc[w] # "idle" /\ job[w].agent = a}

(* The row an upsert leaves: every column but the key is overwritten.      *)
RowOf(v) == [owner |-> v.owner, sold |-> v.sold]

(* Mutant of Upsert: the sales of a row that exists are left alone.        *)
UpsertKeepingSold(a, v) ==
    IF agent_owners[a] = NoRow THEN RowOf(v)
    ELSE [owner |-> v.owner, sold |-> agent_owners[a].sold]

(* Mutant of Upsert: ON CONFLICT DO NOTHING.                               *)
UpsertOnce(a, v) == IF agent_owners[a] = NoRow THEN RowOf(v) ELSE agent_owners[a]

Upsert(a, v) == RowOf(v)

(* record_owner(): nothing without an owner.  History: a worker between    *)
(* its own write and its verdict learns that its row went to another owner.*)
RecordOwner(a, v) ==
    agent_owners' = IF v.owner = NoOwner THEN agent_owners
                    ELSE [agent_owners EXCEPT ![a] = Upsert(a, v)]

Rewritten(w, a, v) ==
    \/ job[w].rewritten
    \/ /\ pc[w] \in {"indexed", "judged"} /\ job[w].agent = a
       /\ v.owner \notin {NoOwner, Info(w).owner}

(* Mutant of FleetFor: an assessment commits its row when it ends.         *)
FleetForEnded(owner) ==
    {a \in Agents : /\ agent_owners[a] # NoRow /\ agent_owners[a].owner = owner
                    /\ Busy(a) = {}}

FleetFor(owner) ==
    {a \in Agents : agent_owners[a] # NoRow /\ agent_owners[a].owner = owner}

-----------------------------------------------------------------------------
(* uptime(): the samples of an agent that are not older than the window.   *)

(* Mutant of InWindow: the lifetime average.                               *)
Lifetime == 0..Aged

InWindow == 0..WINDOW

Healthy(a, e) == SumFunctionOnSet(probe_samples[a][e].healthy, InWindow)
Samples(a, e) == Healthy(a, e) + SumFunctionOnSet(probe_samples[a][e].failed, InWindow)

(* Availability, rounded to three decimals, under 95%.                     *)
Unreliable(a, e) ==
    /\ Samples(a, e) >= MIN_SAMPLES /\ Samples(a, e) > 0
    /\ (2000 * Healthy(a, e) + Samples(a, e)) \div (2 * Samples(a, e)) < 950

(* engine.py:220-226: the worst endpoint of the history, which has those   *)
(* the agent no longer lists.                                              *)
Flapping(a) == \E e \in Endpoints : Unreliable(a, e)

-----------------------------------------------------------------------------
NoSamples == [i \in 0..Aged |-> 0]

Init ==
    /\ life \in Lives
    /\ now = [a \in Agents |-> 1]
    /\ serving = Endpoints
    /\ sinceDown = [e \in Endpoints |-> Horizon]
    /\ cache = [a \in Agents |-> 0]
    /\ agent_owners = [a \in Agents |-> NoRow]
    /\ probe_samples = [a \in Agents |-> [e \in Endpoints |->
                           [healthy |-> NoSamples, failed |-> NoSamples]]]
    /\ batch = [a \in Agents |-> 0]
    /\ pc = [w \in Workers |-> "idle"]
    /\ job = [w \in Workers |-> NoJob]

(* The worker goes on to the next stage, with what it learned.             *)
Goes(w, stage, with) ==
    /\ pc' = [pc EXCEPT ![w] = stage]
    /\ job' = [job EXCEPT ![w] = with]

(* fetch_agent(): the record of now, or the one in memory, which is still  *)
(* fresh enough or, upstream being down, the last good one.                *)
Fetched(w, a, v) ==
    /\ pc[w] = "idle"
    /\ v \in DOMAIN life[a]
    /\ MapThenSumSet(LAMBDA e : probe_samples[a][e].healthy[0]
                                  + probe_samples[a][e].failed[0], Endpoints)
         + Cardinality(Busy(a)) < RATE
    /\ Goes(w, "fetched", [agent |-> a, info |-> v, up |-> FALSE, flapping |-> FALSE,
                           fleet |-> {}, rewritten |-> FALSE, age |-> 0])
    /\ cache' = [cache EXCEPT ![a] = v]
    /\ UNCHANGED <<world, tables, batch>>

FetchFresh(w, a) == Fetched(w, a, now[a])
FetchKnown(w, a) == Fetched(w, a, cache[a])

Probe(w) ==
    /\ pc[w] = "fetched"
    /\ Goes(w, "probed", [job[w] EXCEPT !.up = Info(w).endpoint \in serving])
    /\ UNCHANGED <<world, cache, tables, batch>>

ReadUptime(w) ==
    /\ pc[w] = "probed"
    /\ Goes(w, "dated",
            [job[w] EXCEPT !.flapping = Hosted(w) /\ Flapping(job[w].agent)])
    /\ UNCHANGED <<world, cache, tables, batch>>

IndexOwner(w) ==
    /\ pc[w] = "dated"
    /\ RecordOwner(job[w].agent, Info(w))
    /\ pc' = [pc EXCEPT ![w] = "indexed"]
    /\ job' = [x \in Workers |-> IF pc[x] = "idle" THEN job[x]
                 ELSE [job[x] EXCEPT !.rewritten = Rewritten(x, job[w].agent, Info(w))]]
    /\ UNCHANGED <<world, cache, probe_samples, batch>>

ReadFleet(w) ==
    /\ pc[w] = "indexed"
    /\ Goes(w, "judged", [job[w] EXCEPT !.fleet = FleetFor(Info(w).owner)])
    /\ UNCHANGED <<world, cache, tables, batch>>

(* Mutant of RecordProbes: an insert is retried that had been committed.   *)
RecordProbesTwice(w) ==
    LET a == job[w].agent
        kind == IF job[w].up THEN "healthy" ELSE "failed"
    IN  /\ pc[w] = "judged"
        /\ probe_samples' = IF Hosted(w)
                            THEN [probe_samples EXCEPT ![a][Info(w).endpoint][kind][0] = @ + 2]
                            ELSE probe_samples
        /\ Goes(w, "idle", NoJob)
        /\ UNCHANGED <<world, cache, agent_owners, batch>>

(* record_probes(), stamped now and not when the probe was made; record()  *)
(* and the reply are those of VerifyService.                               *)
RecordProbes(w) ==
    LET a == job[w].agent
        kind == IF job[w].up THEN "healthy" ELSE "failed"
    IN  /\ pc[w] = "judged"
        /\ probe_samples' = IF Hosted(w)
                            THEN [probe_samples EXCEPT ![a][Info(w).endpoint][kind][0] = @ + 1]
                            ELSE probe_samples
        /\ Goes(w, "idle", NoJob)
        /\ UNCHANGED <<world, cache, agent_owners, batch>>

(* A source or the database raises: what is committed stays.               *)
Abort(w) ==
    /\ pc[w] # "idle"
    /\ Goes(w, "idle", NoJob)
    /\ UNCHANGED <<world, cache, tables, batch>>

Restart ==
    /\ cache' = [a \in Agents |-> 0]
    /\ pc' = [w \in Workers |-> "idle"]
    /\ job' = [w \in Workers |-> NoJob]
    /\ UNCHANGED <<world, tables, batch>>

-----------------------------------------------------------------------------
(* The owner sweep: a chunk of records is read, then written one by one,   *)
(* but for those without an owner.                                         *)
Owned(a) == life[a] # <<>> /\ life[a][now[a]].owner # NoOwner

SweepRead ==
    /\ \A a \in Agents : batch[a] = 0
    /\ batch' = [a \in Agents |-> IF Owned(a) THEN now[a] ELSE 0]
    /\ UNCHANGED <<world, cache, tables, pc, job>>

SweepWrite(a) ==
    /\ batch[a] # 0
    /\ RecordOwner(a, life[a][batch[a]])
    /\ batch' = [batch EXCEPT ![a] = 0]
    /\ job' = [x \in Workers |-> IF pc[x] = "idle" THEN job[x]
                 ELSE [job[x] EXCEPT !.rewritten = Rewritten(x, a, life[a][batch[a]])]]
    /\ UNCHANGED <<world, cache, probe_samples, pc>>

-----------------------------------------------------------------------------
(* The marketplace: a record changes, an endpoint goes down or comes back. *)
Changes(a) ==
    /\ now[a] < Len(life[a])
    /\ now' = [now EXCEPT ![a] = @ + 1]
    /\ UNCHANGED <<life, serving, sinceDown, cache, tables, batch, pc, job>>

GoesDown(e) ==
    /\ e \in serving \cap Failing /\ \E a \in Agents : e \in Listed(a)
    /\ serving' = serving \ {e}
    /\ sinceDown' = [sinceDown EXCEPT ![e] = 0]
    /\ UNCHANGED <<life, now, cache, tables, batch, pc, job>>

ComesBack(e) ==
    /\ e \notin serving
    /\ serving' = serving \cup {e}
    /\ UNCHANGED <<life, now, sinceDown, cache, tables, batch, pc, job>>

Older(f) ==
    [i \in 0..Aged |-> IF i = 0 THEN 0
                       ELSE IF i = Aged THEN Lesser(f[WINDOW] + f[Aged], RATE)
                       ELSE f[i - 1]]

Tick ==
    /\ \A w \in Workers : pc[w] # "idle" => job[w].age < ASSESS_TIME
    /\ job' = [w \in Workers |-> IF pc[w] = "idle" THEN job[w]
                                 ELSE [job[w] EXCEPT !.age = @ + 1]]
    /\ probe_samples' = [a \in Agents |-> [e \in Endpoints |->
                            [healthy |-> Older(probe_samples[a][e].healthy),
                             failed |-> Older(probe_samples[a][e].failed)]]]
    /\ sinceDown' = [e \in Endpoints |-> IF e \in serving
                       THEN Lesser(sinceDown[e] + 1, Horizon) ELSE 0]
    /\ UNCHANGED <<life, now, serving, cache, agent_owners, batch, pc>>

Works(w) ==
    \/ Probe(w) \/ ReadUptime(w) \/ IndexOwner(w) \/ ReadFleet(w) \/ RecordProbes(w)

Next ==
    \/ \E w \in Workers : Works(w) \/ Abort(w)
    \/ \E w \in Workers, a \in Agents : FetchFresh(w, a) \/ FetchKnown(w, a)
    \/ \E a \in Agents : SweepWrite(a) \/ Changes(a)
    \/ \E e \in Endpoints : GoesDown(e) \/ ComesBack(e)
    \/ SweepRead \/ Restart \/ Tick

Spec == Init /\ [][Next]_vars

(* Every source has a timeout: an assessment moves on, and clocks run.     *)
LiveSpec == Spec /\ WF_vars(Tick) /\ \A w \in Workers : WF_vars(Works(w))

-----------------------------------------------------------------------------
TypeOK ==
    /\ life \in Lives /\ now \in [Agents -> Nat \ {0}] /\ serving \subseteq Endpoints
    /\ sinceDown \in [Endpoints -> 0..Horizon]
    /\ \A a \in Agents : {cache[a], batch[a]} \subseteq 0..now[a]
    /\ agent_owners \in [Agents -> [owner : Owners, sold : Nat] \cup {NoRow}]
    /\ \A a \in Agents, e \in Endpoints : \A i \in 0..Aged :
          {probe_samples[a][e].healthy[i], probe_samples[a][e].failed[i]} \subseteq 0..RATE
    /\ \A w \in Workers :
          \/ pc[w] = "idle" /\ job[w] = NoJob
          \/ /\ pc[w] \in {"fetched", "probed", "dated", "indexed", "judged"}
             /\ job[w].agent \in Agents /\ job[w].info \in 1..now[job[w].agent]
             /\ job[w].fleet \subseteq Agents /\ job[w].age \in 0..ASSESS_TIME

(* verify.py:28-31: of two siblings assessed at the same time at least one *)
(* is judged with the other in its fleet, and every agent with itself,     *)
(* unless somebody who read another owner has written the row since.       *)
SiblingsMeet ==
    \A w, x \in Workers :
        /\ pc[w] = "judged" /\ pc[x] = "judged"
        /\ Info(w).owner = Info(x).owner /\ Info(w).owner # NoOwner
        => \/ job[x].agent \in job[w].fleet \/ job[w].agent \in job[x].fleet
           \/ job[w].rewritten \/ job[x].rewritten

(* store.py:281-287, the index never invents: each row is what the         *)
(* marketplace said of the agent at some one time, whoever wrote it last.  *)
RowsWereTrue ==
    \A a \in Agents : agent_owners[a] # NoRow =>
        \E v \in 1..now[a] : /\ agent_owners[a].owner = life[a][v].owner
                             /\ agent_owners[a].sold = life[a][v].sold

(* store.py:183-201: an agent is called flapping only if an endpoint it    *)
(* lists, or did, was down within the window and the time two assessments  *)
(* take, the one that stamped the sample and the one that judges it.       *)
FlappingWasDown ==
    \A w \in Workers : pc[w] # "idle" /\ job[w].flapping =>
        \E e \in Listed(job[w].agent) \ {NoEndpoint} : sinceDown[e] < Horizon

(* store.py:190-196: an agent is forgiven, assessed or not, once what is   *)
(* assessed of it serves: whether the endpoint came back, or the agent     *)
(* left it for another and it stays down for ever.                         *)
RecoveryIsForgiven ==
    \A a \in Agents :
        <>[](\A w \in Busy(a) : Hosted(w) => Info(w).endpoint \in serving) =>
            <>[](\A w \in Busy(a) : ~job[w].flapping)

Indexed(a) == Owned(a) => agent_owners[a] = RowOf(life[a][now[a]])

(* However late assessments and sweeps write what they read, the index     *)
(* ends at what the marketplace says, if each agent goes on being read     *)
(* afresh and judged.  Of an agent that lost its owner nothing is said: it *)
(* keeps its last row for ever, as record_owner() is not called for it and *)
(* the sweep skips it (verify.py:35, index_owners.py:71).                  *)
IndexCatchesUp ==
    \A a \in Agents :
        /\ []<><<\E w \in Workers : FetchFresh(w, a)>>_vars
        /\ []<>(\E w \in Busy(a) : pc[w] = "judged")
        => <>[]Indexed(a)
=============================================================================
