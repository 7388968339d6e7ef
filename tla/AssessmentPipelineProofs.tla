---------------------- MODULE AssessmentPipelineProofs ----------------------
(***************************************************************************)
(* The owner index under any number of workers, agents and owners, with    *)
(* the sweep writing it too: its rows were true at some time, and siblings *)
(* assessed at once cannot both miss one another.  And the uptime: who is  *)
(* called flapping has failed.                                             *)
(***************************************************************************)
EXTENDS AssessmentPipeline, Sums, TLAPS

Stages == {"idle", "fetched", "probed", "dated", "indexed", "judged"}
Assessment == [agent : Agents, info : Nat, up : BOOLEAN, flapping : BOOLEAN,
               fleet : SUBSET Agents, rewritten : BOOLEAN, age : Nat]
Rows == [owner : Owners, sold : Nat]

(* The marketplace and what was read of it: versions there have been.      *)
WasListed(a, v) == v \in 1..now[a] /\ v \in DOMAIN life[a]

WorldOK ==
    /\ life \in [Agents -> Seq(Version)] /\ now \in [Agents -> Nat \ {0}]
    /\ \A a \in Agents : life[a] # <<>> => now[a] \in DOMAIN life[a]
    /\ cache \in [Agents -> Nat] /\ \A a \in Agents : cache[a] <= now[a]
    /\ batch \in [Agents -> Nat] /\ \A a \in Agents : batch[a] # 0 => WasListed(a, batch[a])
    /\ agent_owners \in [Agents -> Rows \cup {NoRow}]

WorkersOK ==
    /\ pc \in [Workers -> Stages] /\ job \in [Workers -> Assessment \cup {NoJob}]
    /\ \A w \in Workers : pc[w] # "idle" =>
          job[w] \in Assessment /\ WasListed(job[w].agent, job[w].info)

(* Until somebody writes another owner, a worker's own row is there.       *)
RowsOwned ==
    \A w \in Workers :
        /\ pc[w] \in {"indexed", "judged"} /\ ~job[w].rewritten
        /\ life[job[w].agent][job[w].info].owner # NoOwner
        => /\ agent_owners[job[w].agent] # NoRow
           /\ agent_owners[job[w].agent].owner = life[job[w].agent][job[w].info].owner

PipelineInv == WorldOK /\ WorkersOK /\ RowsOwned /\ RowsWereTrue /\ SiblingsMeet

LEMMA PipelineInit == Init => PipelineInv
<1> SUFFICES ASSUME Init PROVE PipelineInv OBVIOUS
<1>1. WorldOK
  <2>1. life \in [Agents -> Seq(Version)] BY PipelineAssumption DEF Init
  <2>2. ASSUME NEW a \in Agents, life[a] # <<>> PROVE now[a] \in DOMAIN life[a]
    <3>1. life[a] \in Seq(Version) BY <2>1
    <3>2. now[a] = 1 BY DEF Init
    <3> QED BY <2>2, <3>1, <3>2
  <2> QED BY <2>1, <2>2 DEF Init, WorldOK
<1>2. WorkersOK BY DEF Init, WorkersOK, Stages
<1>3. RowsOwned /\ SiblingsMeet BY DEF Init, RowsOwned, SiblingsMeet
<1>4. RowsWereTrue BY DEF Init, RowsWereTrue
<1> QED BY <1>1, <1>2, <1>3, <1>4 DEF PipelineInv

-----------------------------------------------------------------------------
(* A step that touches neither the index nor the versions read: what is    *)
(* left to show is that the workers' own assessments stay in order.        *)
LEMMA IndexUntouched ==
    ASSUME PipelineInv, WorldOK', WorkersOK', UNCHANGED <<life, agent_owners>>,
           \A a \in Agents : now'[a] >= now[a],
           \A w \in Workers :
             \/ pc'[w] \notin {"indexed", "judged"}
             \/ /\ pc'[w] = pc[w]
                /\ job'[w].agent = job[w].agent /\ job'[w].info = job[w].info
                /\ job'[w].fleet = job[w].fleet /\ job'[w].rewritten = job[w].rewritten
    PROVE  PipelineInv'
<1>1. WorldOK /\ WorkersOK /\ RowsOwned /\ RowsWereTrue /\ SiblingsMeet BY DEF PipelineInv
<1>2. RowsOwned' BY <1>1 DEF RowsOwned
<1>3. RowsWereTrue'
  <2> SUFFICES ASSUME NEW a \in Agents, agent_owners[a] # NoRow
               PROVE  \E v \in 1..now'[a] : /\ agent_owners[a].owner = life[a][v].owner
                                            /\ agent_owners[a].sold = life[a][v].sold
    BY DEF RowsWereTrue
  <2>1. PICK v \in 1..now[a] : /\ agent_owners[a].owner = life[a][v].owner
                               /\ agent_owners[a].sold = life[a][v].sold
    BY <1>1 DEF RowsWereTrue
  <2>2. v \in 1..now'[a] BY <1>1 DEF WorldOK
  <2> QED BY <2>1, <2>2
<1>4. SiblingsMeet'
  <2> SUFFICES ASSUME NEW w \in Workers, NEW x \in Workers,
                      pc'[w] = "judged", pc'[x] = "judged",
                      Info(w)'.owner = Info(x)'.owner, Info(w)'.owner # NoOwner
               PROVE  \/ job'[x].agent \in job'[w].fleet \/ job'[w].agent \in job'[x].fleet
                      \/ job'[w].rewritten \/ job'[x].rewritten
    BY DEF SiblingsMeet
  <2>1. Info(w)' = Info(w) /\ Info(x)' = Info(x) BY DEF Info
  <2> QED BY <1>1, <2>1 DEF SiblingsMeet
<1> QED BY <1>2, <1>3, <1>4 DEF PipelineInv

(* One worker goes on to another stage; the marketplace stands still.      *)
LEMMA OneWorkerMoves ==
    ASSUME WorkersOK, NEW w \in Workers, NEW s \in Stages, NEW j \in Assessment \cup {NoJob},
           s # "idle" => j \in Assessment /\ WasListed(j.agent, j.info),
           Goes(w, s, j), UNCHANGED <<life, now>>
    PROVE  /\ WorkersOK'
           /\ pc'[w] = s /\ job'[w] = j
           /\ \A x \in Workers \ {w} : pc'[x] = pc[x] /\ job'[x] = job[x]
<1>1. pc' = [pc EXCEPT ![w] = s] /\ job' = [job EXCEPT ![w] = j] BY DEF Goes
<1>2. pc \in [Workers -> Stages] /\ job \in [Workers -> Assessment \cup {NoJob}]
  BY DEF WorkersOK
<1>3. /\ pc'[w] = s /\ job'[w] = j
      /\ \A x \in Workers \ {w} : pc'[x] = pc[x] /\ job'[x] = job[x]
  BY <1>1, <1>2
<1>4. pc' \in [Workers -> Stages] /\ job' \in [Workers -> Assessment \cup {NoJob}]
  BY <1>1, <1>2
<1>5. ASSUME NEW x \in Workers, pc'[x] # "idle"
      PROVE  job'[x] \in Assessment /\ WasListed(job'[x].agent, job'[x].info)
  <2>1. CASE x = w BY <2>1, <1>3, <1>5
  <2>2. CASE x # w BY <2>2, <1>3, <1>5 DEF WorkersOK
  <2> QED BY <2>1, <2>2
<1> QED BY <1>3, <1>4, <1>5 DEF WorkersOK, WasListed

LEMMA FetchedKeeps ==
    ASSUME PipelineInv, NEW w \in Workers, NEW a \in Agents,
           NEW v \in {now[a], cache[a]}, Fetched(w, a, v)
    PROVE  PipelineInv'
<1>1. WorldOK /\ WorkersOK BY DEF PipelineInv
<1> DEFINE j == [agent |-> a, info |-> v, up |-> FALSE, flapping |-> FALSE,
                 fleet |-> {}, rewritten |-> FALSE, age |-> 0]
<1>2. Goes(w, "fetched", j) /\ UNCHANGED <<life, now, agent_owners, batch>>
  BY DEF Fetched, world, tables
<1>3. v \in Nat /\ WasListed(a, v)
  <2>1. v \in DOMAIN life[a] BY DEF Fetched
  <2>2. life[a] \in Seq(Version) BY <1>1 DEF WorldOK
  <2>3. v >= 1 BY <2>1, <2>2
  <2>4. v \in Nat /\ v <= now[a] BY <1>1 DEF WorldOK
  <2>5. now[a] \in Nat BY <1>1 DEF WorldOK
  <2> QED BY <2>1, <2>3, <2>4, <2>5 DEF WasListed
<1>4. j \in Assessment /\ j.agent = a /\ j.info = v BY <1>3 DEF Assessment
<1> HIDE DEF j
<1>5. "fetched" \in Stages BY DEF Stages
<1>6. /\ WorkersOK' /\ pc'[w] = "fetched"
      /\ \A x \in Workers \ {w} : pc'[x] = pc[x] /\ job'[x] = job[x]
  BY <1>1, <1>2, <1>3, <1>4, <1>5, OneWorkerMoves
<1>7. WorldOK'
  <2>1. cache' = [cache EXCEPT ![a] = v] BY DEF Fetched
  <2>2. cache' \in [Agents -> Nat] /\ \A b \in Agents : cache'[b] <= now[b]
    BY <1>1, <1>3, <2>1 DEF WorldOK, WasListed
  <2> QED BY <1>1, <1>2, <2>2 DEF WorldOK, WasListed
<1>8. \A x \in Workers : now'[a] = now[a] BY <1>2
<1> QED BY <1>1, <1>2, <1>6, <1>7, IndexUntouched DEF WorldOK

(* Probing, reading the uptime, recording the probe, giving up: the index  *)
(* is neither read nor written.                                            *)
LEMMA QuietWorkKeeps ==
    ASSUME PipelineInv, NEW w \in Workers,
           Probe(w) \/ ReadUptime(w) \/ RecordProbes(w) \/ Abort(w)
    PROVE  PipelineInv'
<1>1. WorldOK /\ WorkersOK BY DEF PipelineInv
<1>2. UNCHANGED <<life, now, cache, agent_owners, batch>>
  BY DEF Probe, ReadUptime, RecordProbes, Abort, world, tables
<1>3. PICK s \in {"probed", "dated", "idle"} :
        \E j \in Assessment \cup {NoJob} :
          /\ Goes(w, s, j)
          /\ s # "idle" => j \in Assessment /\ WasListed(j.agent, j.info)
  <2>1. CASE Probe(w) \/ ReadUptime(w)
    <3>1. job[w] \in Assessment /\ WasListed(job[w].agent, job[w].info)
      BY <1>1, <2>1 DEF Probe, ReadUptime, WorkersOK
    <3>2. CASE Probe(w)
      <4> DEFINE b == Info(w).endpoint \in serving
      <4>1. b \in BOOLEAN OBVIOUS
      <4>2. Goes(w, "probed", [job[w] EXCEPT !.up = b]) BY <3>2 DEF Probe
      <4> HIDE DEF b
      <4>3. /\ [job[w] EXCEPT !.up = b] \in Assessment
            /\ [job[w] EXCEPT !.up = b].agent = job[w].agent
            /\ [job[w] EXCEPT !.up = b].info = job[w].info
        BY <3>1, <4>1 DEF Assessment
      <4> QED BY <3>1, <4>2, <4>3
    <3>3. CASE ReadUptime(w)
      <4> DEFINE b == Hosted(w) /\ Flapping(job[w].agent)
      <4>1. b \in BOOLEAN OBVIOUS
      <4>2. Goes(w, "dated", [job[w] EXCEPT !.flapping = b]) BY <3>3 DEF ReadUptime
      <4> HIDE DEF b
      <4>3. /\ [job[w] EXCEPT !.flapping = b] \in Assessment
            /\ [job[w] EXCEPT !.flapping = b].agent = job[w].agent
            /\ [job[w] EXCEPT !.flapping = b].info = job[w].info
        BY <3>1, <4>1 DEF Assessment
      <4> QED BY <3>1, <4>2, <4>3
    <3> QED BY <2>1, <3>2, <3>3
  <2>2. CASE RecordProbes(w) \/ Abort(w)
    <3>1. Goes(w, "idle", NoJob) BY <2>2 DEF RecordProbes, Abort
    <3> QED BY <3>1
  <2> QED BY <2>1, <2>2
<1>4. s \in Stages BY DEF Stages
<1>5. /\ WorkersOK' /\ pc'[w] \notin {"indexed", "judged"}
      /\ \A x \in Workers \ {w} : pc'[x] = pc[x] /\ job'[x] = job[x]
  BY <1>1, <1>2, <1>3, <1>4, OneWorkerMoves
<1>6. WorldOK' BY <1>1, <1>2 DEF WorldOK, WasListed
<1> QED BY <1>1, <1>2, <1>5, <1>6, IndexUntouched DEF WorldOK

(* Whoever reads the fleet second finds the row the other has written.     *)
LEMMA ReadFleetKeeps ==
    ASSUME PipelineInv, NEW w \in Workers, ReadFleet(w)
    PROVE  PipelineInv'
<1>1. WorldOK /\ WorkersOK /\ RowsOwned /\ RowsWereTrue /\ SiblingsMeet BY DEF PipelineInv
<1>2. UNCHANGED <<life, now, cache, agent_owners, batch>> /\ pc[w] = "indexed"
  BY DEF ReadFleet, world, tables
<1> DEFINE o == life[job[w].agent][job[w].info].owner
           j == [job[w] EXCEPT !.fleet = FleetFor(o)]
<1>3. Goes(w, "judged", j) BY DEF ReadFleet, Info
<1>4. job[w] \in Assessment /\ WasListed(job[w].agent, job[w].info)
  BY <1>1, <1>2 DEF WorkersOK
<1>5. /\ j \in Assessment /\ j.agent = job[w].agent /\ j.info = job[w].info
      /\ j.rewritten = job[w].rewritten /\ j.fleet = FleetFor(o)
  <2>1. FleetFor(o) \subseteq Agents BY DEF FleetFor
  <2> QED BY <1>4, <2>1 DEF Assessment
<1> HIDE DEF j
<1>6. "judged" \in Stages BY DEF Stages
<1>7. /\ WorkersOK' /\ pc'[w] = "judged" /\ job'[w] = j
      /\ \A x \in Workers \ {w} : pc'[x] = pc[x] /\ job'[x] = job[x]
  BY <1>1, <1>2, <1>3, <1>4, <1>5, <1>6, OneWorkerMoves
<1>8. WorldOK' BY <1>1, <1>2 DEF WorldOK, WasListed
<1>9. RowsOwned'
  <2> SUFFICES ASSUME NEW x \in Workers, pc'[x] \in {"indexed", "judged"}, ~job'[x].rewritten,
                      life[job'[x].agent][job'[x].info].owner # NoOwner
               PROVE  /\ agent_owners[job'[x].agent] # NoRow
                      /\ agent_owners[job'[x].agent].owner
                           = life[job'[x].agent][job'[x].info].owner
    BY <1>2 DEF RowsOwned
  <2>1. /\ pc[x] \in {"indexed", "judged"} /\ job'[x].agent = job[x].agent
        /\ job'[x].info = job[x].info /\ job'[x].rewritten = job[x].rewritten
    BY <1>2, <1>5, <1>7
  <2> QED BY <2>1, <1>1 DEF RowsOwned
<1>10. RowsWereTrue' BY <1>1, <1>2 DEF RowsWereTrue
<1>11. SiblingsMeet'
  <2>1. ASSUME NEW x \in Workers, pc'[x] = "judged", ~job'[x].rewritten,
               life[job'[x].agent][job'[x].info].owner = o, o # NoOwner
        PROVE  job'[x].agent \in job'[w].fleet
    <3>1. job'[x].agent \in Agents BY <1>7, <2>1 DEF WorkersOK, Assessment
    <3>2. agent_owners[job'[x].agent] # NoRow /\ agent_owners[job'[x].agent].owner = o
      BY <1>2, <1>9, <2>1 DEF RowsOwned
    <3> QED BY <1>5, <1>7, <3>1, <3>2 DEF FleetFor
  <2>2. life[job'[w].agent][job'[w].info].owner = o BY <1>5, <1>7
  <2> SUFFICES ASSUME NEW x \in Workers, NEW y \in Workers,
                      pc'[x] = "judged", pc'[y] = "judged",
                      life[job'[x].agent][job'[x].info].owner
                        = life[job'[y].agent][job'[y].info].owner,
                      life[job'[x].agent][job'[x].info].owner # NoOwner,
                      ~job'[x].rewritten, ~job'[y].rewritten
               PROVE  job'[y].agent \in job'[x].fleet \/ job'[x].agent \in job'[y].fleet
    BY <1>2 DEF SiblingsMeet, Info
  <2>3. CASE x = w BY <2>1, <2>2, <2>3
  <2>4. CASE y = w BY <2>1, <2>2, <2>4
  <2>5. CASE x # w /\ y # w
    <3>1. /\ pc[x] = "judged" /\ pc[y] = "judged" /\ job'[x] = job[x] /\ job'[y] = job[y]
      BY <1>7, <2>5
    <3> QED BY <3>1, <1>1 DEF SiblingsMeet, Info
  <2> QED BY <2>3, <2>4, <2>5
<1> QED BY <1>7, <1>8, <1>9, <1>10, <1>11 DEF PipelineInv

-----------------------------------------------------------------------------
(* A row is written, by an assessment or by the sweep.                     *)
LEMMA RowWritten ==
    ASSUME PipelineInv, WorldOK', WorkersOK', UNCHANGED <<life, now>>,
           NEW a \in Agents, NEW v \in Nat, WasListed(a, v),
           RecordOwner(a, life[a][v]),
           \A x \in Workers : pc'[x] \in {"indexed", "judged"} =>
             /\ job'[x].agent = job[x].agent /\ job'[x].info = job[x].info
             /\ job'[x].fleet = job[x].fleet
             /\ \/ /\ pc'[x] = pc[x]
                   /\ \/ job'[x].rewritten
                      \/ /\ ~job[x].rewritten
                         /\ job[x].agent = a =>
                              life[a][v].owner \in {NoOwner, life[job[x].agent][job[x].info].owner}
                \/ pc'[x] = "indexed" /\ job[x].agent = a /\ job[x].info = v
    PROVE  PipelineInv'
<1>1. WorldOK /\ WorkersOK /\ RowsOwned /\ RowsWereTrue /\ SiblingsMeet BY DEF PipelineInv
<1> DEFINE r == life[a][v]
<1>2. r \in Version
  <2>1. life[a] \in Seq(Version) BY <1>1 DEF WorldOK
  <2> QED BY <2>1 DEF WasListed
<1>3. agent_owners \in [Agents -> Rows \cup {NoRow}] BY <1>1 DEF WorldOK
<1>4. RowOf(r) \in Rows \/ r.owner = NoOwner
  BY <1>2 DEF RowOf, Version, Rows
<1>5. RowOf(r).owner = r.owner /\ RowOf(r).sold = r.sold
  BY DEF RowOf
<1>6. \A b \in Agents : agent_owners'[b] = IF b = a /\ r.owner # NoOwner THEN RowOf(r)
                                           ELSE agent_owners[b]
  <2> HIDE DEF r
  <2>1. CASE r.owner = NoOwner BY <2>1 DEF RecordOwner, r
  <2>2. CASE r.owner # NoOwner
    <3>1. agent_owners' = [agent_owners EXCEPT ![a] = RowOf(r)]
      BY <2>2 DEF RecordOwner, Upsert, r
    <3> QED BY <2>2, <3>1, <1>3
  <2> QED BY <2>1, <2>2
<1>7. r.owner # NoOwner => RowOf(r) # NoRow
  BY <1>4, PipelineAssumption DEF Rows
<1> HIDE DEF r
<1>8. RowsOwned'
  <2> SUFFICES ASSUME NEW x \in Workers, pc'[x] \in {"indexed", "judged"}, ~job'[x].rewritten,
                      life[job'[x].agent][job'[x].info].owner # NoOwner
               PROVE  /\ agent_owners'[job'[x].agent] # NoRow
                      /\ agent_owners'[job'[x].agent].owner
                           = life[job'[x].agent][job'[x].info].owner
    BY DEF RowsOwned
  <2>1. job'[x].agent = job[x].agent /\ job'[x].info = job[x].info OBVIOUS
  <2>2. job[x].agent \in Agents
    BY <2>1 DEF WorkersOK, Assessment, Stages
  <2>3. CASE pc'[x] = "indexed" /\ job[x].agent = a /\ job[x].info = v
    BY <2>1, <2>2, <2>3, <1>5, <1>6, <1>7 DEF r
  <2>4. CASE /\ pc'[x] = pc[x] /\ ~job[x].rewritten
             /\ job[x].agent = a =>
                  r.owner \in {NoOwner, life[job[x].agent][job[x].info].owner}
    <3>1. /\ agent_owners[job[x].agent] # NoRow
          /\ agent_owners[job[x].agent].owner = life[job[x].agent][job[x].info].owner
      BY <2>1, <2>4, <1>1 DEF RowsOwned
    <3> QED BY <2>1, <2>2, <2>4, <3>1, <1>5, <1>6, <1>7
  <2> QED BY <2>3, <2>4 DEF r
<1>9. RowsWereTrue'
  <2> SUFFICES ASSUME NEW b \in Agents, agent_owners'[b] # NoRow
               PROVE  \E u \in 1..now[b] : /\ agent_owners'[b].owner = life[b][u].owner
                                           /\ agent_owners'[b].sold = life[b][u].sold
    BY DEF RowsWereTrue
  <2>1. CASE b = a /\ r.owner # NoOwner
    BY <2>1, <1>5, <1>6 DEF r, WasListed
  <2>2. CASE ~(b = a /\ r.owner # NoOwner)
    <3>1. agent_owners'[b] = agent_owners[b] BY <2>2, <1>6
    <3> QED BY <3>1, <1>1 DEF RowsWereTrue
  <2> QED BY <2>1, <2>2
<1>10. SiblingsMeet'
  <2> SUFFICES ASSUME NEW x \in Workers, NEW y \in Workers,
                      pc'[x] = "judged", pc'[y] = "judged",
                      life[job'[x].agent][job'[x].info].owner
                        = life[job'[y].agent][job'[y].info].owner,
                      life[job'[x].agent][job'[x].info].owner # NoOwner,
                      ~job'[x].rewritten, ~job'[y].rewritten
               PROVE  job'[y].agent \in job'[x].fleet \/ job'[x].agent \in job'[y].fleet
    BY DEF SiblingsMeet, Info
  <2>1. /\ pc[x] = "judged" /\ pc[y] = "judged"
        /\ ~job[x].rewritten /\ ~job[y].rewritten
        /\ job'[x].agent = job[x].agent /\ job'[x].info = job[x].info
        /\ job'[y].agent = job[y].agent /\ job'[y].info = job[y].info
        /\ job'[x].fleet = job[x].fleet /\ job'[y].fleet = job[y].fleet
    OBVIOUS
  <2> QED BY <2>1, <1>1 DEF SiblingsMeet, Info
<1> QED BY <1>8, <1>9, <1>10 DEF PipelineInv

(* A worker whose row went to another owner is marked, and only marked.    *)
LEMMA OnlyMarked ==
    ASSUME WorkersOK, NEW a \in Agents, NEW r \in Version,
           job' = [x \in Workers |-> IF pc[x] = "idle" THEN job[x]
                     ELSE [job[x] EXCEPT !.rewritten = Rewritten(x, a, r)]]
    PROVE  /\ job' \in [Workers -> Assessment \cup {NoJob}]
           /\ \A x \in Workers : pc[x] # "idle" =>
                /\ job'[x] \in Assessment
                /\ job'[x].agent = job[x].agent /\ job'[x].info = job[x].info
                /\ job'[x].fleet = job[x].fleet
                /\ \/ job'[x].rewritten
                   \/ /\ ~job[x].rewritten
                      /\ pc[x] \in {"indexed", "judged"} /\ job[x].agent = a =>
                           r.owner \in {NoOwner, life[job[x].agent][job[x].info].owner}
<1>1. ASSUME NEW x \in Workers, pc[x] # "idle"
      PROVE  /\ job'[x] \in Assessment
             /\ job'[x].agent = job[x].agent /\ job'[x].info = job[x].info
             /\ job'[x].fleet = job[x].fleet
             /\ job'[x].rewritten = Rewritten(x, a, r)
  <2> DEFINE b == Rewritten(x, a, r)
  <2>1. job[x] \in Assessment BY <1>1 DEF WorkersOK
  <2>2. b \in BOOLEAN BY DEF Rewritten
  <2>3. job'[x] = [job[x] EXCEPT !.rewritten = b] BY <1>1
  <2> HIDE DEF b
  <2>4. job'[x].rewritten = b BY <2>1, <2>3 DEF Assessment
  <2>5. /\ job'[x] \in Assessment
        /\ job'[x].agent = job[x].agent /\ job'[x].info = job[x].info
        /\ job'[x].fleet = job[x].fleet
    BY <2>1, <2>2, <2>3 DEF Assessment
  <2> QED BY <2>4, <2>5 DEF b
<1>2. \A x \in Workers : pc[x] = "idle" => job'[x] = job[x] OBVIOUS
<1>3. ASSUME NEW x \in Workers PROVE job'[x] \in Assessment \cup {NoJob}
  BY <1>1, <1>2 DEF WorkersOK
<1>4. job' \in [Workers -> Assessment \cup {NoJob}]
  <2>1. DOMAIN job' = Workers /\ job' = [x \in Workers |-> job'[x]] OBVIOUS
  <2> QED BY <2>1, <1>3
<1>5. ASSUME NEW x \in Workers, pc[x] # "idle", ~Rewritten(x, a, r)
      PROVE  /\ ~job[x].rewritten
             /\ pc[x] \in {"indexed", "judged"} /\ job[x].agent = a =>
                  r.owner \in {NoOwner, life[job[x].agent][job[x].info].owner}
  BY <1>5 DEF Rewritten, Info
<1> QED BY <1>1, <1>4, <1>5

LEMMA RowsStayRows ==
    ASSUME WorldOK, NEW a \in Agents, NEW r \in Version, RecordOwner(a, r)
    PROVE  agent_owners' \in [Agents -> Rows \cup {NoRow}]
<1>1. agent_owners \in [Agents -> Rows \cup {NoRow}] BY DEF WorldOK
<1>2. CASE r.owner = NoOwner BY <1>1, <1>2 DEF RecordOwner
<1>3. CASE r.owner # NoOwner
  <2>1. RowOf(r) \in Rows BY <1>3 DEF RowOf, Rows, Version
  <2>2. agent_owners' = [agent_owners EXCEPT ![a] = RowOf(r)]
    BY <1>3 DEF RecordOwner, Upsert
  <2> QED BY <1>1, <2>1, <2>2
<1> QED BY <1>2, <1>3

LEMMA IndexOwnerKeeps ==
    ASSUME PipelineInv, NEW w \in Workers, IndexOwner(w)
    PROVE  PipelineInv'
<1>1. WorldOK /\ WorkersOK BY DEF PipelineInv
<1> DEFINE a == job[w].agent
           v == job[w].info
<1>2. /\ pc[w] = "dated" /\ RecordOwner(a, life[a][v])
      /\ pc' = [pc EXCEPT ![w] = "indexed"]
      /\ UNCHANGED <<life, now, cache, batch>>
  BY DEF IndexOwner, Info, world
<1>3. job' = [x \in Workers |-> IF pc[x] = "idle" THEN job[x]
                ELSE [job[x] EXCEPT !.rewritten = Rewritten(x, a, life[a][v])]]
  BY DEF IndexOwner, Info
<1>4. a \in Agents /\ v \in Nat /\ WasListed(a, v)
  <2>1. job[w] \in Assessment BY <1>1, <1>2 DEF WorkersOK
  <2> QED BY <2>1, <1>1, <1>2 DEF WorkersOK, Assessment
<1>5. life[a][v] \in Version
  <2>1. life[a] \in Seq(Version) BY <1>1, <1>4 DEF WorldOK
  <2> QED BY <2>1, <1>4 DEF WasListed
<1>6. pc \in [Workers -> Stages] BY <1>1 DEF WorkersOK
<1>7. pc' \in [Workers -> Stages] /\ pc'[w] = "indexed"
      /\ \A x \in Workers \ {w} : pc'[x] = pc[x]
  BY <1>2, <1>6 DEF Stages
<1> HIDE DEF a, v
<1>8. /\ job' \in [Workers -> Assessment \cup {NoJob}]
      /\ \A x \in Workers : pc[x] # "idle" =>
           /\ job'[x] \in Assessment
           /\ job'[x].agent = job[x].agent /\ job'[x].info = job[x].info
           /\ job'[x].fleet = job[x].fleet
           /\ \/ job'[x].rewritten
              \/ /\ ~job[x].rewritten
                 /\ pc[x] \in {"indexed", "judged"} /\ job[x].agent = a =>
                      life[a][v].owner \in {NoOwner, life[job[x].agent][job[x].info].owner}
  BY <1>1, <1>3, <1>4, <1>5, OnlyMarked
<1>9. \A x \in Workers : pc'[x] # "idle" => pc[x] # "idle" BY <1>2, <1>7
<1>10. WorkersOK'
  <2>1. ASSUME NEW x \in Workers, pc'[x] # "idle"
        PROVE  job'[x] \in Assessment /\ WasListed(job'[x].agent, job'[x].info)
    BY <2>1, <1>1, <1>8, <1>9 DEF WorkersOK
  <2> QED BY <2>1, <1>2, <1>7, <1>8 DEF WorkersOK, WasListed
<1>11. WorldOK'
  <2>1. agent_owners' \in [Agents -> Rows \cup {NoRow}]
    BY <1>1, <1>2, <1>4, <1>5, RowsStayRows
  <2> QED BY <2>1, <1>1, <1>2 DEF WorldOK, WasListed
<1>12. ASSUME NEW x \in Workers, pc'[x] \in {"indexed", "judged"}
       PROVE  /\ job'[x].agent = job[x].agent /\ job'[x].info = job[x].info
              /\ job'[x].fleet = job[x].fleet
              /\ \/ /\ pc'[x] = pc[x]
                    /\ \/ job'[x].rewritten
                       \/ /\ ~job[x].rewritten
                          /\ job[x].agent = a =>
                               life[a][v].owner \in {NoOwner, life[job[x].agent][job[x].info].owner}
                 \/ pc'[x] = "indexed" /\ job[x].agent = a /\ job[x].info = v
  <2>1. CASE x = w
    <3>1. pc[w] # "idle" /\ pc'[w] = "indexed" BY <1>2, <1>7
    <3>2. /\ job'[w].agent = job[w].agent /\ job'[w].info = job[w].info
          /\ job'[w].fleet = job[w].fleet
      BY <3>1, <1>8
    <3>3. job[w].agent = a /\ job[w].info = v BY DEF a, v
    <3> QED BY <2>1, <3>1, <3>2, <3>3
  <2>2. CASE x # w BY <2>2, <1>7, <1>8, <1>12
  <2> QED BY <2>1, <2>2
<1> QED BY <1>2, <1>4, <1>10, <1>11, <1>12, RowWritten

LEMMA SweepWriteKeeps ==
    ASSUME PipelineInv, NEW a \in Agents, SweepWrite(a)
    PROVE  PipelineInv'
<1>1. WorldOK /\ WorkersOK BY DEF PipelineInv
<1> DEFINE v == batch[a]
<1>2. /\ v # 0 /\ RecordOwner(a, life[a][v]) /\ batch' = [batch EXCEPT ![a] = 0]
      /\ UNCHANGED <<life, now, cache, pc>>
  BY DEF SweepWrite, world
<1>3. job' = [x \in Workers |-> IF pc[x] = "idle" THEN job[x]
                ELSE [job[x] EXCEPT !.rewritten = Rewritten(x, a, life[a][v])]]
  BY DEF SweepWrite
<1>4. v \in Nat /\ WasListed(a, v) BY <1>1, <1>2 DEF WorldOK
<1>5. life[a][v] \in Version
  <2>1. life[a] \in Seq(Version) BY <1>1 DEF WorldOK
  <2> QED BY <2>1, <1>4 DEF WasListed
<1>6. batch' \in [Agents -> Nat] /\ \A b \in Agents : batch'[b] # 0 => WasListed(b, batch'[b])
  BY <1>1, <1>2 DEF WorldOK
<1> HIDE DEF v
<1>7. /\ job' \in [Workers -> Assessment \cup {NoJob}]
      /\ \A x \in Workers : pc[x] # "idle" =>
           /\ job'[x] \in Assessment
           /\ job'[x].agent = job[x].agent /\ job'[x].info = job[x].info
           /\ job'[x].fleet = job[x].fleet
           /\ \/ job'[x].rewritten
              \/ /\ ~job[x].rewritten
                 /\ pc[x] \in {"indexed", "judged"} /\ job[x].agent = a =>
                      life[a][v].owner \in {NoOwner, life[job[x].agent][job[x].info].owner}
  BY <1>1, <1>3, <1>5, OnlyMarked
<1>8. WorkersOK'
  <2>1. ASSUME NEW x \in Workers, pc'[x] # "idle"
        PROVE  job'[x] \in Assessment /\ WasListed(job'[x].agent, job'[x].info)
    BY <2>1, <1>1, <1>2, <1>7 DEF WorkersOK
  <2> QED BY <2>1, <1>1, <1>2, <1>7 DEF WorkersOK, WasListed
<1>9. WorldOK'
  <2>1. agent_owners' \in [Agents -> Rows \cup {NoRow}]
    BY <1>1, <1>2, <1>5, RowsStayRows
  <2> QED BY <2>1, <1>1, <1>2, <1>6 DEF WorldOK, WasListed
<1>10. ASSUME NEW x \in Workers, pc'[x] \in {"indexed", "judged"}
       PROVE  /\ job'[x].agent = job[x].agent /\ job'[x].info = job[x].info
              /\ job'[x].fleet = job[x].fleet /\ pc'[x] = pc[x]
              /\ \/ job'[x].rewritten
                 \/ /\ ~job[x].rewritten
                    /\ job[x].agent = a =>
                         life[a][v].owner \in {NoOwner, life[job[x].agent][job[x].info].owner}
  BY <1>2, <1>7, <1>10
<1> QED BY <1>2, <1>4, <1>8, <1>9, <1>10, RowWritten

-----------------------------------------------------------------------------
LEMMA TickKeeps == ASSUME PipelineInv, Tick PROVE PipelineInv'
<1>1. WorldOK /\ WorkersOK BY DEF PipelineInv
<1>2. UNCHANGED <<life, now, cache, agent_owners, batch, pc>> BY DEF Tick
<1>3. job' = [w \in Workers |-> IF pc[w] = "idle" THEN job[w]
                ELSE [job[w] EXCEPT !.age = @ + 1]]
  BY DEF Tick
<1>4. ASSUME NEW w \in Workers, pc[w] # "idle"
      PROVE  /\ job'[w] \in Assessment
             /\ job'[w].agent = job[w].agent /\ job'[w].info = job[w].info
             /\ job'[w].fleet = job[w].fleet /\ job'[w].rewritten = job[w].rewritten
  <2>1. job[w] \in Assessment BY <1>1, <1>4 DEF WorkersOK
  <2>2. job[w].age + 1 \in Nat BY <2>1 DEF Assessment
  <2>3. job'[w] = [job[w] EXCEPT !.age = job[w].age + 1] BY <1>3, <1>4
  <2> QED BY <2>1, <2>2, <2>3 DEF Assessment
<1>5. \A w \in Workers : pc[w] = "idle" => job'[w] = job[w] BY <1>3
<1>6. job' \in [Workers -> Assessment \cup {NoJob}]
  <2>1. \A w \in Workers : job'[w] \in Assessment \cup {NoJob} BY <1>1, <1>4, <1>5 DEF WorkersOK
  <2>2. job' = [w \in Workers |-> job'[w]] BY <1>3
  <2> QED BY <2>1, <2>2
<1>7. WorkersOK'
  <2>1. ASSUME NEW w \in Workers, pc'[w] # "idle"
        PROVE  job'[w] \in Assessment /\ WasListed(job'[w].agent, job'[w].info)
    BY <2>1, <1>1, <1>2, <1>4 DEF WorkersOK
  <2> QED BY <2>1, <1>1, <1>2, <1>6 DEF WorkersOK, WasListed
<1>8. WorldOK' BY <1>1, <1>2 DEF WorldOK, WasListed
<1>9. \A w \in Workers : pc'[w] \in {"indexed", "judged"} => pc[w] # "idle" BY <1>2
<1> QED BY <1>1, <1>2, <1>4, <1>7, <1>8, <1>9, IndexUntouched DEF WorldOK

LEMMA RestartKeeps == ASSUME PipelineInv, Restart PROVE PipelineInv'
<1>1. WorldOK /\ WorkersOK BY DEF PipelineInv
<1>2. /\ UNCHANGED <<life, now, agent_owners, batch>>
      /\ cache' = [a \in Agents |-> 0]
      /\ pc' = [w \in Workers |-> "idle"] /\ job' = [w \in Workers |-> NoJob]
  BY DEF Restart, world, tables
<1>3. WorkersOK' BY <1>2 DEF WorkersOK, Stages
<1>4. WorldOK' BY <1>1, <1>2 DEF WorldOK, WasListed
<1> QED BY <1>1, <1>2, <1>3, <1>4, IndexUntouched DEF WorldOK

(* The marketplace moves on: what was listed once stays listed once.       *)
LEMMA ChangesKeeps == ASSUME PipelineInv, NEW a \in Agents, Changes(a) PROVE PipelineInv'
<1>1. WorldOK /\ WorkersOK BY DEF PipelineInv
<1>2. /\ UNCHANGED <<life, cache, agent_owners, batch, pc, job>>
      /\ now[a] < Len(life[a]) /\ now' = [now EXCEPT ![a] = now[a] + 1]
  BY DEF Changes, tables
<1>3. now \in [Agents -> Nat \ {0}] BY <1>1 DEF WorldOK
<1>4. \A b \in Agents : now'[b] = IF b = a THEN now[b] + 1 ELSE now[b] BY <1>2, <1>3
<1>5. now' \in [Agents -> Nat \ {0}] /\ \A b \in Agents : now'[b] >= now[b]
  BY <1>2, <1>3, <1>4
<1>6. \A b \in Agents : \A v : WasListed(b, v) => v \in 1..now'[b] /\ v \in DOMAIN life[b]
  BY <1>3, <1>5 DEF WasListed
<1>7. WorldOK'
  <2>1. ASSUME NEW b \in Agents, life[b] # <<>> PROVE now'[b] \in DOMAIN life[b]
    <3>1. life[b] \in Seq(Version) /\ now[b] \in DOMAIN life[b] BY <1>1, <2>1 DEF WorldOK
    <3> QED BY <3>1, <1>2, <1>3, <1>4
  <2>2. \A b \in Agents : cache[b] <= now'[b] BY <1>1, <1>3, <1>5 DEF WorldOK
  <2>3. \A b \in Agents : batch[b] # 0 => batch[b] \in 1..now'[b] /\ batch[b] \in DOMAIN life[b]
    BY <1>1, <1>6 DEF WorldOK
  <2> QED BY <2>1, <2>2, <2>3, <1>1, <1>2, <1>5 DEF WorldOK, WasListed
<1>8. WorkersOK'
  <2>1. ASSUME NEW w \in Workers, pc[w] # "idle"
        PROVE  /\ job[w] \in Assessment
               /\ job[w].info \in 1..now'[job[w].agent] /\ job[w].info \in DOMAIN life[job[w].agent]
    BY <2>1, <1>1, <1>6 DEF WorkersOK, Assessment
  <2> QED BY <2>1, <1>1, <1>2 DEF WorkersOK, WasListed
<1> QED BY <1>2, <1>5, <1>7, <1>8, IndexUntouched

LEMMA SweepReadKeeps == ASSUME PipelineInv, SweepRead PROVE PipelineInv'
<1>1. WorldOK /\ WorkersOK BY DEF PipelineInv
<1>2. /\ UNCHANGED <<life, now, cache, agent_owners, pc, job>>
      /\ batch' = [a \in Agents |-> IF Owned(a) THEN now[a] ELSE 0]
  BY DEF SweepRead, world, tables
<1>3. now \in [Agents -> Nat \ {0}] BY <1>1 DEF WorldOK
<1>4. \A a \in Agents : batch'[a] # 0 => WasListed(a, batch'[a])
  BY <1>1, <1>2, <1>3 DEF WorldOK, WasListed, Owned
<1>5. WorldOK' BY <1>1, <1>2, <1>3, <1>4 DEF WorldOK, WasListed
<1>6. WorkersOK' BY <1>1, <1>2 DEF WorkersOK, WasListed
<1> QED BY <1>2, <1>3, <1>5, <1>6, IndexUntouched

LEMMA PipelineStep == PipelineInv /\ [Next]_vars => PipelineInv'
<1> SUFFICES ASSUME PipelineInv, [Next]_vars PROVE PipelineInv' OBVIOUS
<1>1. ASSUME NEW w \in Workers, Works(w) \/ Abort(w) PROVE PipelineInv'
  BY <1>1, QuietWorkKeeps, IndexOwnerKeeps, ReadFleetKeeps DEF Works
<1>2. ASSUME NEW w \in Workers, NEW a \in Agents, FetchFresh(w, a) \/ FetchKnown(w, a)
      PROVE  PipelineInv'
  BY <1>2, FetchedKeeps DEF FetchFresh, FetchKnown
<1>3. ASSUME NEW a \in Agents, SweepWrite(a) \/ Changes(a) PROVE PipelineInv'
  BY <1>3, SweepWriteKeeps, ChangesKeeps
<1>4. CASE UNCHANGED <<life, now, cache, agent_owners, batch, pc, job>>
  BY <1>4 DEF PipelineInv, WorldOK, WorkersOK, WasListed, RowsOwned, RowsWereTrue,
              SiblingsMeet, Info
<1>5. ASSUME NEW e \in Endpoints, GoesDown(e) \/ ComesBack(e) PROVE PipelineInv'
  BY <1>4, <1>5 DEF GoesDown, ComesBack, tables
<1>6. CASE UNCHANGED vars BY <1>4, <1>6 DEF vars, world, tables
<1> QED BY <1>1, <1>2, <1>3, <1>5, <1>6, SweepReadKeeps, RestartKeeps, TickKeeps DEF Next

(* store.py:281-287: whoever writes last, assessment or sweep, however     *)
(* late, a row says what the marketplace once said.                        *)
THEOREM IndexNeverInvents == Spec => []RowsWereTrue
<1>1. PipelineInv => RowsWereTrue BY DEF PipelineInv
<1> QED BY <1>1, PipelineInit, PipelineStep, PTL DEF Spec

(* verify.py:28-38: writing one's row before reading the fleet is enough   *)
(* for siblings assessed at the same time not to miss one another.         *)
THEOREM SiblingsAlwaysMeet == Spec => []SiblingsMeet
<1>1. PipelineInv => SiblingsMeet BY DEF PipelineInv
<1> QED BY <1>1, PipelineInit, PipelineStep, PTL DEF Spec
-----------------------------------------------------------------------------
(* The samples behind the uptime: what they may count, and how old the     *)
(* failure is that each of them, and each judgement from them, stands for. *)

Probed == {"probed", "dated", "indexed", "judged"}
Ages == 0..Aged
Tallies == [healthy : [Ages -> 0..RATE], failed : [Ages -> 0..RATE]]

ProbesTyped ==
    /\ life \in Lives /\ serving \subseteq Endpoints
    /\ sinceDown \in [Endpoints -> 0..Horizon]
    /\ probe_samples \in [Agents -> [Endpoints -> Tallies]]
    /\ \A w \in Workers : IF pc[w] = "idle" THEN job[w] = NoJob
                          ELSE job[w].age \in 0..ASSESS_TIME

(* What is recorded of an agent in a tick, and what may still be.          *)
TakenNow(a) == [e \in Endpoints |-> probe_samples[a][e].healthy[0]
                                      + probe_samples[a][e].failed[0]]
RateKept ==
    \A a \in Agents :
        SumFunctionOnSet(TakenNow(a), Endpoints) + Cardinality(Busy(a)) <= RATE

DownIsNow == \A e \in Endpoints \ serving : sinceDown[e] = 0

(* A probe that was refused, until the sample is stamped.                  *)
RefusalIsRecent ==
    \A w \in Workers : pc[w] \in Probed /\ Hosted(w) /\ ~ job[w].up =>
        sinceDown[Info(w).endpoint] <= job[w].age

FailureIsRecent ==
    \A a \in Agents, e \in Endpoints : \A i \in InWindow :
        probe_samples[a][e].failed[i] > 0 =>
            e \in Listed(a) /\ sinceDown[e] <= ASSESS_TIME + i

FlappingIsRecent ==
    \A w \in Workers : pc[w] # "idle" /\ job[w].flapping =>
        \E e \in Listed(job[w].agent) \cap Endpoints :
            sinceDown[e] <= WINDOW + ASSESS_TIME + job[w].age

Failures == RefusalIsRecent /\ FailureIsRecent /\ FlappingIsRecent
ProbesInv == PipelineInv /\ ProbesTyped /\ RateKept /\ DownIsNow /\ Failures
LEMMA PipelineConstants ==
    /\ MIN_SAMPLES \in Nat /\ WINDOW \in Nat /\ ASSESS_TIME \in Nat /\ RATE \in Nat
    /\ Aged = WINDOW + 1 /\ Horizon = WINDOW + 2 * ASSESS_TIME + 1 /\ Horizon \in Nat
    /\ IsFiniteSet(Endpoints) /\ IsFiniteSet(Workers)
    /\ InWindow = 0..WINDOW /\ InWindow \subseteq Ages /\ 0 \in InWindow /\ 0 \in Ages
    /\ IsFiniteSet(InWindow)
<1>1. /\ MIN_SAMPLES \in Nat /\ WINDOW \in Nat /\ ASSESS_TIME \in Nat /\ RATE \in Nat
      /\ IsFiniteSet(Endpoints) /\ IsFiniteSet(Workers)
  BY PipelineAssumption
<1>2. Aged = WINDOW + 1 /\ Horizon = WINDOW + 2 * ASSESS_TIME + 1
  BY DEF Aged, Horizon
<1>3. IsFiniteSet(0..WINDOW)
  BY <1>1, FS_Interval
<1> QED
  BY <1>1, <1>2, <1>3 DEF InWindow, Ages

LEMMA BusyFinite == \A a \in Agents : IsFiniteSet(Busy(a)) /\ Cardinality(Busy(a)) \in Nat
<1> SUFFICES ASSUME NEW a \in Agents
             PROVE  IsFiniteSet(Busy(a)) /\ Cardinality(Busy(a)) \in Nat
  OBVIOUS
<1>1. Busy(a) \subseteq Workers
  BY DEF Busy
<1> QED
  BY <1>1, PipelineConstants, FS_Subset, FS_CardinalityType

LEMMA SamplesTyped ==
    ASSUME ProbesTyped, NEW a \in Agents, NEW e \in Endpoints
    PROVE  /\ probe_samples[a][e] \in Tallies
           /\ probe_samples[a][e].healthy \in [Ages -> 0..RATE]
           /\ probe_samples[a][e].failed \in [Ages -> 0..RATE]
           /\ \A i \in Ages : /\ probe_samples[a][e].healthy[i] \in 0..RATE
                              /\ probe_samples[a][e].failed[i] \in 0..RATE
                              /\ probe_samples[a][e].healthy[i] \in Nat
                              /\ probe_samples[a][e].failed[i] \in Nat
<1>1. probe_samples[a][e] \in Tallies
  BY DEF ProbesTyped
<1>2. /\ probe_samples[a][e].healthy \in [Ages -> 0..RATE]
      /\ probe_samples[a][e].failed \in [Ages -> 0..RATE]
  BY <1>1 DEF Tallies
<1>3. ASSUME NEW i \in Ages
      PROVE  /\ probe_samples[a][e].healthy[i] \in 0..RATE
             /\ probe_samples[a][e].failed[i] \in 0..RATE
  BY <1>2
<1>4. 0..RATE \subseteq Nat
  BY PipelineConstants
<1> QED
  BY <1>1, <1>2, <1>3, <1>4

LEMMA TakenNumbers ==
    ASSUME ProbesTyped, NEW a \in Agents
    PROVE  /\ \A e \in Endpoints : TakenNow(a)[e] \in Nat
           /\ SumFunctionOnSet(TakenNow(a), Endpoints) \in Nat
<1>1. \A e \in Endpoints : TakenNow(a)[e] \in Nat
  BY SamplesTyped, PipelineConstants DEF TakenNow
<1> QED
  BY <1>1, SumNat, PipelineConstants

(* Of what was always healthy the availability is 1, which is not under    *)
(* 95%: who is flapping has failed within the window.                      *)
LEMMA AllHealthy == ASSUME NEW h \in Nat, h > 0 PROVE ~ (2000 * h + h) \div (2 * h) < 950
  OBVIOUS

LEMMA FlappingHasFailed ==
    ASSUME ProbesTyped, FailureIsRecent, NEW a \in Agents, Flapping(a)
    PROVE  \E e \in Listed(a) \cap Endpoints : sinceDown[e] <= WINDOW + ASSESS_TIME
<1>1. PICK e \in Endpoints : Unreliable(a, e)
  BY DEF Flapping
<1> DEFINE f == probe_samples[a][e].failed
           h == Healthy(a, e)
<1>2. PICK i \in InWindow : f[i] > 0
  <2> SUFFICES ASSUME ~ \E i \in InWindow : f[i] > 0 PROVE FALSE
    OBVIOUS
  <2>1. \A i \in InWindow : f[i] = 0
    BY SamplesTyped, PipelineConstants
  <2>2. SumFunctionOnSet(f, InWindow) = 0
    <3> HIDE DEF f
    <3> QED
      BY <2>1, SumZero, PipelineConstants
  <2>3. h \in Nat
    <3> DEFINE g == probe_samples[a][e].healthy
    <3>1. \A i \in InWindow : g[i] \in Nat
      BY SamplesTyped, PipelineConstants
    <3> HIDE DEF g
    <3>2. SumFunctionOnSet(g, InWindow) \in Nat
      BY <3>1, SumNat, PipelineConstants
    <3> QED
      BY <3>2 DEF g, Healthy
  <2>4. Samples(a, e) = h
    BY <2>2, <2>3 DEF Samples
  <2> HIDE DEF h, f
  <2>5. h > 0 /\ (2000 * h + h) \div (2 * h) < 950
    BY <1>1, <2>4 DEF Unreliable, h
  <2> QED
    BY <2>3, <2>5, AllHealthy
<1>3. e \in Listed(a) /\ sinceDown[e] <= ASSESS_TIME + i
  BY <1>2 DEF FailureIsRecent
<1>4. sinceDown[e] \in Nat /\ i \in 0..WINDOW
  BY PipelineConstants DEF ProbesTyped
<1> QED
  BY <1>3, <1>4, PipelineConstants
LEMMA ProbesInit == Init => ProbesInv
<1> SUFFICES ASSUME Init PROVE ProbesInv
  OBVIOUS
<1>1. PipelineInv
  BY PipelineInit
<1>2. ProbesTyped
  <2>1. NoSamples \in [Ages -> 0..RATE]
    BY PipelineConstants DEF NoSamples, Ages
  <2>2. [healthy |-> NoSamples, failed |-> NoSamples] \in Tallies
    BY <2>1 DEF Tallies
  <2>3. Horizon \in 0..Horizon
    BY PipelineConstants
  <2> QED
    BY <2>2, <2>3 DEF Init, ProbesTyped
<1>3. RateKept
  <2> SUFFICES ASSUME NEW a \in Agents
               PROVE  SumFunctionOnSet(TakenNow(a), Endpoints) + Cardinality(Busy(a)) <= RATE
    BY DEF RateKept
  <2>1. \A e \in Endpoints : TakenNow(a)[e] = 0
    BY PipelineConstants DEF Init, TakenNow, NoSamples, Ages
  <2>2. SumFunctionOnSet(TakenNow(a), Endpoints) = 0
    BY <2>1, SumZero, PipelineConstants
  <2>3. Busy(a) = {}
    BY DEF Init, Busy
  <2>4. Cardinality(Busy(a)) = 0
    BY <2>3, FS_EmptySet
  <2> QED
    BY <2>2, <2>4, PipelineConstants
<1>4. FailureIsRecent
  BY PipelineConstants DEF Init, FailureIsRecent, NoSamples, Ages
<1>5. DownIsNow /\ RefusalIsRecent /\ FlappingIsRecent
  BY DEF Init, DownIsNow, RefusalIsRecent, FlappingIsRecent, Probed
<1> QED
  BY <1>1, <1>2, <1>3, <1>4, <1>5 DEF ProbesInv, Failures

LEMMA StaysListed ==
    ASSUME WorldOK, WorldOK', life' = life, \A a \in Agents : now'[a] >= now[a], NEW a \in Agents
    PROVE  Listed(a) \subseteq Listed(a)'
<1>1. now[a] \in Nat /\ now'[a] \in Nat /\ now'[a] >= now[a]
  BY DEF WorldOK
<1> QED
  BY <1>1 DEF Listed

(* Where samples are neither recorded nor get older, what is left to show  *)
(* is that workers learn of no failure but as probe and uptime tell them.  *)
LEMMA SamplesUntouched ==
    ASSUME ProbesInv, PipelineInv', RateKept', UNCHANGED <<life, probe_samples>>,
           \A a \in Agents : now'[a] >= now[a],
           serving' \subseteq Endpoints, sinceDown' \in [Endpoints -> 0..Horizon],
           \A e \in Endpoints : /\ sinceDown'[e] <= sinceDown[e]
                                /\ e \notin serving' => sinceDown'[e] = 0,
           \A x \in Workers :
             \/ pc'[x] = "idle" /\ job'[x] = NoJob
             \/ pc'[x] = "fetched" /\ ~ job'[x].flapping /\ job'[x].age = 0
             \/ /\ pc[x] # "idle" /\ pc'[x] # "idle"
                /\ job'[x].agent = job[x].agent /\ job'[x].info = job[x].info
                /\ job'[x].age = job[x].age
                /\ job'[x].flapping => job[x].flapping \/ Flapping(job[x].agent)
                /\ \/ pc'[x] \notin Probed
                   \/ job'[x].up
                   \/ Info(x).endpoint \notin serving
                   \/ pc[x] \in Probed /\ ~ job[x].up
    PROVE  ProbesInv'
<1>1. /\ WorldOK /\ WorldOK' /\ WorkersOK /\ WorkersOK' /\ ProbesTyped
      /\ DownIsNow /\ RefusalIsRecent /\ FailureIsRecent /\ FlappingIsRecent
  BY DEF ProbesInv, PipelineInv, Failures
<1>2. \A e \in Endpoints : /\ sinceDown[e] \in Nat /\ sinceDown'[e] \in Nat
                           /\ sinceDown'[e] <= sinceDown[e]
  BY <1>1, PipelineConstants DEF ProbesTyped
<1>3. \A a \in Agents : Listed(a) \subseteq Listed(a)'
  BY <1>1, StaysListed
<1>4. ProbesTyped'
  <2>1. ASSUME NEW x \in Workers
        PROVE  IF pc'[x] = "idle" THEN job'[x] = NoJob ELSE job'[x].age \in 0..ASSESS_TIME
    <3>1. 0 \in 0..ASSESS_TIME
      BY PipelineConstants
    <3> QED
      BY <1>1, <3>1 DEF ProbesTyped
  <2> QED
    BY <1>1, <2>1 DEF ProbesTyped
<1>5. DownIsNow'
  BY DEF DownIsNow
<1>6. FailureIsRecent'
  <2> SUFFICES ASSUME NEW a \in Agents, NEW e \in Endpoints, NEW i \in InWindow,
                      probe_samples[a][e].failed[i] > 0
               PROVE  e \in Listed(a)' /\ sinceDown'[e] <= ASSESS_TIME + i
    BY DEF FailureIsRecent
  <2>1. e \in Listed(a) /\ sinceDown[e] <= ASSESS_TIME + i
    BY <1>1 DEF FailureIsRecent
  <2>2. i \in Nat /\ ASSESS_TIME \in Nat
    BY PipelineConstants
  <2> QED
    BY <1>2, <1>3, <2>1, <2>2
<1>7. RefusalIsRecent'
  <2> SUFFICES ASSUME NEW x \in Workers, pc'[x] \in Probed, Info(x)'.endpoint # NoEndpoint,
                      ~ job'[x].up
               PROVE  sinceDown'[Info(x)'.endpoint] <= job'[x].age
    BY DEF RefusalIsRecent, Hosted
  <2>1. /\ pc[x] # "idle" /\ job'[x].agent = job[x].agent /\ job'[x].info = job[x].info
        /\ job'[x].age = job[x].age
        /\ Info(x).endpoint \notin serving \/ (pc[x] \in Probed /\ ~ job[x].up)
    BY DEF Probed
  <2>2. Info(x)' = Info(x) /\ Hosted(x)
    BY <2>1 DEF Info, Hosted
  <2>3. Info(x).endpoint \in Endpoints
    <3>1. life[job[x].agent] \in Seq(Version) /\ job[x].info \in DOMAIN life[job[x].agent]
      BY <1>1, <2>1 DEF WorldOK, WorkersOK, WasListed, Assessment
    <3>2. Info(x) \in Version
      BY <3>1 DEF Info
    <3> QED
      BY <2>2, <3>2 DEF Version, Hosted
  <2>4. job[x].age \in Nat
    BY <1>1, <2>1, PipelineConstants DEF ProbesTyped
  <2>5. sinceDown[Info(x).endpoint] <= job[x].age
    <3>1. CASE Info(x).endpoint \notin serving
      BY <1>1, <2>3, <2>4, <3>1 DEF DownIsNow
    <3>2. CASE pc[x] \in Probed /\ ~ job[x].up
      BY <1>1, <2>2, <3>2 DEF RefusalIsRecent
    <3> QED
      BY <2>1, <3>1, <3>2
  <2> QED
    BY <1>2, <2>1, <2>2, <2>3, <2>4, <2>5
<1>8. FlappingIsRecent'
  <2> SUFFICES ASSUME NEW x \in Workers, pc'[x] # "idle", job'[x].flapping
               PROVE  \E e \in Listed(job[x].agent)' \cap Endpoints :
                         sinceDown'[e] <= WINDOW + ASSESS_TIME + job'[x].age
    BY DEF FlappingIsRecent
  <2>1. /\ pc[x] # "idle" /\ job'[x].agent = job[x].agent /\ job'[x].age = job[x].age
        /\ job[x].flapping \/ Flapping(job[x].agent)
    OBVIOUS
  <2>2. job[x].age \in Nat /\ job[x].agent \in Agents
    BY <1>1, <2>1, PipelineConstants DEF ProbesTyped, WorkersOK, Assessment
  <2> DEFINE a == job[x].agent
  <2>3. PICK e \in Listed(a) \cap Endpoints : sinceDown[e] <= WINDOW + ASSESS_TIME + job[x].age
    <3>1. CASE job[x].flapping
      BY <1>1, <2>1, <3>1 DEF FlappingIsRecent
    <3>2. CASE Flapping(a)
      <4>1. PICK e \in Listed(a) \cap Endpoints : sinceDown[e] <= WINDOW + ASSESS_TIME
        BY <1>1, <2>2, <3>2, FlappingHasFailed
      <4>2. sinceDown[e] \in Nat
        BY <1>2
      <4>3. sinceDown[e] <= WINDOW + ASSESS_TIME + job[x].age
        BY <2>2, <4>1, <4>2, PipelineConstants
      <4> QED
        BY <4>1, <4>3
    <3> QED
      BY <2>1, <3>1, <3>2
  <2>4. e \in Listed(job[x].agent)'
    <3>1. \A b \in Agents : b = job'[x].agent => Listed(b)' = Listed(job[x].agent)'
      BY DEF Listed
    <3>2. \A b \in Agents : b = job'[x].agent => Listed(b) \subseteq Listed(job[x].agent)'
      BY <1>3, <3>1
    <3> QED
      BY <2>1, <2>2, <2>3, <3>2
  <2>5. sinceDown'[e] <= WINDOW + ASSESS_TIME + job'[x].age
    BY <1>2, <2>1, <2>2, <2>3, PipelineConstants
  <2> QED
    BY <2>4, <2>5
<1> QED
  BY <1>4, <1>5, <1>6, <1>7, <1>8 DEF ProbesInv, Failures

(* Who takes nobody on takes no more of the rate.                          *)
LEMMA RateUntouched ==
    ASSUME RateKept, ProbesTyped, probe_samples' = probe_samples,
           \A x \in Workers : pc'[x] # "idle" => pc[x] # "idle" /\ job'[x].agent = job[x].agent
    PROVE  RateKept'
<1> SUFFICES ASSUME NEW a \in Agents
             PROVE  SumFunctionOnSet(TakenNow(a), Endpoints)' + Cardinality(Busy(a)') <= RATE
  BY DEF RateKept
<1>1. SumFunctionOnSet(TakenNow(a), Endpoints)' = SumFunctionOnSet(TakenNow(a), Endpoints)
  BY DEF TakenNow
<1>2. Busy(a)' \subseteq Busy(a)
  BY DEF Busy
<1>3. /\ Cardinality(Busy(a)') <= Cardinality(Busy(a)) /\ Cardinality(Busy(a)) \in Nat
      /\ Cardinality(Busy(a)') \in Nat
  BY <1>2, BusyFinite, FS_Subset, FS_CardinalityType
<1>4. SumFunctionOnSet(TakenNow(a), Endpoints) + Cardinality(Busy(a)) <= RATE
  BY DEF RateKept
<1>5. SumFunctionOnSet(TakenNow(a), Endpoints) \in Nat
  BY TakenNumbers
<1> QED
  BY <1>1, <1>3, <1>4, <1>5, PipelineConstants
(* The steps of assess() up to the verdict, and those that give up.        *)
LEMMA WorkKeepsProbes ==
    ASSUME ProbesInv, NEW w \in Workers,
           Probe(w) \/ ReadUptime(w) \/ ReadFleet(w) \/ Abort(w)
    PROVE  ProbesInv'
<1>1. PipelineInv /\ WorldOK /\ WorkersOK /\ ProbesTyped /\ RateKept /\ DownIsNow
  BY DEF ProbesInv, PipelineInv
<1>2. PipelineInv'
  BY <1>1, QuietWorkKeeps, ReadFleetKeeps
<1>3. UNCHANGED <<life, now, serving, sinceDown, probe_samples>>
  BY DEF Probe, ReadUptime, ReadFleet, Abort, world, tables
<1>4. pc \in [Workers -> Stages] /\ job \in [Workers -> Assessment \cup {NoJob}]
  BY <1>1 DEF WorkersOK
<1>5. PICK s \in {"probed", "dated", "judged", "idle"} :
        \E j \in Assessment \cup {NoJob} :
          /\ pc' = [pc EXCEPT ![w] = s] /\ job' = [job EXCEPT ![w] = j]
          /\ \/ s = "idle" /\ j = NoJob
             \/ /\ pc[w] # "idle" /\ s # "idle"
                /\ j.agent = job[w].agent /\ j.info = job[w].info /\ j.age = job[w].age
                /\ j.flapping => job[w].flapping \/ Flapping(job[w].agent)
                /\ \/ j.up \/ Info(w).endpoint \notin serving
                   \/ pc[w] \in Probed /\ ~ job[w].up
  <2>1. CASE Abort(w)
    BY <2>1 DEF Abort, Goes
  <2>2. CASE ~ Abort(w)
    <3>1. pc[w] # "idle" /\ job[w] \in Assessment
      BY <1>1, <2>2 DEF Probe, ReadUptime, ReadFleet, WorkersOK
    <3>2. CASE Probe(w)
      <4> DEFINE b == Info(w).endpoint \in serving
                 j == [job[w] EXCEPT !.up = b]
      <4>1. pc' = [pc EXCEPT ![w] = "probed"] /\ job' = [job EXCEPT ![w] = j]
        BY <3>2 DEF Probe, Goes
      <4>2. b \in BOOLEAN /\ (b \/ Info(w).endpoint \notin serving)
        OBVIOUS
      <4> HIDE DEF b
      <4>3. /\ j \in Assessment /\ j.agent = job[w].agent /\ j.info = job[w].info
            /\ j.age = job[w].age /\ j.flapping = job[w].flapping /\ j.up = b
        BY <3>1, <4>2 DEF Assessment
      <4> HIDE DEF j
      <4> QED
        BY <3>1, <4>1, <4>2, <4>3
    <3>3. CASE ReadUptime(w)
      <4> DEFINE b == Hosted(w) /\ Flapping(job[w].agent)
                 j == [job[w] EXCEPT !.flapping = b]
      <4>1. pc' = [pc EXCEPT ![w] = "dated"] /\ job' = [job EXCEPT ![w] = j] /\ pc[w] = "probed"
        BY <3>3 DEF ReadUptime, Goes
      <4>2. b \in BOOLEAN /\ (b => Flapping(job[w].agent))
        OBVIOUS
      <4> HIDE DEF b
      <4>3. /\ j \in Assessment /\ j.agent = job[w].agent /\ j.info = job[w].info
            /\ j.age = job[w].age /\ j.flapping = b /\ j.up = job[w].up
        BY <3>1, <4>2 DEF Assessment
      <4> HIDE DEF j
      <4> QED
        BY <3>1, <4>1, <4>2, <4>3 DEF Probed
    <3>4. CASE ReadFleet(w)
      <4> DEFINE f == FleetFor(Info(w).owner)
                 j == [job[w] EXCEPT !.fleet = f]
      <4>1. pc' = [pc EXCEPT ![w] = "judged"] /\ job' = [job EXCEPT ![w] = j] /\ pc[w] = "indexed"
        BY <3>4 DEF ReadFleet, Goes
      <4>2. f \in SUBSET Agents
        BY DEF FleetFor
      <4> HIDE DEF f
      <4>3. /\ j \in Assessment /\ j.agent = job[w].agent /\ j.info = job[w].info
            /\ j.age = job[w].age /\ j.flapping = job[w].flapping /\ j.up = job[w].up
        BY <3>1, <4>2 DEF Assessment
      <4> HIDE DEF j
      <4> QED
        BY <3>1, <4>1, <4>3 DEF Probed
    <3> QED
      BY <2>2, <3>2, <3>3, <3>4
  <2> QED
    BY <2>1, <2>2
<1>6. PICK j \in Assessment \cup {NoJob} :
          /\ pc' = [pc EXCEPT ![w] = s] /\ job' = [job EXCEPT ![w] = j]
          /\ \/ s = "idle" /\ j = NoJob
             \/ /\ pc[w] # "idle" /\ s # "idle"
                /\ j.agent = job[w].agent /\ j.info = job[w].info /\ j.age = job[w].age
                /\ j.flapping => job[w].flapping \/ Flapping(job[w].agent)
                /\ \/ j.up \/ Info(w).endpoint \notin serving
                   \/ pc[w] \in Probed /\ ~ job[w].up
  BY <1>5
<1>7. pc'[w] = s /\ job'[w] = j /\ \A x \in Workers : x # w => pc'[x] = pc[x] /\ job'[x] = job[x]
  BY <1>4, <1>6
<1>8. ASSUME NEW x \in Workers
      PROVE  \/ pc'[x] = "idle" /\ job'[x] = NoJob
             \/ /\ pc[x] # "idle" /\ pc'[x] # "idle"
                /\ job'[x].agent = job[x].agent /\ job'[x].info = job[x].info
                /\ job'[x].age = job[x].age
                /\ job'[x].flapping => job[x].flapping \/ Flapping(job[x].agent)
                /\ \/ pc'[x] \notin Probed
                   \/ job'[x].up
                   \/ Info(x).endpoint \notin serving
                   \/ pc[x] \in Probed /\ ~ job[x].up
  <2>1. CASE x = w
    BY <1>6, <1>7, <2>1
  <2>2. CASE x # w
    <3>1. pc'[x] = pc[x] /\ job'[x] = job[x]
      BY <1>7, <2>2
    <3>2. pc[x] = "idle" => job[x] = NoJob
      BY <1>1 DEF ProbesTyped
    <3> QED
      BY <3>1, <3>2
  <2> QED
    BY <2>1, <2>2
<1>9. RateKept'
  BY <1>1, <1>3, <1>8, RateUntouched
<1>10. /\ \A a \in Agents : now'[a] >= now[a]
       /\ serving' \subseteq Endpoints /\ sinceDown' \in [Endpoints -> 0..Horizon]
       /\ \A e \in Endpoints : /\ sinceDown'[e] <= sinceDown[e]
                               /\ e \notin serving' => sinceDown'[e] = 0
  BY <1>1, <1>3, PipelineConstants DEF WorldOK, ProbesTyped, DownIsNow
<1> QED
  BY <1>2, <1>3, <1>8, <1>9, <1>10, SamplesUntouched

(* The writes of the index mark workers and move one of them.              *)
LEMMA IndexKeepsProbes ==
    ASSUME ProbesInv, \/ \E w \in Workers : IndexOwner(w)
                      \/ \E a \in Agents : SweepWrite(a)
    PROVE  ProbesInv'
<1>1. PipelineInv /\ WorldOK /\ WorkersOK /\ ProbesTyped /\ RateKept /\ DownIsNow
  BY DEF ProbesInv, PipelineInv
<1>2. PipelineInv'
  BY <1>1, IndexOwnerKeeps, SweepWriteKeeps
<1>3. UNCHANGED <<life, now, serving, sinceDown, probe_samples>>
  BY DEF IndexOwner, SweepWrite, world
<1>4. pc \in [Workers -> Stages] /\ job \in [Workers -> Assessment \cup {NoJob}]
  BY <1>1 DEF WorkersOK
<1>5. ASSUME NEW x \in Workers
      PROVE  \/ pc'[x] = "idle" /\ job'[x] = NoJob
             \/ /\ pc[x] # "idle" /\ pc'[x] # "idle"
                /\ job'[x].agent = job[x].agent /\ job'[x].info = job[x].info
                /\ job'[x].age = job[x].age
                /\ job'[x].flapping => job[x].flapping \/ Flapping(job[x].agent)
                /\ \/ pc'[x] \notin Probed
                   \/ job'[x].up
                   \/ Info(x).endpoint \notin serving
                   \/ pc[x] \in Probed /\ ~ job[x].up
  <2>1. \/ pc'[x] = pc[x]
        \/ pc[x] = "dated" /\ pc'[x] = "indexed"
    BY <1>4 DEF IndexOwner, SweepWrite
  <2>2. CASE pc[x] = "idle"
    <3>1. job'[x] = job[x]
      BY <2>2 DEF IndexOwner, SweepWrite
    <3> QED
      BY <1>1, <2>1, <2>2, <3>1 DEF ProbesTyped
  <2>3. CASE pc[x] # "idle"
    <3>1. job[x] \in Assessment
      BY <1>1, <2>3 DEF WorkersOK
    <3>2. \E b : job'[x] = [job[x] EXCEPT !.rewritten = b]
      BY <2>3 DEF IndexOwner, SweepWrite
    <3>3. /\ job'[x].agent = job[x].agent /\ job'[x].info = job[x].info
          /\ job'[x].age = job[x].age /\ job'[x].flapping = job[x].flapping
          /\ job'[x].up = job[x].up
      BY <3>1, <3>2 DEF Assessment
    <3> QED
      BY <2>1, <2>3, <3>3 DEF Probed
  <2> QED
    BY <2>2, <2>3
<1>6. RateKept'
  BY <1>1, <1>3, <1>5, RateUntouched
<1>7. /\ \A a \in Agents : now'[a] >= now[a]
      /\ serving' \subseteq Endpoints /\ sinceDown' \in [Endpoints -> 0..Horizon]
      /\ \A e \in Endpoints : /\ sinceDown'[e] <= sinceDown[e]
                              /\ e \notin serving' => sinceDown'[e] = 0
  BY <1>1, <1>3, PipelineConstants DEF WorldOK, ProbesTyped, DownIsNow
<1> QED
  BY <1>2, <1>3, <1>5, <1>6, <1>7, SamplesUntouched
(* What the marketplace does, the sweep reads, and a restart forgets.      *)
LEMMA WorldKeepsProbes ==
    ASSUME ProbesInv, PipelineInv',
           \/ Restart \/ SweepRead \/ UNCHANGED vars
           \/ \E a \in Agents : Changes(a)
           \/ \E e \in Endpoints : GoesDown(e) \/ ComesBack(e)
    PROVE  ProbesInv'
<1>1. /\ PipelineInv /\ WorldOK /\ WorldOK' /\ WorkersOK /\ ProbesTyped /\ RateKept /\ DownIsNow
  BY DEF ProbesInv, PipelineInv
<1>2. UNCHANGED <<life, probe_samples>>
  BY DEF Restart, SweepRead, Changes, GoesDown, ComesBack, vars, world, tables
<1>3. ASSUME NEW x \in Workers
      PROVE  \/ pc'[x] = "idle" /\ job'[x] = NoJob
             \/ pc'[x] = pc[x] /\ job'[x] = job[x] /\ pc[x] # "idle"
  <2>1. CASE Restart
    BY <2>1 DEF Restart
  <2>2. CASE ~ Restart
    <3>1. pc' = pc /\ job' = job
      BY <2>2 DEF SweepRead, Changes, GoesDown, ComesBack, vars
    <3> QED
      BY <1>1, <3>1 DEF ProbesTyped
  <2> QED
    BY <2>1, <2>2
<1>4. RateKept'
  BY <1>1, <1>2, <1>3, RateUntouched
<1>5. \A a \in Agents : now'[a] >= now[a]
  <2>1. now \in [Agents -> Nat \ {0}]
    BY <1>1 DEF WorldOK
  <2>2. CASE \E a \in Agents : Changes(a)
    BY <2>1, <2>2 DEF Changes
  <2>3. CASE now' = now
    BY <2>1, <2>3
  <2> QED
    BY <2>2, <2>3 DEF Restart, SweepRead, GoesDown, ComesBack, vars, world
<1>6. /\ serving' \subseteq Endpoints /\ sinceDown' \in [Endpoints -> 0..Horizon]
      /\ \A e \in Endpoints : /\ sinceDown'[e] <= sinceDown[e]
                              /\ e \notin serving' => sinceDown'[e] = 0
  <2>1. serving \subseteq Endpoints /\ sinceDown \in [Endpoints -> 0..Horizon]
    BY <1>1 DEF ProbesTyped
  <2>2. Horizon \in Nat
    BY PipelineConstants
  <2>3. \A e \in Endpoints : e \notin serving => sinceDown[e] = 0
    BY <1>1 DEF DownIsNow
  <2>4. ASSUME NEW d \in Endpoints, GoesDown(d)
        PROVE  /\ serving' \subseteq Endpoints /\ sinceDown' \in [Endpoints -> 0..Horizon]
               /\ \A e \in Endpoints : /\ sinceDown'[e] <= sinceDown[e]
                                       /\ e \notin serving' => sinceDown'[e] = 0
    <3>1. serving' = serving \ {d} /\ sinceDown' = [sinceDown EXCEPT ![d] = 0]
      BY <2>4 DEF GoesDown
    <3>2. 0 \in 0..Horizon
      BY <2>2
    <3> QED
      BY <2>1, <2>2, <2>3, <3>1, <3>2
  <2>5. ASSUME NEW d \in Endpoints, ComesBack(d)
        PROVE  /\ serving' \subseteq Endpoints /\ sinceDown' \in [Endpoints -> 0..Horizon]
               /\ \A e \in Endpoints : /\ sinceDown'[e] <= sinceDown[e]
                                       /\ e \notin serving' => sinceDown'[e] = 0
    <3>1. serving' = serving \cup {d} /\ sinceDown' = sinceDown
      BY <2>5 DEF ComesBack
    <3> QED
      BY <2>1, <2>2, <2>3, <3>1
  <2>6. CASE serving' = serving /\ sinceDown' = sinceDown
    BY <2>1, <2>2, <2>3, <2>6
  <2> QED
    BY <2>4, <2>5, <2>6 DEF Restart, SweepRead, Changes, vars, world
<1>7. ASSUME NEW x \in Workers
      PROVE  \/ pc'[x] = "idle" /\ job'[x] = NoJob
             \/ /\ pc[x] # "idle" /\ pc'[x] # "idle"
                /\ job'[x].agent = job[x].agent /\ job'[x].info = job[x].info
                /\ job'[x].age = job[x].age
                /\ job'[x].flapping => job[x].flapping \/ Flapping(job[x].agent)
                /\ \/ pc'[x] \notin Probed
                   \/ job'[x].up
                   \/ Info(x).endpoint \notin serving
                   \/ pc[x] \in Probed /\ ~ job[x].up
  BY <1>3
<1> QED
  BY <1>2, <1>4, <1>5, <1>6, <1>7, SamplesUntouched

(* One more assessment of an agent begins within the rate.                 *)
LEMMA FetchKeepsProbes ==
    ASSUME ProbesInv, PipelineInv', NEW w \in Workers, NEW a \in Agents, NEW v, Fetched(w, a, v)
    PROVE  ProbesInv'
<1>1. PipelineInv /\ WorldOK /\ WorkersOK /\ ProbesTyped /\ RateKept /\ DownIsNow
  BY DEF ProbesInv, PipelineInv
<1>2. /\ UNCHANGED <<life, now, serving, sinceDown, probe_samples>> /\ pc[w] = "idle"
      /\ pc' = [pc EXCEPT ![w] = "fetched"]
  BY DEF Fetched, Goes, world, tables
<1>3. pc \in [Workers -> Stages] /\ job \in [Workers -> Assessment \cup {NoJob}]
  BY <1>1 DEF WorkersOK
<1> DEFINE j == [agent |-> a, info |-> v, up |-> FALSE, flapping |-> FALSE,
                 fleet |-> {}, rewritten |-> FALSE, age |-> 0]
<1>4. job' = [job EXCEPT ![w] = j] /\ j.agent = a /\ j.flapping = FALSE /\ j.age = 0
  BY DEF Fetched, Goes
<1> HIDE DEF j
<1>5. /\ pc'[w] = "fetched" /\ job'[w] = j
      /\ \A x \in Workers : x # w => pc'[x] = pc[x] /\ job'[x] = job[x]
  BY <1>2, <1>3, <1>4
<1>6. SumFunctionOnSet(TakenNow(a), Endpoints) + Cardinality(Busy(a)) < RATE
  <2> DEFINE Taken(e) == probe_samples[a][e].healthy[0] + probe_samples[a][e].failed[0]
  <2>1. MapThenSumSet(Taken, Endpoints) + Cardinality(Busy(a)) < RATE
    BY DEF Fetched
  <2>2. MapThenSumSet(Taken, Endpoints) = SumFunctionOnSet([e \in Endpoints |-> Taken(e)], Endpoints)
    BY DEF SumFunctionOnSet, FoldFunctionOnSet, MapThenSumSet, MapThenFoldSet
  <2>3. TakenNow(a) = [e \in Endpoints |-> Taken(e)]
    BY DEF TakenNow
  <2> HIDE DEF Taken
  <2> QED
    BY <2>1, <2>2, <2>3
<1>7. RateKept'
  <2> SUFFICES ASSUME NEW b \in Agents
               PROVE  SumFunctionOnSet(TakenNow(b), Endpoints)' + Cardinality(Busy(b)') <= RATE
    BY DEF RateKept
  <2>1. SumFunctionOnSet(TakenNow(b), Endpoints)' = SumFunctionOnSet(TakenNow(b), Endpoints)
    BY <1>2 DEF TakenNow
  <2>2. CASE b = a
    <3>1. Busy(b)' = Busy(b) \cup {w} /\ w \notin Busy(b)
      BY <1>2, <1>4, <1>5, <2>2 DEF Busy
    <3>2. Cardinality(Busy(b) \cup {w}) = Cardinality(Busy(b)) + 1
      BY <3>1, BusyFinite, FS_AddElement
    <3>3. /\ SumFunctionOnSet(TakenNow(b), Endpoints) \in Nat /\ Cardinality(Busy(b)) \in Nat
          /\ RATE \in Nat
      BY <1>1, TakenNumbers, BusyFinite, PipelineConstants
    <3> QED
      BY <1>6, <2>1, <2>2, <3>1, <3>2, <3>3
  <2>3. CASE b # a
    <3>1. Busy(b)' = Busy(b)
      BY <1>2, <1>4, <1>5, <2>3 DEF Busy
    <3> QED
      BY <1>1, <2>1, <3>1 DEF RateKept
  <2> QED
    BY <2>2, <2>3
<1>8. ASSUME NEW x \in Workers
      PROVE  \/ pc'[x] = "idle" /\ job'[x] = NoJob
             \/ pc'[x] = "fetched" /\ ~ job'[x].flapping /\ job'[x].age = 0
             \/ /\ pc[x] # "idle" /\ pc'[x] # "idle"
                /\ job'[x].agent = job[x].agent /\ job'[x].info = job[x].info
                /\ job'[x].age = job[x].age
                /\ job'[x].flapping => job[x].flapping \/ Flapping(job[x].agent)
                /\ \/ pc'[x] \notin Probed
                   \/ job'[x].up
                   \/ Info(x).endpoint \notin serving
                   \/ pc[x] \in Probed /\ ~ job[x].up
  <2>1. CASE x = w
    BY <1>4, <1>5, <2>1
  <2>2. CASE x # w
    BY <1>1, <1>5, <2>2 DEF ProbesTyped
  <2> QED
    BY <2>1, <2>2
<1>9. /\ \A b \in Agents : now'[b] >= now[b]
      /\ serving' \subseteq Endpoints /\ sinceDown' \in [Endpoints -> 0..Horizon]
      /\ \A e \in Endpoints : /\ sinceDown'[e] <= sinceDown[e]
                              /\ e \notin serving' => sinceDown'[e] = 0
  BY <1>1, <1>2, PipelineConstants DEF WorldOK, ProbesTyped, DownIsNow
<1> QED
  BY <1>2, <1>7, <1>8, <1>9, SamplesUntouched
(* One sample more, and one assessment fewer that may still record one.    *)
LEMMA OneMoreSample ==
    ASSUME NEW r, NEW up \in BOOLEAN,
           r \in [healthy : [Ages -> Nat], failed : [Ages -> Nat]]
    PROVE  LET kind == IF up THEN "healthy" ELSE "failed"
               R == [r EXCEPT ![kind] = [r[kind] EXCEPT ![0] = r[kind][0] + 1]]
           IN  /\ R \in [healthy : [Ages -> Nat], failed : [Ages -> Nat]]
               /\ R.healthy[0] + R.failed[0] = r.healthy[0] + r.failed[0] + 1
               /\ \A i \in Ages : /\ i # 0 => /\ R.healthy[i] = r.healthy[i]
                                              /\ R.failed[i] = r.failed[i]
                                  /\ up => R.failed[i] = r.failed[i]
<1>1. 0 \in Ages
  BY PipelineConstants
<1>2. /\ r.healthy \in [Ages -> Nat] /\ r.failed \in [Ages -> Nat]
      /\ r.healthy[0] \in Nat /\ r.failed[0] \in Nat
  BY <1>1
<1>3. CASE up
  <2> DEFINE h == [r.healthy EXCEPT ![0] = r.healthy[0] + 1]
             R == [r EXCEPT !.healthy = h]
  <2>1. h \in [Ages -> Nat] /\ h[0] = r.healthy[0] + 1
        /\ \A i \in Ages : i # 0 => h[i] = r.healthy[i]
    BY <1>1, <1>2
  <2> HIDE DEF h
  <2>2. /\ R \in [healthy : [Ages -> Nat], failed : [Ages -> Nat]]
        /\ R.healthy = h /\ R.failed = r.failed
    BY <1>2, <2>1
  <2> HIDE DEF R
  <2>3. R.healthy[0] + R.failed[0] = r.healthy[0] + r.failed[0] + 1
    BY <1>2, <2>1, <2>2
  <2>4. R = [r EXCEPT !["healthy"] = [r["healthy"] EXCEPT ![0] = r["healthy"][0] + 1]]
    BY DEF R, h
  <2> QED
    BY <1>3, <2>1, <2>2, <2>3, <2>4
<1>4. CASE ~ up
  <2> DEFINE h == [r.failed EXCEPT ![0] = r.failed[0] + 1]
             R == [r EXCEPT !.failed = h]
  <2>1. h \in [Ages -> Nat] /\ h[0] = r.failed[0] + 1
        /\ \A i \in Ages : i # 0 => h[i] = r.failed[i]
    BY <1>1, <1>2
  <2> HIDE DEF h
  <2>2. /\ R \in [healthy : [Ages -> Nat], failed : [Ages -> Nat]]
        /\ R.failed = h /\ R.healthy = r.healthy
    BY <1>2, <2>1
  <2> HIDE DEF R
  <2>3. R.healthy[0] + R.failed[0] = r.healthy[0] + r.failed[0] + 1
    BY <1>2, <2>1, <2>2
  <2>4. R = [r EXCEPT !["failed"] = [r["failed"] EXCEPT ![0] = r["failed"][0] + 1]]
    BY DEF R, h
  <2> QED
    BY <1>4, <2>1, <2>2, <2>3, <2>4
<1> QED
  BY <1>3, <1>4
LEMMA RecordKeepsProbes ==
    ASSUME ProbesInv, PipelineInv', NEW w \in Workers, RecordProbes(w)
    PROVE  ProbesInv'
<1>1. /\ PipelineInv /\ WorldOK /\ WorkersOK /\ ProbesTyped /\ RateKept /\ DownIsNow
      /\ RefusalIsRecent /\ FailureIsRecent /\ FlappingIsRecent
  BY DEF ProbesInv, PipelineInv, Failures
<1> DEFINE a == job[w].agent
           e == Info(w).endpoint
           r == probe_samples[a][e]
           kind == IF job[w].up THEN "healthy" ELSE "failed"
           R == [r EXCEPT ![kind] = [r[kind] EXCEPT ![0] = r[kind][0] + 1]]
<1>2. /\ UNCHANGED <<life, now, serving, sinceDown>> /\ pc[w] = "judged"
      /\ pc' = [pc EXCEPT ![w] = "idle"] /\ job' = [job EXCEPT ![w] = NoJob]
  BY DEF RecordProbes, Goes, world
<1>3. /\ pc'[w] = "idle" /\ job'[w] = NoJob
      /\ \A x \in Workers : x # w => pc'[x] = pc[x] /\ job'[x] = job[x]
  BY <1>1, <1>2 DEF WorkersOK
<1>4. \A x \in Workers : \/ pc'[x] = "idle" /\ job'[x] = NoJob
                         \/ pc'[x] = pc[x] /\ job'[x] = job[x] /\ pc[x] # "idle"
  BY <1>1, <1>3 DEF ProbesTyped
<1>5. job[w] \in Assessment /\ WasListed(a, job[w].info) /\ job[w].age \in 0..ASSESS_TIME
  BY <1>1, <1>2 DEF WorkersOK, ProbesTyped
<1>6. CASE ~ Hosted(w)
  <2>1. probe_samples' = probe_samples
    BY <1>6 DEF RecordProbes
  <2>2. RateKept'
    BY <1>1, <1>4, <2>1, RateUntouched
  <2>3. /\ \A b \in Agents : now'[b] >= now[b]
        /\ serving' \subseteq Endpoints /\ sinceDown' \in [Endpoints -> 0..Horizon]
        /\ \A d \in Endpoints : /\ sinceDown'[d] <= sinceDown[d]
                                /\ d \notin serving' => sinceDown'[d] = 0
    BY <1>1, <1>2, PipelineConstants DEF WorldOK, ProbesTyped, DownIsNow
  <2>4. ASSUME NEW x \in Workers
        PROVE  \/ pc'[x] = "idle" /\ job'[x] = NoJob
               \/ pc'[x] = "fetched" /\ ~ job'[x].flapping /\ job'[x].age = 0
               \/ /\ pc[x] # "idle" /\ pc'[x] # "idle"
                  /\ job'[x].agent = job[x].agent /\ job'[x].info = job[x].info
                  /\ job'[x].age = job[x].age
                  /\ job'[x].flapping => job[x].flapping \/ Flapping(job[x].agent)
                  /\ \/ pc'[x] \notin Probed
                     \/ job'[x].up
                     \/ Info(x).endpoint \notin serving
                     \/ pc[x] \in Probed /\ ~ job[x].up
    BY <1>4
  <2> QED
    BY <1>2, <2>1, <2>2, <2>3, <2>4, SamplesUntouched
<1>7. CASE Hosted(w)
  <2>1. a \in Agents /\ e \in Endpoints /\ e \in Listed(a)
    <3>1. a \in Agents /\ job[w].info \in DOMAIN life[a] /\ job[w].info \in 1..now[a]
      BY <1>5 DEF Assessment, WasListed
    <3>2. life[a] \in Seq(Version) /\ e = life[a][job[w].info].endpoint
      BY <1>1, <3>1 DEF WorldOK, Info
    <3>3. e \in Endpoints
      <4>1. Info(w) \in Version
        BY <3>1, <3>2 DEF Info
      <4> QED
        BY <1>7, <4>1 DEF Version, Hosted
    <3> QED
      BY <3>1, <3>2, <3>3 DEF Listed
  <2>2. probe_samples' = [probe_samples EXCEPT ![a] = [probe_samples[a] EXCEPT ![e] = R]]
    BY <1>7 DEF RecordProbes
  <2>3. /\ R \in [healthy : [Ages -> Nat], failed : [Ages -> Nat]]
        /\ R.healthy[0] + R.failed[0] = r.healthy[0] + r.failed[0] + 1
        /\ \A i \in Ages : /\ i # 0 => R.healthy[i] = r.healthy[i] /\ R.failed[i] = r.failed[i]
                           /\ job[w].up => R.failed[i] = r.failed[i]
    <3> DEFINE s == probe_samples[a][e]
               up == job[w].up
    <3>1. s \in [healthy : [Ages -> Nat], failed : [Ages -> Nat]]
      <4>1. s \in Tallies
        BY <1>1, <2>1, SamplesTyped
      <4>2. 0..RATE \subseteq Nat
        BY PipelineConstants
      <4> HIDE DEF s
      <4> QED
        BY <4>1, <4>2 DEF Tallies
    <3>2. up \in BOOLEAN
      BY <1>5 DEF Assessment
    <3> HIDE DEF s, up
    <3>3. LET k == IF up THEN "healthy" ELSE "failed"
              S == [s EXCEPT ![k] = [s[k] EXCEPT ![0] = s[k][0] + 1]]
          IN  /\ S \in [healthy : [Ages -> Nat], failed : [Ages -> Nat]]
              /\ S.healthy[0] + S.failed[0] = s.healthy[0] + s.failed[0] + 1
              /\ \A i \in Ages : /\ i # 0 => /\ S.healthy[i] = s.healthy[i]
                                             /\ S.failed[i] = s.failed[i]
                                 /\ up => S.failed[i] = s.failed[i]
      BY <3>1, <3>2, OneMoreSample
    <3> QED
      BY <3>3 DEF s, up
  <2> HIDE DEF R
  <2>4. \A b \in Agents, d \in Endpoints :
            probe_samples'[b][d] = IF b = a /\ d = e THEN R ELSE probe_samples[b][d]
    <3>1. probe_samples \in [Agents -> [Endpoints -> Tallies]]
      BY <1>1 DEF ProbesTyped
    <3> HIDE DEF a, e
    <3>2. probe_samples[a] \in [Endpoints -> Tallies]
      BY <2>1, <3>1
    <3>3. \A b \in Agents : probe_samples'[b]
            = IF b = a THEN [probe_samples[a] EXCEPT ![e] = R] ELSE probe_samples[b]
      BY <2>1, <2>2, <3>1
    <3> QED
      BY <2>1, <3>2, <3>3
  <2> HIDE DEF r
  <2>5. RateKept'
    <3> SUFFICES ASSUME NEW b \in Agents
                 PROVE  SumFunctionOnSet(TakenNow(b), Endpoints)' + Cardinality(Busy(b)') <= RATE
      BY DEF RateKept
    <3>1. /\ SumFunctionOnSet(TakenNow(b), Endpoints) + Cardinality(Busy(b)) <= RATE
          /\ SumFunctionOnSet(TakenNow(b), Endpoints) \in Nat /\ Cardinality(Busy(b)) \in Nat
          /\ IsFiniteSet(Busy(b)) /\ RATE \in Nat
      BY <1>1, TakenNumbers, BusyFinite, PipelineConstants DEF RateKept
    <3>2. CASE b # a
      <4>1. TakenNow(b)' = TakenNow(b)
        BY <2>4, <3>2 DEF TakenNow
      <4>2. Busy(b)' = Busy(b)
        BY <1>2, <1>3, <3>2 DEF Busy
      <4> QED
        BY <3>1, <4>1, <4>2
    <3>3. CASE b = a
      <4>1. Busy(b)' = Busy(b) \ {w} /\ w \in Busy(b)
        BY <1>2, <1>3, <3>3 DEF Busy
      <4>2. Cardinality(Busy(b) \ {w}) = Cardinality(Busy(b)) - 1
        BY <3>1, <4>1, FS_RemoveElement
      <4> DEFINE before == TakenNow(b)
                 after == TakenNow(b)'
      <4>3. /\ after[e] = before[e] + 1
            /\ \A d \in Endpoints \ {e} : before[d] = after[d]
        <5>1. after[e] = R.healthy[0] + R.failed[0] /\ before[e] = r.healthy[0] + r.failed[0]
          BY <2>1, <2>4, <3>3 DEF TakenNow, r
        <5>2. \A d \in Endpoints \ {e} : before[d] = after[d]
          BY <2>4 DEF TakenNow
        <5> QED
          BY <2>3, <5>1, <5>2
      <4>4. \A d \in Endpoints : before[d] \in Nat
        BY <1>1, TakenNumbers
      <4> HIDE DEF before, after, e
      <4>5. \A d \in Endpoints : before[d] \in Int /\ after[d] \in Int
        BY <2>1, <4>3, <4>4
      <4>6. SumFunctionOnSet(after, Endpoints)
              = SumFunctionOnSet(before, Endpoints) - before[e] + after[e]
        BY <2>1, <4>3, <4>5, SumMoved, PipelineConstants
      <4>7. SumFunctionOnSet(before, Endpoints) \in Nat /\ before[e] \in Nat
        BY <2>1, <3>1, <4>4 DEF before
      <4>8. SumFunctionOnSet(after, Endpoints) = SumFunctionOnSet(before, Endpoints) + 1
        BY <4>3, <4>6, <4>7
      <4> QED
        BY <3>1, <4>1, <4>2, <4>8 DEF before, after
    <3> QED
      BY <3>2, <3>3
  <2>6. ProbesTyped'
    <3>1. R \in Tallies
      <4>1. R.healthy[0] + R.failed[0] <= RATE
        <5>1. \A d \in Endpoints : TakenNow(a)[d] \in Nat
          BY <1>1, <2>1, TakenNumbers
        <5>2. TakenNow(a)[e] <= SumFunctionOnSet(TakenNow(a), Endpoints)
          <6> DEFINE f == TakenNow(a)
          <6>1. \A d \in Endpoints : f[d] \in Nat
            BY <5>1
          <6> HIDE DEF f, e
          <6>2. f[e] <= SumFunctionOnSet(f, Endpoints)
            BY <2>1, <6>1, TermInSum, PipelineConstants
          <6> QED
            BY <6>2 DEF f
        <5>3. Cardinality(Busy(a)) >= 1
          <6>1. w \in Busy(a)
            BY <1>2 DEF Busy
          <6>2. Cardinality(Busy(a)) # 0
            BY <2>1, <6>1, BusyFinite, FS_EmptySet
          <6> QED
            BY <2>1, <6>2, BusyFinite
        <5>4. SumFunctionOnSet(TakenNow(a), Endpoints) + Cardinality(Busy(a)) <= RATE
          BY <1>1, <2>1 DEF RateKept
        <5>5. SumFunctionOnSet(TakenNow(a), Endpoints) \in Nat /\ Cardinality(Busy(a)) \in Nat
          BY <1>1, <2>1, TakenNumbers, BusyFinite
        <5>6. TakenNow(a)[e] = r.healthy[0] + r.failed[0] /\ TakenNow(a)[e] \in Nat
          BY <2>1, <5>1 DEF TakenNow, r
        <5> QED
          BY <2>3, <5>2, <5>3, <5>4, <5>5, <5>6, PipelineConstants
      <4>2. \A i \in Ages : R.healthy[i] \in Nat /\ R.failed[i] \in Nat
        BY <2>3
      <4>3. \A i \in Ages : r.healthy[i] \in 0..RATE /\ r.failed[i] \in 0..RATE
        BY <1>1, <2>1, SamplesTyped DEF r
      <4>4. R.healthy[0] \in 0..RATE /\ R.failed[0] \in 0..RATE
        BY <4>1, <4>2, PipelineConstants
      <4>5. \A i \in Ages : R.healthy[i] \in 0..RATE /\ R.failed[i] \in 0..RATE
        BY <2>3, <4>3, <4>4
      <4>6. R \in [healthy : [Ages -> Nat], failed : [Ages -> Nat]]
        BY <2>3
      <4> QED
        BY <4>5, <4>6 DEF Tallies
    <3>2. probe_samples' \in [Agents -> [Endpoints -> Tallies]]
      <4>1. probe_samples \in [Agents -> [Endpoints -> Tallies]]
        BY <1>1 DEF ProbesTyped
      <4> HIDE DEF a, e
      <4>2. [probe_samples[a] EXCEPT ![e] = R] \in [Endpoints -> Tallies]
        BY <2>1, <3>1, <4>1
      <4> QED
        BY <2>2, <4>1, <4>2
    <3>3. ASSUME NEW x \in Workers
          PROVE  IF pc'[x] = "idle" THEN job'[x] = NoJob ELSE job'[x].age \in 0..ASSESS_TIME
      BY <1>1, <1>4 DEF ProbesTyped
    <3> QED
      BY <1>1, <1>2, <3>2, <3>3 DEF ProbesTyped
  <2>7. FailureIsRecent'
    <3> SUFFICES ASSUME NEW b \in Agents, NEW d \in Endpoints, NEW i \in InWindow,
                        probe_samples'[b][d].failed[i] > 0
                 PROVE  d \in Listed(b) /\ sinceDown[d] <= ASSESS_TIME + i
      BY <1>2 DEF FailureIsRecent, Listed
    <3>1. CASE probe_samples[b][d].failed[i] > 0
      BY <1>1, <3>1 DEF FailureIsRecent
    <3>2. CASE ~ probe_samples[b][d].failed[i] > 0
      <4>1. b = a /\ d = e /\ i = 0 /\ ~ job[w].up
        <5>1. i \in Ages
          BY PipelineConstants
        <5>2. b = a /\ d = e
          BY <2>4, <3>2
        <5>3. R.failed[i] > 0 /\ ~ r.failed[i] > 0
          BY <2>4, <3>2, <5>2 DEF r
        <5> QED
          BY <2>3, <5>1, <5>2, <5>3
      <4>2. sinceDown[e] <= job[w].age
        BY <1>1, <1>2, <1>7, <4>1 DEF RefusalIsRecent, Probed
      <4>3. sinceDown[e] \in Nat
        BY <1>1, <2>1, PipelineConstants DEF ProbesTyped
      <4>4. sinceDown[e] <= ASSESS_TIME
        <5>1. job[w].age \in 0..ASSESS_TIME
          BY <1>5
        <5> HIDE DEF e
        <5> QED
          BY <4>2, <4>3, <5>1, PipelineConstants
      <4> QED
        BY <2>1, <4>1, <4>3, <4>4, PipelineConstants
    <3> QED
      BY <3>1, <3>2
  <2>8. DownIsNow'
    BY <1>1, <1>2 DEF DownIsNow
  <2>9. RefusalIsRecent'
    BY <1>1, <1>2, <1>4 DEF RefusalIsRecent, Hosted, Info, Probed
  <2>10. FlappingIsRecent'
    <3> SUFFICES ASSUME NEW x \in Workers, pc'[x] # "idle", job'[x].flapping
                 PROVE  \E d \in Listed(job[x].agent)' \cap Endpoints :
                           sinceDown'[d] <= WINDOW + ASSESS_TIME + job'[x].age
      BY DEF FlappingIsRecent
    <3>1. pc[x] # "idle" /\ job'[x] = job[x]
      BY <1>4
    <3>2. Listed(job[x].agent)' = Listed(job[x].agent)
      BY <1>2, <3>1 DEF Listed
    <3> QED
      BY <1>1, <1>2, <3>1, <3>2 DEF FlappingIsRecent
  <2> QED
    BY <2>5, <2>6, <2>7, <2>8, <2>9, <2>10 DEF ProbesInv, Failures
<1> QED
  BY <1>6, <1>7
(* A tick ages the samples and the assessments by as much as the failures  *)
(* they stand for.                                                         *)
LEMMA OlderTyped ==
    ASSUME NEW f \in [Ages -> 0..RATE]
    PROVE  /\ Older(f) \in [Ages -> 0..RATE] /\ Older(f)[0] = 0
           /\ \A i \in InWindow : Older(f)[i] > 0 => i # 0 /\ i - 1 \in InWindow /\ f[i - 1] > 0
<1>1. RATE \in Nat /\ WINDOW \in Nat /\ Ages = 0..WINDOW + 1 /\ Aged = WINDOW + 1
      /\ InWindow = 0..WINDOW
  BY PipelineConstants DEF Ages
<1>2. \A i \in Ages : f[i] \in 0..RATE
  OBVIOUS
<1>3. \A i \in Ages : Older(f)[i] = IF i = 0 THEN 0
                                    ELSE IF i = Aged THEN Lesser(f[WINDOW] + f[Aged], RATE)
                                    ELSE f[i - 1]
  BY DEF Older, Ages
<1>4. Lesser(f[WINDOW] + f[Aged], RATE) \in 0..RATE
  <2>1. f[WINDOW] \in 0..RATE /\ f[Aged] \in 0..RATE
    BY <1>1, <1>2
  <2> QED
    BY <1>1, <2>1 DEF Lesser
<1>5. \A i \in Ages : i # 0 => i - 1 \in Ages
  BY <1>1
<1>6. \A i \in Ages : Older(f)[i] \in 0..RATE
  <2> SUFFICES ASSUME NEW i \in Ages PROVE Older(f)[i] \in 0..RATE
    OBVIOUS
  <2>1. CASE i = 0
    BY <1>1, <1>3, <2>1
  <2>2. CASE i = Aged /\ i # 0
    BY <1>3, <1>4, <2>2
  <2>3. CASE i # 0 /\ i # Aged
    BY <1>2, <1>3, <1>5, <2>3
  <2> QED
    BY <2>1, <2>2, <2>3
<1>7. Older(f) \in [Ages -> 0..RATE]
  BY <1>6 DEF Older, Ages
<1>8. Older(f)[0] = 0
  BY <1>1, <1>3
<1>9. ASSUME NEW i \in InWindow, Older(f)[i] > 0 PROVE i # 0 /\ i - 1 \in InWindow /\ f[i - 1] > 0
  <2>1. i \in Ages /\ i # Aged
    BY <1>1
  <2>2. i # 0
    BY <1>8, <1>9
  <2>3. Older(f)[i] = f[i - 1]
    BY <1>3, <2>1, <2>2
  <2> QED
    BY <1>1, <1>9, <2>2, <2>3
<1> QED
  BY <1>7, <1>8, <1>9

LEMMA TickKeepsProbes == ASSUME ProbesInv, PipelineInv', Tick PROVE ProbesInv'
<1>1. /\ PipelineInv /\ WorldOK /\ WorkersOK /\ ProbesTyped /\ RateKept /\ DownIsNow
      /\ RefusalIsRecent /\ FailureIsRecent /\ FlappingIsRecent
  BY DEF ProbesInv, PipelineInv, Failures
<1>2. /\ UNCHANGED <<life, now, serving, pc>>
      /\ \A w \in Workers : pc[w] # "idle" => job[w].age < ASSESS_TIME
      /\ job' = [w \in Workers |-> IF pc[w] = "idle" THEN job[w]
                                   ELSE [job[w] EXCEPT !.age = @ + 1]]
      /\ probe_samples' = [a \in Agents |-> [e \in Endpoints |->
                             [healthy |-> Older(probe_samples[a][e].healthy),
                              failed |-> Older(probe_samples[a][e].failed)]]]
      /\ sinceDown' = [e \in Endpoints |-> IF e \in serving
                         THEN Lesser(sinceDown[e] + 1, Horizon) ELSE 0]
  BY DEF Tick
<1>3. \A e \in Endpoints : /\ sinceDown[e] \in Nat /\ sinceDown'[e] \in 0..Horizon
                           /\ sinceDown'[e] \in Nat /\ sinceDown'[e] <= sinceDown[e] + 1
                           /\ e \notin serving => sinceDown'[e] = 0
  <2>1. \A e \in Endpoints : sinceDown[e] \in Nat /\ Horizon \in Nat
    BY <1>1, PipelineConstants DEF ProbesTyped
  <2>2. \A e \in Endpoints : sinceDown'[e] = IF e \in serving
                               THEN Lesser(sinceDown[e] + 1, Horizon) ELSE 0
    BY <1>2
  <2>3. \A n \in Nat : /\ Lesser(n + 1, Horizon) \in 0..Horizon
                       /\ Lesser(n + 1, Horizon) <= n + 1
    BY PipelineConstants DEF Lesser
  <2>4. 0 \in 0..Horizon /\ 0..Horizon \subseteq Nat
    BY PipelineConstants
  <2>5. ASSUME NEW e \in Endpoints
        PROVE  sinceDown'[e] \in 0..Horizon /\ sinceDown'[e] <= sinceDown[e] + 1
    <3>1. CASE e \in serving
      BY <2>1, <2>2, <2>3, <3>1
    <3>2. CASE e \notin serving
      BY <2>1, <2>2, <2>4, <3>2
    <3> QED
      BY <3>1, <3>2
  <2> QED
    BY <2>1, <2>2, <2>4, <2>5
<1>4. ASSUME NEW w \in Workers, pc[w] # "idle"
      PROVE  /\ job[w] \in Assessment
             /\ job'[w].agent = job[w].agent /\ job'[w].info = job[w].info
             /\ job'[w].flapping = job[w].flapping /\ job'[w].up = job[w].up
             /\ job'[w].age = job[w].age + 1 /\ job[w].age \in Nat
             /\ job'[w].age \in 0..ASSESS_TIME
  <2>1. job[w] \in Assessment /\ job[w].age \in 0..ASSESS_TIME /\ job[w].age < ASSESS_TIME
    BY <1>1, <1>2, <1>4 DEF WorkersOK, ProbesTyped
  <2>2. job'[w] = [job[w] EXCEPT !.age = job[w].age + 1]
    BY <1>2, <1>4
  <2>3. /\ job'[w].agent = job[w].agent /\ job'[w].info = job[w].info
        /\ job'[w].flapping = job[w].flapping /\ job'[w].up = job[w].up
        /\ job'[w].age = job[w].age + 1
    BY <2>1, <2>2 DEF Assessment
  <2> QED
    BY <2>1, <2>3, PipelineConstants
<1>5. ASSUME NEW a \in Agents, NEW e \in Endpoints
      PROVE  /\ probe_samples'[a][e] \in Tallies
             /\ probe_samples'[a][e].healthy[0] = 0 /\ probe_samples'[a][e].failed[0] = 0
             /\ \A i \in InWindow : probe_samples'[a][e].failed[i] > 0 =>
                  i # 0 /\ i - 1 \in InWindow /\ probe_samples[a][e].failed[i - 1] > 0
  <2> DEFINE h == probe_samples[a][e].healthy
             f == probe_samples[a][e].failed
  <2>1. h \in [Ages -> 0..RATE] /\ f \in [Ages -> 0..RATE]
    BY <1>1, SamplesTyped
  <2>2. probe_samples'[a][e] = [healthy |-> Older(h), failed |-> Older(f)]
    BY <1>2
  <2> HIDE DEF h, f
  <2>3. /\ Older(h) \in [Ages -> 0..RATE] /\ Older(h)[0] = 0
        /\ Older(f) \in [Ages -> 0..RATE] /\ Older(f)[0] = 0
        /\ \A i \in InWindow : Older(f)[i] > 0 => i # 0 /\ i - 1 \in InWindow /\ f[i - 1] > 0
    BY <2>1, OlderTyped
  <2>4. probe_samples'[a][e].healthy = Older(h) /\ probe_samples'[a][e].failed = Older(f)
    BY <2>2
  <2>5. probe_samples'[a][e] \in Tallies
    BY <2>2, <2>3 DEF Tallies
  <2> QED
    BY <2>3, <2>4, <2>5 DEF f
<1>6. ProbesTyped'
  <2>1. probe_samples' \in [Agents -> [Endpoints -> Tallies]]
    BY <1>2, <1>5
  <2>2. sinceDown' \in [Endpoints -> 0..Horizon]
    BY <1>2, <1>3
  <2>3. ASSUME NEW w \in Workers
        PROVE  IF pc[w] = "idle" THEN job'[w] = NoJob ELSE job'[w].age \in 0..ASSESS_TIME
    BY <1>1, <1>2, <1>4 DEF ProbesTyped
  <2> QED
    BY <1>1, <1>2, <2>1, <2>2, <2>3 DEF ProbesTyped
<1>7. RateKept'
  <2> SUFFICES ASSUME NEW a \in Agents
               PROVE  SumFunctionOnSet(TakenNow(a), Endpoints)' + Cardinality(Busy(a)') <= RATE
    BY DEF RateKept
  <2> DEFINE after == TakenNow(a)'
  <2>1. \A e \in Endpoints : after[e] = 0
    BY <1>5 DEF TakenNow
  <2> HIDE DEF after
  <2>2. SumFunctionOnSet(after, Endpoints) = 0
    BY <2>1, SumZero, PipelineConstants
  <2>3. Busy(a)' = Busy(a)
    BY <1>2, <1>4 DEF Busy
  <2>4. /\ SumFunctionOnSet(TakenNow(a), Endpoints) + Cardinality(Busy(a)) <= RATE
        /\ SumFunctionOnSet(TakenNow(a), Endpoints) \in Nat /\ Cardinality(Busy(a)) \in Nat
    BY <1>1, TakenNumbers, BusyFinite DEF RateKept
  <2> QED
    BY <2>2, <2>3, <2>4, PipelineConstants DEF after
<1>8. DownIsNow'
  BY <1>2, <1>3 DEF DownIsNow
<1>9. FailureIsRecent'
  <2> SUFFICES ASSUME NEW a \in Agents, NEW e \in Endpoints, NEW i \in InWindow,
                      probe_samples'[a][e].failed[i] > 0
               PROVE  e \in Listed(a) /\ sinceDown'[e] <= ASSESS_TIME + i
    BY <1>2 DEF FailureIsRecent, Listed
  <2>1. i - 1 \in InWindow /\ probe_samples[a][e].failed[i - 1] > 0
    BY <1>5
  <2>2. e \in Listed(a) /\ sinceDown[e] <= ASSESS_TIME + (i - 1)
    BY <1>1, <2>1 DEF FailureIsRecent
  <2>3. i \in Nat
    BY PipelineConstants
  <2> QED
    BY <1>3, <2>2, <2>3, PipelineConstants
<1>10. RefusalIsRecent'
  <2> SUFFICES ASSUME NEW w \in Workers, pc[w] \in Probed, Info(w)'.endpoint # NoEndpoint,
                      ~ job'[w].up
               PROVE  sinceDown'[Info(w)'.endpoint] <= job'[w].age
    BY <1>2 DEF RefusalIsRecent, Hosted
  <2>1. pc[w] # "idle"
    BY DEF Probed
  <2>2. Info(w)' = Info(w)
    BY <1>2, <1>4, <2>1 DEF Info
  <2>3. sinceDown[Info(w).endpoint] <= job[w].age
    BY <1>1, <1>4, <2>1, <2>2 DEF RefusalIsRecent, Hosted
  <2>4. Info(w).endpoint \in Endpoints
    <3>1. life[job[w].agent] \in Seq(Version) /\ job[w].info \in DOMAIN life[job[w].agent]
      BY <1>1, <1>4, <2>1 DEF WorldOK, WorkersOK, WasListed, Assessment
    <3>2. Info(w) \in Version
      BY <3>1 DEF Info
    <3> QED
      BY <2>2, <3>2 DEF Version
  <2> QED
    BY <1>3, <1>4, <2>1, <2>2, <2>3, <2>4
<1>11. FlappingIsRecent'
  <2> SUFFICES ASSUME NEW w \in Workers, pc[w] # "idle", job'[w].flapping
               PROVE  \E e \in Listed(job[w].agent)' \cap Endpoints :
                         sinceDown'[e] <= WINDOW + ASSESS_TIME + job'[w].age
    BY <1>2 DEF FlappingIsRecent
  <2>1. PICK e \in Listed(job[w].agent) \cap Endpoints :
           sinceDown[e] <= WINDOW + ASSESS_TIME + job[w].age
    BY <1>1, <1>4 DEF FlappingIsRecent
  <2>2. Listed(job[w].agent)' = Listed(job[w].agent)
    <3>1. job'[w].agent = job[w].agent /\ life' = life /\ now' = now
      BY <1>2, <1>4
    <3> QED
      BY <3>1 DEF Listed
  <2>3. sinceDown'[e] <= WINDOW + ASSESS_TIME + job'[w].age
    BY <1>3, <1>4, <2>1, PipelineConstants
  <2> QED
    BY <2>1, <2>2, <2>3
<1> QED
  BY <1>6, <1>7, <1>8, <1>9, <1>10, <1>11 DEF ProbesInv, Failures

LEMMA ProbesHold == Spec => []ProbesInv
<1>1. ProbesInv /\ [Next]_vars => ProbesInv'
  <2> SUFFICES ASSUME ProbesInv, [Next]_vars PROVE ProbesInv'
    OBVIOUS
  <2>1. PipelineInv'
    BY PipelineStep DEF ProbesInv
  <2>2. ASSUME NEW w \in Workers, Works(w) \/ Abort(w) PROVE ProbesInv'
    BY <2>1, <2>2, WorkKeepsProbes, IndexKeepsProbes, RecordKeepsProbes DEF Works
  <2>3. ASSUME NEW w \in Workers, NEW a \in Agents, FetchFresh(w, a) \/ FetchKnown(w, a)
        PROVE  ProbesInv'
    BY <2>1, <2>3, FetchKeepsProbes DEF FetchFresh, FetchKnown
  <2>4. ASSUME NEW a \in Agents, SweepWrite(a) \/ Changes(a) PROVE ProbesInv'
    BY <2>1, <2>4, IndexKeepsProbes, WorldKeepsProbes
  <2>5. ASSUME NEW e \in Endpoints, GoesDown(e) \/ ComesBack(e) PROVE ProbesInv'
    BY <2>1, <2>5, WorldKeepsProbes
  <2>6. CASE SweepRead \/ Restart \/ UNCHANGED vars
    BY <2>1, <2>6, WorldKeepsProbes
  <2>7. CASE Tick
    BY <2>1, <2>7, TickKeepsProbes
  <2> QED
    BY <2>2, <2>3, <2>4, <2>5, <2>6, <2>7 DEF Next
<1> QED
  BY <1>1, ProbesInit, PTL DEF Spec

(* verify.py, assess(): every row, sample and stage keeps its type: what   *)
(* is read is a version there has been, and what is counted of an agent in *)
(* a tick stays within its rate.                                           *)
THEOREM PipelineTyped == Spec => []TypeOK
<1>1. ProbesInv => TypeOK
  <2> SUFFICES ASSUME ProbesInv PROVE TypeOK
    OBVIOUS
  <2>1. WorldOK /\ WorkersOK /\ ProbesTyped
    BY DEF ProbesInv, PipelineInv
  <2>2. \A a \in Agents : {cache[a], batch[a]} \subseteq 0..now[a]
    BY <2>1 DEF WorldOK, WasListed
  <2>3. \A a \in Agents, e \in Endpoints : \A i \in 0..Aged :
          {probe_samples[a][e].healthy[i], probe_samples[a][e].failed[i]} \subseteq 0..RATE
    BY <2>1, SamplesTyped DEF Ages
  <2>4. ASSUME NEW w \in Workers
        PROVE  \/ pc[w] = "idle" /\ job[w] = NoJob
               \/ /\ pc[w] \in {"fetched", "probed", "dated", "indexed", "judged"}
                  /\ job[w].agent \in Agents /\ job[w].info \in 1..now[job[w].agent]
                  /\ job[w].fleet \subseteq Agents /\ job[w].age \in 0..ASSESS_TIME
    BY <2>1 DEF WorkersOK, ProbesTyped, Stages, Assessment, WasListed
  <2> QED
    BY <2>1, <2>2, <2>3, <2>4 DEF TypeOK, WorldOK, ProbesTyped, Rows
<1> QED
  BY <1>1, ProbesHold, PTL

(* store.py:183-201, engine.py:220-226: a worker that finds the agent      *)
(* flapping stands on an outage of an endpoint it lists, or did, within    *)
(* the window and the time of two assessments.                             *)
THEOREM FlappingHasReason == Spec => []FlappingWasDown
<1>1. ProbesInv => FlappingWasDown
  <2> SUFFICES ASSUME ProbesInv, NEW w \in Workers, pc[w] # "idle", job[w].flapping
               PROVE  \E e \in Listed(job[w].agent) \ {NoEndpoint} : sinceDown[e] < Horizon
    BY DEF FlappingWasDown
  <2>1. ProbesTyped /\ FlappingIsRecent
    BY DEF ProbesInv, Failures
  <2>2. PICK e \in Listed(job[w].agent) \cap Endpoints :
           sinceDown[e] <= WINDOW + ASSESS_TIME + job[w].age
    BY <2>1 DEF FlappingIsRecent
  <2>3. e # NoEndpoint
    BY PipelineAssumption
  <2>4. sinceDown[e] \in Nat /\ job[w].age \in 0..ASSESS_TIME
    BY <2>1, PipelineConstants DEF ProbesTyped
  <2>5. sinceDown[e] < Horizon
    BY <2>2, <2>4, PipelineConstants
  <2> QED
    BY <2>2, <2>3, <2>5
<1> QED
  BY <1>1, ProbesHold, PTL
=============================================================================
