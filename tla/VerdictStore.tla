----------------------------- MODULE VerdictStore -----------------------------
(***************************************************************************)
(* oracle/store.py: the verdict history and the transitions table.         *)
(*                                                                         *)
(* store.record() opens the database twice.  It stamps issued_at (whole    *)
(* seconds), reads the previous verdict through last_verdict() in a first  *)
(* connection, closes it, and only then inserts the new verdict and, iff   *)
(* the verdict moved against what it READ, a transition, in a second one.  *)
(* Every /verify, /audit, /seal and /passport runs it in a thread pool     *)
(* worker (app.py:328), so calls about one agent interleave between those  *)
(* three points.  Nothing serialises them.                                 *)
(*                                                                         *)
(* Rows are never deleted or updated; the position of a row in `rows` is   *)
(* its AUTOINCREMENT id.  Scores, digests, the state hash and the wording  *)
(* of a transition's reason are left out: they travel with the verdict.    *)
(***************************************************************************)
EXTENDS Naturals, Sequences, FiniteSets

CONSTANTS
  Workers,     \* thread pool workers that may be inside store.record()
  Agents,      \* agents with a numeric id
  Verdicts,    \* SAFE, CAUTION, BLOCK
  NoRow,       \* last_verdict() returned None; no call in progress
  MaxTime,     \* bound: seconds the clock may advance
  MaxRows      \* bound: verdicts stored when no more calls begin

VARIABLES
  now,          \* int(time.time())
  rows,         \* table verdicts, in id order
  transitions,  \* table transitions, in id order
  pc,           \* where each worker stands in record()
  job,          \* the locals of each worker's record()
  disturbed     \* history: agents two calls were about at once, or whose
                \* seconds the clock has left behind

vars == <<now, rows, transitions, pc, job, disturbed>>

Row == [agent : Agents, verdict : Verdicts, at : Nat]

Transition == [agent : Agents, from : Verdicts, to : Verdicts, at : Nat]

(* The row a call will insert and the previous row it read.                *)
Job == [new : Row, prev : Row \cup {NoRow}]

ASSUME NoRowAssumption == NoRow \notin Verdicts /\ NoRow \notin Row /\ NoRow \notin Job

ASSUME BoundsAssumption == MaxTime \in Nat /\ MaxRows \in Nat

-----------------------------------------------------------------------------
(* The queries, over the rows of the table at the moment they run.         *)

(* Mutant of Newer: ties of issued_at go to the older id.                  *)
NewerByOldestId(table, i, j) ==
  \/ table[i].at > table[j].at
  \/ table[i].at = table[j].at /\ i < j

(* Row i comes before row j under ORDER BY issued_at DESC, id DESC.        *)
Newer(table, i, j) ==
  \/ table[i].at > table[j].at
  \/ table[i].at = table[j].at /\ i > j

RowsOf(table, a) == {i \in DOMAIN table : table[i].agent = a}

IsLatest(table, a, i) ==
  /\ i \in RowsOf(table, a)
  /\ \A j \in RowsOf(table, a) \ {i} : Newer(table, i, j)

(* Mutant of LastVerdict: the newest row of the table, whosever it is.     *)
LastVerdictOfAnyone(table, a) ==
  IF table = << >> THEN NoRow ELSE table[CHOOSE i \in DOMAIN table :
                                           \A j \in DOMAIN table \ {i} : Newer(table, i, j)]

LastVerdict(table, a) ==
  IF RowsOf(table, a) = {}
  THEN NoRow
  ELSE table[CHOOSE i \in RowsOf(table, a) : IsLatest(table, a, i)]

(* Mutant of BoardRows: the maximum is not asked for.                      *)
BoardRowsOfAnyTime(table, a) == RowsOf(table, a)

(* latest_per_agent(): bare columns beside MAX(issued_at).  Among the rows *)
(* of the newest second SQLite may take any; today's takes the oldest.     *)
BoardRows(table, a) ==
  {i \in RowsOf(table, a) : \A j \in RowsOf(table, a) : table[i].at >= table[j].at}

(* Mutant of IsNewestChange: ties of at go to the older id.                *)
IsNewestChangeByOldestId(changes, k) ==
  \A j \in DOMAIN changes :
    changes[j].agent = changes[k].agent =>
      \/ changes[k].at > changes[j].at
      \/ changes[k].at = changes[j].at /\ k <= j

(* recent_changes(): ORDER BY at DESC, id DESC.                            *)
IsNewestChange(changes, k) ==
  \A j \in DOMAIN changes :
    changes[j].agent = changes[k].agent =>
      \/ changes[k].at > changes[j].at
      \/ changes[k].at = changes[j].at /\ k >= j

-----------------------------------------------------------------------------
Init ==
  /\ now = 0
  /\ rows = << >>
  /\ transitions = << >>
  /\ pc = [w \in Workers |-> "idle"]
  /\ job = [w \in Workers |-> NoRow]
  /\ disturbed = {}

Busy(a) == \E w \in Workers : pc[w] # "idle" /\ job[w].new.agent = a

(* record() is entered with a freshly scored verdict; it fixes issued_at.  *)
Begin(w, a, v) ==
  /\ pc[w] = "idle"
  /\ Len(rows) < MaxRows
  /\ pc' = [pc EXCEPT ![w] = "read"]
  /\ job' = [job EXCEPT ![w] = [new  |-> [agent |-> a, verdict |-> v, at |-> now],
                                prev |-> NoRow]]
  /\ disturbed' = IF Busy(a) THEN disturbed \cup {a} ELSE disturbed
  /\ UNCHANGED <<now, rows, transitions>>

(* prev = last_verdict(agent_id), in a connection of its own.              *)
ReadPrev(w) ==
  /\ pc[w] = "read"
  /\ pc' = [pc EXCEPT ![w] = "write"]
  /\ job' = [job EXCEPT ![w] = [new |-> job[w].new, prev |-> LastVerdict(rows, job[w].new.agent)]]
  /\ UNCHANGED <<now, rows, transitions, disturbed>>

VerdictMoved(j) == j.prev # NoRow /\ j.prev.verdict # j.new.verdict

(* Mutant of Write: the transition is written the wrong way round.         *)
WriteReversed(w) ==
  /\ pc[w] = "write"
  /\ rows' = Append(rows, job[w].new)
  /\ transitions' =
       IF VerdictMoved(job[w])
       THEN Append(transitions, [agent |-> job[w].new.agent,
                                 from  |-> job[w].new.verdict,
                                 to    |-> job[w].prev.verdict,
                                 at    |-> job[w].new.at])
       ELSE transitions
  /\ pc' = [pc EXCEPT ![w] = "idle"]
  /\ job' = [job EXCEPT ![w] = NoRow]
  /\ UNCHANGED <<now, disturbed>>

(* The second connection: verdict and transition commit together.          *)
Write(w) ==
  /\ pc[w] = "write"
  /\ rows' = Append(rows, job[w].new)
  /\ transitions' =
       IF VerdictMoved(job[w])
       THEN Append(transitions, [agent |-> job[w].new.agent,
                                 from  |-> job[w].prev.verdict,
                                 to    |-> job[w].new.verdict,
                                 at    |-> job[w].new.at])
       ELSE transitions
  /\ pc' = [pc EXCEPT ![w] = "idle"]
  /\ job' = [job EXCEPT ![w] = NoRow]
  /\ UNCHANGED <<now, disturbed>>

(* Mutant of Abort: the failed call is not forgotten.                      *)
AbortKeepingJob(w) ==
  /\ pc[w] \in {"read", "write"}
  /\ pc' = [pc EXCEPT ![w] = "idle"]
  /\ UNCHANGED <<now, rows, transitions, job, disturbed>>

(* A locked database raises OperationalError from either connection, or    *)
(* the process dies: nothing of the call is committed.                     *)
Abort(w) ==
  /\ pc[w] \in {"read", "write"}
  /\ pc' = [pc EXCEPT ![w] = "idle"]
  /\ job' = [job EXCEPT ![w] = NoRow]
  /\ UNCHANGED <<now, rows, transitions, disturbed>>

(* A second passes.                                                        *)
Tick ==
  /\ now < MaxTime
  /\ now' = now + 1
  /\ UNCHANGED <<rows, transitions, pc, job, disturbed>>

(* A row of the agent, or a call about it, is stamped later than t.        *)
Ahead(a, t) ==
  \/ \E i \in RowsOf(rows, a) : rows[i].at > t
  \/ \E w \in Workers : pc[w] # "idle" /\ job[w].new.agent = a /\ job[w].new.at > t

(* The wall clock is set back: issued_at no longer tells which row of an   *)
(* agent came last.                                                        *)
StepBack ==
  /\ now > 0
  /\ now' = now - 1
  /\ disturbed' = disturbed \cup {a \in Agents : Ahead(a, now - 1)}
  /\ UNCHANGED <<rows, transitions, pc, job>>

Next ==
  \/ \E w \in Workers :
       \/ \E a \in Agents, v \in Verdicts : Begin(w, a, v)
       \/ ReadPrev(w)
       \/ Write(w)
       \/ Abort(w)
  \/ Tick
  \/ StepBack

Spec == Init /\ [][Next]_vars

(* The store as it is used when calls about one agent take turns: a sweep  *)
(* that visits each agent once (seed_all.py), the CLI, one pool worker;    *)
(* and no clock falls behind what is recorded.                             *)
SerialSpec == Init /\ [][Next /\ disturbed' = {}]_vars

-----------------------------------------------------------------------------
TypeOK ==
  /\ now \in Nat
  /\ rows \in Seq(Row)
  /\ transitions \in Seq(Transition)
  /\ pc \in [Workers -> {"idle", "read", "write"}]
  /\ job \in [Workers -> Job \cup {NoRow}]
  /\ \A w \in Workers : job[w] = NoRow <=> pc[w] = "idle"
  /\ disturbed \subseteq Agents

(* Both verdicts of transition t were recorded, one before the other.      *)
Honest(table, t) ==
  /\ t.from # t.to
  /\ \E i, j \in RowsOf(table, t.agent) :
       /\ i < j
       /\ table[i].verdict = t.from
       /\ table[j].verdict = t.to
       /\ table[j].at = t.at

(* A transition never lies (store.py:141-159): both verdicts were really    *)
(* recorded for that agent, the one moved from before the one moved to, and *)
(* they differ.  Holds however calls interleave and abort.                  *)
HonestTransitions == \A k \in DOMAIN transitions : Honest(rows, transitions[k])

(* Rows of one agent that follow one another and carry different verdicts. *)
Moves(a) ==
  {m \in RowsOf(rows, a) \X RowsOf(rows, a) :
     /\ m[1] < m[2]
     /\ \A k \in RowsOf(rows, a) : ~(m[1] < k /\ k < m[2])
     /\ rows[m[1]].verdict # rows[m[2]].verdict}

TransitionsOf(a) == {k \in DOMAIN transitions : transitions[k].agent = a}

AnnouncesMove(k, m) ==
  /\ transitions[k].from = rows[m[1]].verdict
  /\ transitions[k].to = rows[m[2]].verdict
  /\ transitions[k].at = rows[m[2]].at

EveryMoveOnce(a) ==
  /\ Cardinality(TransitionsOf(a)) = Cardinality(Moves(a))
  /\ \A m \in Moves(a) : \E k \in TransitionsOf(a) : AnnouncesMove(k, m)

(* Every change of verdict in the history of an agent is announced, once,   *)
(* as long as no two calls about THAT agent overlapped and the clock never  *)
(* fell behind a row of it, whatever calls about other agents do meanwhile  *)
(* (store.py:138-159).                                                      *)
SerialAgentsAnnounced == \A a \in Agents \ disturbed : EveryMoveOnce(a)

(* The pages.  /changes lists the crossings newest first and /watchtower    *)
(* shows beside them one verdict per agent.  For an agent whose calls never *)
(* overlapped the newest crossing leads to the verdict last_verdict() gives *)
(* (store.py:248-255 against 124-131), seconds shared by several rows or    *)
(* not.                                                                     *)
ChangesLeadToLatest ==
  \A a \in Agents \ disturbed : \A k \in TransitionsOf(a) :
    IsNewestChange(transitions, k) => transitions[k].to = LastVerdict(rows, a).verdict

(* The board may show an older verdict than the last one (store.py:235-238 *)
(* picks any row of the newest second), but for such an agent never without *)
(* the crossing away from it, of that very second, among the changes.       *)
BoardLagIsAnnounced ==
  \A a \in Agents \ disturbed : \A i \in BoardRows(rows, a) :
    rows[i].verdict # LastVerdict(rows, a).verdict =>
      \E k \in TransitionsOf(a) : /\ transitions[k].from = rows[i].verdict
                                  /\ transitions[k].at = rows[i].at

-----------------------------------------------------------------------------
(* Taking turns, the store implements the abstract ledger: the current      *)
(* verdict is the one last_verdict() returns, and the crossings are the     *)
(* transitions without their timestamps.                                    *)
CurrentVerdict == [a \in Agents |->
                     IF RowsOf(rows, a) = {} THEN NoRow ELSE LastVerdict(rows, a).verdict]

Untimed(table) == [k \in DOMAIN table |-> [agent |-> table[k].agent,
                                           from  |-> table[k].from,
                                           to    |-> table[k].to]]

Ledger == INSTANCE VerdictLedger WITH
            Unrated <- NoRow, current <- CurrentVerdict, crossings <- Untimed(transitions)

(* Every verdict issued becomes current in one step and that step announces *)
(* it iff it moved: store.record() taking turns implements VerdictLedger.   *)
LedgerSpec == Ledger!Spec
=============================================================================
