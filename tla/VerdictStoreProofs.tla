-------------------------- MODULE VerdictStoreProofs --------------------------
(***************************************************************************)
(* Proofs about VerdictStore, for every set of workers, agents and         *)
(* verdicts and every bound.                                               *)
(*                                                                         *)
(*   TypeCorrect               the tables and the locals keep their types  *)
(*   TransitionsAreHonest      no interleaving makes a transition lie      *)
(*   SerialAgentsAreAnnounced  every move of an agent whose calls took     *)
(*                             turns is announced, once                    *)
(*   NewestChangeIsLatest      and /changes leads to its last verdict      *)
(*   BoardLagAnnounced         and an older verdict shown is explained     *)
(*   StoreKeepsLedger          taking turns, it implements VerdictLedger   *)
(*                                                                         *)
(* Three invariants, each on top of the one before: IInv holds of every    *)
(* call; SInv of the calls about agents that are not disturbed; HInv of    *)
(* what the tables then say about those agents.                            *)
(***************************************************************************)
EXTENDS VerdictStore, FiniteSetTheorems, TLAPS

-----------------------------------------------------------------------------
(* Facts about the table and its order, whoever writes it.                 *)

(* ORDER BY issued_at DESC, id DESC has a first row wherever it has one.   *)
Ordered(table) ==
  \A a \in Agents : RowsOf(table, a) # {} => \E i \in RowsOf(table, a) : IsLatest(table, a, i)

(* A row of an agent is a row of the table.                                *)
LEMMA RowTypes ==
  ASSUME NEW R \in Seq(Row), NEW a, NEW i \in RowsOf(R, a)
  PROVE  /\ i \in 1..Len(R) /\ i \in DOMAIN R /\ i \in Nat
         /\ R[i] \in Row
         /\ R[i].at \in Nat
         /\ R[i].agent = a
<1>1. i \in DOMAIN R /\ R[i].agent = a
  BY DEF RowsOf
<1>2. i \in 1..Len(R) /\ Len(R) \in Nat
  BY <1>1
<1>3. R[i] \in Row /\ i \in Nat
  BY <1>2
<1>4. R[i].at \in Nat
  BY <1>3 DEF Row
<1> QED
  BY <1>1, <1>2, <1>3, <1>4

(* last_verdict() returns the one row the order puts first.                *)
LEMMA LatestUnique ==
  ASSUME NEW R \in Seq(Row), NEW a, NEW i, IsLatest(R, a, i)
  PROVE  LastVerdict(R, a) = R[i] /\ i \in RowsOf(R, a)
<1>1. i \in RowsOf(R, a)
  BY DEF IsLatest
<1>2. ASSUME NEW j \in RowsOf(R, a), IsLatest(R, a, j) PROVE j = i
  <2>1. SUFFICES ASSUME j # i PROVE FALSE
    OBVIOUS
  <2>2. Newer(R, i, j) /\ Newer(R, j, i)
    BY <1>1, <1>2, <2>1 DEF IsLatest
  <2>3. /\ i \in Nat /\ j \in Nat
        /\ R[i].at \in Nat /\ R[j].at \in Nat
    BY <1>1, RowTypes
  <2> QED
    BY <2>2, <2>3 DEF Newer
<1> QED
  BY <1>1, <1>2 DEF LastVerdict

(* last_verdict() returns a stored row of that agent, or None.             *)
LEMMA LastVerdictStored ==
  ASSUME NEW R \in Seq(Row), Ordered(R), NEW a \in Agents
  PROVE  /\ LastVerdict(R, a) \in Row \cup {NoRow}
         /\ LastVerdict(R, a) # NoRow => \E i \in RowsOf(R, a) : R[i] = LastVerdict(R, a)
<1>1. CASE RowsOf(R, a) = {}
  BY <1>1 DEF LastVerdict
<1>2. CASE RowsOf(R, a) # {}
  <2>1. PICK i \in RowsOf(R, a) : IsLatest(R, a, i)
    BY <1>2 DEF Ordered
  <2>2. LastVerdict(R, a) = R[i]
    BY <2>1, LatestUnique
  <2> QED
    BY <2>2, RowTypes
<1> QED
  BY <1>1, <1>2

(* Table S is table R with row r inserted under id n.                      *)
Inserted(R, r, S, n) ==
  /\ S \in Seq(Row) /\ n \in Nat
  /\ S[n] = r
  /\ RowsOf(S, r.agent) = RowsOf(R, r.agent) \cup {n}
  /\ \A a : a # r.agent => RowsOf(S, a) = RowsOf(R, a)
  /\ \A a : \A i \in RowsOf(R, a) : i < n /\ i \in RowsOf(S, a) /\ S[i] = R[i]

(* What an INSERT does to the rows of each agent.                          *)
LEMMA RowInserted ==
  ASSUME NEW R \in Seq(Row), NEW r \in Row
  PROVE  Inserted(R, r, Append(R, r), Len(R) + 1)
<1> DEFINE S == Append(R, r)
           n == Len(R) + 1
<1>1. /\ S \in Seq(Row)
      /\ n \in Nat /\ Len(R) \in Nat
      /\ DOMAIN R = 1..Len(R)
      /\ DOMAIN S = 1..n
      /\ S[n] = r
      /\ \A i \in DOMAIN R : S[i] = R[i] /\ i < n
  OBVIOUS
<1>2. DOMAIN S = DOMAIN R \cup {n}
  BY <1>1
<1> HIDE DEF S, n
<1>3. RowsOf(S, r.agent) = RowsOf(R, r.agent) \cup {n}
  BY <1>1, <1>2 DEF RowsOf
<1>4. ASSUME NEW a, a # r.agent PROVE RowsOf(S, a) = RowsOf(R, a)
  BY <1>1, <1>2, <1>4 DEF RowsOf
<1>5. ASSUME NEW a, NEW i \in RowsOf(R, a) PROVE i < n /\ i \in RowsOf(S, a) /\ S[i] = R[i]
  BY <1>1, <1>2 DEF RowsOf
<1>6. Inserted(R, r, S, n)
  BY <1>1, <1>3, <1>4, <1>5 DEF Inserted
<1> QED
  BY <1>6 DEF S, n

(* The row inserted last for its agent comes first when none is younger.   *)
LEMMA InsertedLatest ==
  ASSUME NEW R \in Seq(Row), NEW r \in Row,
         \A i \in RowsOf(R, r.agent) : R[i].at <= r.at
  PROVE  IsLatest(Append(R, r), r.agent, Len(R) + 1)
<1> DEFINE S == Append(R, r)
           n == Len(R) + 1
<1>0. Inserted(R, r, S, n)
  BY RowInserted
<1> HIDE DEF S, n
<1>1. /\ n \in Nat /\ S[n] = r
      /\ RowsOf(S, r.agent) = RowsOf(R, r.agent) \cup {n}
      /\ \A i \in RowsOf(R, r.agent) : i < n /\ S[i] = R[i]
  BY <1>0 DEF Inserted
<1>2. r.at \in Nat
  BY DEF Row
<1>3. ASSUME NEW j \in RowsOf(R, r.agent) PROVE Newer(S, n, j)
  BY <1>1, <1>2, RowTypes DEF Newer
<1>4. IsLatest(S, r.agent, n)
  BY <1>1, <1>3 DEF IsLatest
<1> QED
  BY <1>4 DEF S, n

(* An INSERT does not move the first row of another agent.                 *)
LEMMA OthersUnmoved ==
  ASSUME NEW R \in Seq(Row), NEW r \in Row, NEW a, a # r.agent
  PROVE  /\ \A i \in RowsOf(R, a) : IsLatest(R, a, i) => IsLatest(Append(R, r), a, i)
         /\ RowsOf(Append(R, r), a) = RowsOf(R, a)
<1> DEFINE S == Append(R, r)
<1>0. Inserted(R, r, S, Len(R) + 1)
  BY RowInserted
<1> HIDE DEF S
<1>1. /\ RowsOf(S, a) = RowsOf(R, a)
      /\ \A i \in RowsOf(R, a) : S[i] = R[i]
  BY <1>0 DEF Inserted
<1>2. \A i \in RowsOf(R, a) : IsLatest(R, a, i) => IsLatest(S, a, i)
  BY <1>1 DEF IsLatest, Newer
<1> QED
  BY <1>1, <1>2 DEF S

(* An INSERT leaves every agent with a first row.                          *)
LEMMA OrderedAfterInsert ==
  ASSUME NEW R \in Seq(Row), Ordered(R), NEW r \in Row
  PROVE  Ordered(Append(R, r))
<1> DEFINE S == Append(R, r)
           n == Len(R) + 1
<1> SUFFICES ASSUME NEW a \in Agents, RowsOf(S, a) # {}
             PROVE  \E i \in RowsOf(S, a) : IsLatest(S, a, i)
  BY DEF Ordered
<1>1. CASE a # r.agent
  BY <1>1, OthersUnmoved DEF Ordered
<1>2. CASE a = r.agent /\ \A i \in RowsOf(R, a) : R[i].at <= r.at
  BY <1>2, InsertedLatest DEF IsLatest
<1>3. CASE a = r.agent /\ ~ \A i \in RowsOf(R, a) : R[i].at <= r.at
  <2>1. PICK k \in RowsOf(R, a) : ~(R[k].at <= r.at)
    BY <1>3
  <2>2. PICK i \in RowsOf(R, a) : IsLatest(R, a, i)
    BY DEF Ordered
  <2>3. Inserted(R, r, S, n)
    BY RowInserted
  <2> HIDE DEF S, n
  <2>4. R[i].at > r.at
    <3>1. R[i].at \in Nat /\ R[k].at \in Nat /\ r.at \in Nat
      BY RowTypes DEF Row
    <3>2. R[i].at >= R[k].at
      BY <2>2, <3>1 DEF IsLatest, Newer
    <3> QED
      BY <2>1, <3>1, <3>2
  <2>5. IsLatest(S, a, i)
    BY <1>3, <2>2, <2>3, <2>4 DEF IsLatest, Newer, Inserted
  <2> QED
    BY <2>2, <2>3, <2>5 DEF Inserted
<1> QED
  BY <1>1, <1>2, <1>3

-----------------------------------------------------------------------------
(* The inductive invariant behind TypeCorrect and TransitionsAreHonest.    *)

(* What a call read is a row of that agent, and rows are never deleted.    *)
PrevRecorded ==
  \A w \in Workers :
    pc[w] = "write" /\ job[w].prev # NoRow =>
      \E i \in RowsOf(rows, job[w].new.agent) : rows[i] = job[w].prev

IInv == TypeOK /\ Ordered(rows) /\ PrevRecorded /\ HonestTransitions

LEMMA InitIInv == Init => IInv
  BY DEF Init, IInv, TypeOK, Ordered, PrevRecorded, HonestTransitions, RowsOf

(* What the locals of a call in progress are.                              *)
LEMMA JobTypes ==
  ASSUME TypeOK, NEW w \in Workers, pc[w] # "idle"
  PROVE  /\ job[w] \in Job
         /\ job[w].new \in Row
         /\ job[w].new.agent \in Agents
         /\ job[w].new.at \in Nat
         /\ job[w].prev \in Row \cup {NoRow}
<1>1. job[w] \in Job
  BY DEF TypeOK
<1> QED
  BY <1>1 DEF Job, Row

LEMMA BeginIInv ==
  ASSUME IInv, NEW w \in Workers, NEW a \in Agents, NEW v \in Verdicts, Begin(w, a, v)
  PROVE  IInv'
<1> DEFINE fresh == [new |-> [agent |-> a, verdict |-> v, at |-> now], prev |-> NoRow]
<1>1. now \in Nat
  BY DEF IInv, TypeOK
<1>2. [agent |-> a, verdict |-> v, at |-> now] \in Row
  BY <1>1 DEF Row
<1>3. fresh \in Job
  BY <1>2 DEF Job
<1>4. TypeOK'
  BY <1>3, NoRowAssumption DEF IInv, TypeOK, Begin
<1>5. PrevRecorded'
  BY DEF IInv, TypeOK, PrevRecorded, Begin
<1> QED
  BY <1>4, <1>5 DEF IInv, HonestTransitions, Begin

LEMMA ReadIInv ==
  ASSUME IInv, NEW w \in Workers, ReadPrev(w)
  PROVE  IInv'
<1> DEFINE a == job[w].new.agent
           after == [new |-> job[w].new, prev |-> LastVerdict(rows, a)]
<1>1. job[w] \in Job /\ job[w].new \in Row /\ a \in Agents
  BY JobTypes DEF IInv, ReadPrev
<1>2. /\ LastVerdict(rows, a) \in Row \cup {NoRow}
      /\ LastVerdict(rows, a) # NoRow =>
           \E i \in RowsOf(rows, a) : rows[i] = LastVerdict(rows, a)
  BY <1>1, LastVerdictStored DEF IInv, TypeOK
<1>3. after \in Job
  BY <1>1, <1>2 DEF Job
<1>4. job' = [job EXCEPT ![w] = after] /\ rows' = rows /\ pc' = [pc EXCEPT ![w] = "write"]
  BY DEF ReadPrev
<1>5. TypeOK'
  BY <1>3, NoRowAssumption DEF IInv, TypeOK, ReadPrev
<1>6. PrevRecorded'
  <2> SUFFICES ASSUME NEW u \in Workers, pc'[u] = "write", job'[u].prev # NoRow
               PROVE  \E i \in RowsOf(rows', job'[u].new.agent) : rows'[i] = job'[u].prev
    BY DEF PrevRecorded
  <2>1. CASE u = w
    <3>1. job'[u] = after
      BY <1>4, <2>1 DEF IInv, TypeOK
    <3> QED
      BY <1>2, <1>4, <3>1
  <2>2. CASE u # w
    <3>1. job'[u] = job[u] /\ pc[u] = "write"
      BY <1>4, <2>2 DEF IInv, TypeOK
    <3> QED
      BY <1>4, <3>1 DEF IInv, PrevRecorded
  <2> QED
    BY <2>1, <2>2
<1> QED
  BY <1>5, <1>6 DEF IInv, HonestTransitions, ReadPrev

LEMMA WriteIInv ==
  ASSUME IInv, NEW w \in Workers, Write(w)
  PROVE  IInv'
<1> DEFINE r == job[w].new
           p == job[w].prev
           n == Len(rows) + 1
           t == [agent |-> r.agent, from |-> p.verdict, to |-> r.verdict, at |-> r.at]
<1>1. /\ r \in Row /\ r.agent \in Agents /\ p \in Row \cup {NoRow}
      /\ job' = [job EXCEPT ![w] = NoRow] /\ pc' = [pc EXCEPT ![w] = "idle"]
      /\ rows' = Append(rows, r)
  BY JobTypes DEF IInv, Write
<1>2. Inserted(rows, r, rows', n)
  BY <1>1, RowInserted DEF IInv, TypeOK
<1>3. \/ VerdictMoved(job[w]) /\ transitions' = Append(transitions, t)
      \/ ~VerdictMoved(job[w]) /\ transitions' = transitions
  BY DEF Write
<1>4. transitions' \in Seq(Transition)
  <2>1. VerdictMoved(job[w]) => t \in Transition
    BY <1>1 DEF VerdictMoved, Row, Transition
  <2> QED
    BY <1>3, <2>1 DEF IInv, TypeOK
<1>5. TypeOK'
  BY <1>1, <1>2, <1>4 DEF IInv, TypeOK, Write, Inserted
<1>6. Ordered(rows')
  BY <1>1, OrderedAfterInsert DEF IInv, TypeOK
<1>7. PrevRecorded'
  <2> SUFFICES ASSUME NEW u \in Workers, pc'[u] = "write", job'[u].prev # NoRow
               PROVE  \E i \in RowsOf(rows', job'[u].new.agent) : rows'[i] = job'[u].prev
    BY DEF PrevRecorded
  <2>1. u # w /\ job'[u] = job[u] /\ pc[u] = "write"
    BY <1>1 DEF IInv, TypeOK
  <2>2. PICK i \in RowsOf(rows, job[u].new.agent) : rows[i] = job[u].prev
    BY <2>1 DEF IInv, PrevRecorded
  <2> QED
    BY <1>2, <2>1, <2>2 DEF Inserted
<1>8. HonestTransitions'
  <2>1. ASSUME NEW x, Honest(rows, x) PROVE Honest(rows', x)
    BY <1>2, <2>1 DEF Honest, Inserted
  <2>2. ASSUME VerdictMoved(job[w]) PROVE Honest(rows', t)
    <3>1. PICK i \in RowsOf(rows, r.agent) : rows[i] = p
      BY <2>2 DEF VerdictMoved, IInv, PrevRecorded, Write
    <3>2. i \in RowsOf(rows', r.agent) /\ n \in RowsOf(rows', r.agent) /\ i < n
      BY <1>2, <3>1 DEF Inserted
    <3>3. rows'[i].verdict = t.from /\ rows'[n].verdict = t.to /\ rows'[n].at = t.at
      BY <1>2, <3>1 DEF Inserted
    <3>4. t.from # t.to /\ t.agent = r.agent
      BY <2>2 DEF VerdictMoved
    <3> QED
      BY <3>2, <3>3, <3>4 DEF Honest
  <2> SUFFICES ASSUME NEW k \in DOMAIN transitions'
               PROVE  Honest(rows', transitions'[k])
    BY DEF HonestTransitions
  <2>3. CASE ~VerdictMoved(job[w])
    BY <1>3, <2>1, <2>3 DEF IInv, HonestTransitions
  <2>4. CASE VerdictMoved(job[w])
    <3>1. transitions' = Append(transitions, t) /\ transitions \in Seq(Transition)
      BY <1>3, <2>4 DEF IInv, TypeOK
    <3>2. CASE k \in DOMAIN transitions
      <4>1. transitions'[k] = transitions[k]
        BY <3>1, <3>2
      <4> QED
        BY <2>1, <3>2, <4>1 DEF IInv, HonestTransitions
    <3>3. CASE k \notin DOMAIN transitions
      <4>1. transitions'[k] = t
        BY <3>1, <3>3
      <4> QED
        BY <2>2, <2>4, <4>1
    <3> QED
      BY <3>2, <3>3
  <2> QED
    BY <2>3, <2>4
<1> QED
  BY <1>5, <1>6, <1>7, <1>8 DEF IInv

LEMMA StepIInv == IInv /\ [Next]_vars => IInv'
<1> SUFFICES ASSUME IInv, [Next]_vars
             PROVE  IInv'
  OBVIOUS
<1>1. ASSUME NEW w \in Workers, NEW a \in Agents, NEW v \in Verdicts, Begin(w, a, v)
      PROVE  IInv'
  BY <1>1, BeginIInv
<1>2. ASSUME NEW w \in Workers, ReadPrev(w)
      PROVE  IInv'
  BY <1>2, ReadIInv
<1>3. ASSUME NEW w \in Workers, Write(w)
      PROVE  IInv'
  BY <1>3, WriteIInv
<1>4. ASSUME NEW w \in Workers, Abort(w)
      PROVE  IInv'
  BY <1>4 DEF Abort, IInv, TypeOK, PrevRecorded, HonestTransitions
<1>5. CASE Tick
  BY <1>5 DEF Tick, IInv, TypeOK, PrevRecorded, HonestTransitions
<1>6. CASE StepBack
  <2>1. now' \in Nat /\ disturbed' \subseteq Agents
    BY <1>6 DEF StepBack, IInv, TypeOK
  <2> QED
    BY <1>6, <2>1 DEF StepBack, IInv, TypeOK, PrevRecorded, HonestTransitions
<1>7. CASE UNCHANGED vars
  BY <1>7 DEF vars, IInv, TypeOK, PrevRecorded, HonestTransitions
<1> QED
  BY <1>1, <1>2, <1>3, <1>4, <1>5, <1>6, <1>7 DEF Next

LEMMA InvariantHolds == Spec => []IInv
  BY InitIInv, StepIInv, PTL DEF Spec

(* Type correctness of the tables and of record()'s locals.                *)
THEOREM TypeCorrect == Spec => []TypeOK
<1>1. IInv => TypeOK
  BY DEF IInv
<1> QED
  BY <1>1, InvariantHolds, PTL

(* A recorded transition never lies, however many workers interleave and   *)
(* abort inside store.record().                                            *)
THEOREM TransitionsAreHonest == Spec => []HonestTransitions
<1>1. IInv => HonestTransitions
  BY DEF IInv
<1> QED
  BY <1>1, InvariantHolds, PTL

-----------------------------------------------------------------------------
(* The strengthening: what a call in progress may rely on about an agent   *)
(* no other call has been about at the same time.                          *)

InProgress(w, a) == pc[w] # "idle" /\ job[w].new.agent = a

NothingFromTheFuture ==
  \A a \in Agents \ disturbed :
    /\ \A i \in RowsOf(rows, a) : rows[i].at <= now
    /\ \A w \in Workers : InProgress(w, a) => job[w].new.at <= now

TakingTurns ==
  \A a \in Agents \ disturbed : \A u, w \in Workers :
    InProgress(u, a) /\ InProgress(w, a) => u = w

NoneYounger ==
  \A a \in Agents \ disturbed : \A w \in Workers :
    InProgress(w, a) => \A i \in RowsOf(rows, a) : rows[i].at <= job[w].new.at

PrevIsCurrent ==
  \A a \in Agents \ disturbed : \A w \in Workers :
    InProgress(w, a) /\ pc[w] = "write" => job[w].prev = LastVerdict(rows, a)

SInv == IInv /\ NothingFromTheFuture /\ TakingTurns /\ NoneYounger /\ PrevIsCurrent

(* An INSERT about one agent leaves what is read about the others alone.   *)
LEMMA LastVerdictOfOthers ==
  ASSUME NEW R \in Seq(Row), Ordered(R), NEW r \in Row, NEW a \in Agents, a # r.agent
  PROVE  LastVerdict(Append(R, r), a) = LastVerdict(R, a)
<1> DEFINE S == Append(R, r)
<1>1. Inserted(R, r, S, Len(R) + 1)
  BY RowInserted
<1>2. RowsOf(S, a) = RowsOf(R, a) /\ S \in Seq(Row)
  BY <1>1 DEF Inserted
<1>3. CASE RowsOf(R, a) = {}
  BY <1>2, <1>3 DEF LastVerdict
<1>4. CASE RowsOf(R, a) # {}
  <2>1. PICK i \in RowsOf(R, a) : IsLatest(R, a, i)
    BY <1>4 DEF Ordered
  <2>2. IsLatest(S, a, i)
    BY <2>1, OthersUnmoved
  <2>3. LastVerdict(S, a) = S[i] /\ LastVerdict(R, a) = R[i]
    BY <1>2, <2>1, <2>2, LatestUnique
  <2> QED
    BY <1>1, <2>1, <2>3 DEF Inserted
<1> QED
  BY <1>3, <1>4

LEMMA InitSInv == Init => SInv
<1> SUFFICES ASSUME Init PROVE SInv
  OBVIOUS
<1>1. IInv
  BY InitIInv
<1>2. NothingFromTheFuture /\ TakingTurns /\ NoneYounger /\ PrevIsCurrent
  BY DEF Init, NothingFromTheFuture, TakingTurns, NoneYounger, PrevIsCurrent, InProgress,
         RowsOf
<1> QED
  BY <1>1, <1>2 DEF SInv

LEMMA BeginSInv ==
  ASSUME SInv, NEW w \in Workers, NEW b \in Agents, NEW v \in Verdicts, Begin(w, b, v)
  PROVE  SInv'
<1> USE DEF SInv
<1>1. IInv'
  BY BeginIInv
<1>2. /\ pc[w] = "idle" /\ pc' = [pc EXCEPT ![w] = "read"]
      /\ rows' = rows /\ now' = now /\ disturbed \subseteq disturbed'
      /\ Busy(b) => b \in disturbed'
  BY DEF Begin
<1>3. /\ job'[w].new.agent = b /\ job'[w].new.at = now /\ pc'[w] = "read"
      /\ \A u \in Workers \ {w} : job'[u] = job[u] /\ pc'[u] = pc[u]
  BY DEF Begin, IInv, TypeOK
<1>4. now \in Nat
  BY DEF IInv, TypeOK
<1>6. ASSUME NEW a \in Agents \ disturbed', NEW u \in Workers \ {w}, InProgress(u, a)'
      PROVE  a \in Agents \ disturbed /\ InProgress(u, a) /\ a # b
  BY <1>2, <1>3, <1>6 DEF InProgress, Busy
<1>5. NothingFromTheFuture'
  <2> SUFFICES ASSUME NEW a \in Agents \ disturbed'
               PROVE  /\ \A i \in RowsOf(rows, a) : rows[i].at <= now
                      /\ \A u \in Workers : InProgress(u, a)' => job'[u].new.at <= now
    BY <1>2 DEF NothingFromTheFuture
  <2>1. \A u \in Workers \ {w} : InProgress(u, a)' => job'[u].new.at <= now
    BY <1>3, <1>6 DEF NothingFromTheFuture
  <2>2. job'[w].new.at <= now
    BY <1>3, <1>4
  <2>3. \A i \in RowsOf(rows, a) : rows[i].at <= now
    BY <1>2 DEF NothingFromTheFuture
  <2> QED
    BY <2>1, <2>2, <2>3
<1>7. TakingTurns'
  <2> SUFFICES ASSUME NEW a \in Agents \ disturbed', NEW u \in Workers, NEW x \in Workers,
                      InProgress(u, a)', InProgress(x, a)'
               PROVE  u = x
    BY DEF TakingTurns
  <2>1. InProgress(w, a)' => a = b
    BY <1>3 DEF InProgress
  <2> QED
    BY <1>6, <2>1 DEF TakingTurns
<1>8. NoneYounger'
  <2> SUFFICES ASSUME NEW a \in Agents \ disturbed', NEW u \in Workers, InProgress(u, a)',
                      NEW i \in RowsOf(rows', a)
               PROVE  rows'[i].at <= job'[u].new.at
    BY DEF NoneYounger
  <2>1. CASE u = w
    BY <1>2, <1>3, <2>1, RowTypes DEF NothingFromTheFuture, IInv, TypeOK
  <2>2. CASE u # w
    BY <1>2, <1>3, <1>6, <2>2 DEF NoneYounger
  <2> QED
    BY <2>1, <2>2
<1>9. PrevIsCurrent'
  <2> SUFFICES ASSUME NEW a \in Agents \ disturbed', NEW u \in Workers, InProgress(u, a)',
                      pc'[u] = "write"
               PROVE  job'[u].prev = LastVerdict(rows', a)
    BY DEF PrevIsCurrent
  <2>1. u # w
    BY <1>3
  <2> QED
    BY <1>2, <1>3, <1>6, <2>1 DEF PrevIsCurrent
<1> QED
  BY <1>1, <1>5, <1>7, <1>8, <1>9

LEMMA ReadSInv ==
  ASSUME SInv, NEW w \in Workers, ReadPrev(w)
  PROVE  SInv'
<1> USE DEF SInv
<1>1. IInv'
  BY ReadIInv
<1>2. rows' = rows /\ now' = now /\ disturbed' = disturbed
  BY DEF ReadPrev
<1>3. /\ job'[w].new = job[w].new /\ job'[w].prev = LastVerdict(rows, job[w].new.agent)
      /\ pc[w] = "read" /\ pc'[w] = "write"
      /\ \A u \in Workers \ {w} : job'[u] = job[u] /\ pc'[u] = pc[u]
  BY DEF ReadPrev, IInv, TypeOK
<1>4. \A u \in Workers, a \in Agents : InProgress(u, a)' => InProgress(u, a)
  BY <1>3 DEF InProgress
<1>5. NothingFromTheFuture'
  BY <1>2, <1>3, <1>4 DEF NothingFromTheFuture
<1>6. TakingTurns'
  BY <1>2, <1>4 DEF TakingTurns
<1>7. NoneYounger'
  BY <1>2, <1>3, <1>4 DEF NoneYounger
<1>8. PrevIsCurrent'
  <2> SUFFICES ASSUME NEW a \in Agents \ disturbed, NEW u \in Workers, InProgress(u, a)',
                      pc'[u] = "write"
               PROVE  job'[u].prev = LastVerdict(rows, a)
    BY <1>2 DEF PrevIsCurrent
  <2> QED
    BY <1>3, <1>4 DEF PrevIsCurrent, InProgress
<1> QED
  BY <1>1, <1>5, <1>6, <1>7, <1>8

LEMMA WriteSInv ==
  ASSUME SInv, NEW w \in Workers, Write(w)
  PROVE  SInv'
<1> DEFINE r == job[w].new
           n == Len(rows) + 1
<1> USE DEF SInv
<1>1. IInv'
  BY WriteIInv
<1>2. /\ r \in Row /\ r.agent \in Agents
      /\ rows' = Append(rows, r) /\ now' = now /\ disturbed' = disturbed
      /\ pc[w] = "write" /\ pc'[w] = "idle"
      /\ \A u \in Workers \ {w} : job'[u] = job[u] /\ pc'[u] = pc[u]
  BY JobTypes DEF Write, IInv, TypeOK
<1>3. Inserted(rows, r, rows', n) /\ rows \in Seq(Row)
  BY <1>2, RowInserted DEF IInv, TypeOK
<1>4. ASSUME NEW u \in Workers, NEW a \in Agents \ disturbed, InProgress(u, a)'
      PROVE  u # w /\ InProgress(u, a) /\ a # r.agent
  <2>1. u # w /\ InProgress(u, a) /\ InProgress(w, r.agent)
    BY <1>2, <1>4 DEF InProgress
  <2> QED
    BY <1>2, <2>1 DEF TakingTurns
<1>5. NothingFromTheFuture'
  <2> SUFFICES ASSUME NEW a \in Agents \ disturbed
               PROVE  /\ \A i \in RowsOf(rows', a) : rows'[i].at <= now
                      /\ \A u \in Workers : InProgress(u, a)' => job'[u].new.at <= now
    BY <1>2 DEF NothingFromTheFuture
  <2>1. \A u \in Workers : InProgress(u, a)' => job'[u].new.at <= now
    BY <1>2, <1>4 DEF NothingFromTheFuture
  <2>2. \A i \in RowsOf(rows, a) : rows[i].at <= now
    BY DEF NothingFromTheFuture
  <2>3. CASE a # r.agent
    BY <1>3, <2>1, <2>2, <2>3 DEF Inserted
  <2>4. CASE a = r.agent
    <3>1. r.at <= now
      BY <1>2, <2>4 DEF NothingFromTheFuture, InProgress
    <3> QED
      BY <1>3, <2>1, <2>2, <2>4, <3>1 DEF Inserted
  <2> QED
    BY <2>3, <2>4
<1>6. TakingTurns'
  BY <1>2, <1>4 DEF TakingTurns
<1>7. NoneYounger'
  <2> SUFFICES ASSUME NEW a \in Agents \ disturbed, NEW u \in Workers, InProgress(u, a)',
                      NEW i \in RowsOf(rows', a)
               PROVE  rows'[i].at <= job'[u].new.at
    BY <1>2 DEF NoneYounger
  <2>1. u # w /\ InProgress(u, a) /\ a # r.agent
    BY <1>4
  <2>2. i \in RowsOf(rows, a) /\ rows'[i] = rows[i]
    BY <1>3, <2>1 DEF Inserted
  <2> QED
    BY <1>2, <2>1, <2>2 DEF NoneYounger
<1>8. PrevIsCurrent'
  <2> SUFFICES ASSUME NEW a \in Agents \ disturbed, NEW u \in Workers, InProgress(u, a)',
                      pc'[u] = "write"
               PROVE  job'[u].prev = LastVerdict(rows', a)
    BY <1>2 DEF PrevIsCurrent
  <2>1. u # w /\ InProgress(u, a) /\ a # r.agent
    BY <1>4
  <2>2. LastVerdict(rows', a) = LastVerdict(rows, a)
    BY <1>2, <1>3, <2>1, LastVerdictOfOthers DEF IInv
  <2> QED
    BY <1>2, <2>1, <2>2 DEF PrevIsCurrent
<1> QED
  BY <1>1, <1>5, <1>6, <1>7, <1>8

LEMMA StepSInv == SInv /\ [Next]_vars => SInv'
<1> SUFFICES ASSUME SInv, [Next]_vars
             PROVE  SInv'
  OBVIOUS
<1>0. IInv'
  BY StepIInv DEF SInv
<1>1. ASSUME NEW w \in Workers, NEW a \in Agents, NEW v \in Verdicts, Begin(w, a, v)
      PROVE  SInv'
  BY <1>1, BeginSInv
<1>2. ASSUME NEW w \in Workers, ReadPrev(w)
      PROVE  SInv'
  BY <1>2, ReadSInv
<1>3. ASSUME NEW w \in Workers, Write(w)
      PROVE  SInv'
  BY <1>3, WriteSInv
<1>4. ASSUME NEW w \in Workers, Abort(w)
      PROVE  SInv'
  <2>1. /\ UNCHANGED <<now, rows, disturbed>> /\ pc'[w] = "idle"
        /\ \A u \in Workers \ {w} : job'[u] = job[u] /\ pc'[u] = pc[u]
    BY <1>4 DEF Abort, SInv, IInv, TypeOK
  <2> QED
    BY <1>0, <2>1 DEF SInv, NothingFromTheFuture, TakingTurns, NoneYounger,
                      PrevIsCurrent, InProgress
<1>5. CASE Tick
  <2>1. now' = now + 1 /\ now \in Nat /\ UNCHANGED <<rows, disturbed, pc, job>>
    BY <1>5 DEF Tick, SInv, IInv, TypeOK
  <2>2. NothingFromTheFuture'
    <3> SUFFICES ASSUME NEW a \in Agents \ disturbed
                 PROVE  /\ \A i \in RowsOf(rows, a) : rows[i].at <= now + 1
                        /\ \A u \in Workers : InProgress(u, a) => job[u].new.at <= now + 1
      BY <2>1 DEF NothingFromTheFuture, InProgress
    <3>1. \A i \in RowsOf(rows, a) : rows[i].at \in Nat /\ rows[i].at <= now
      BY RowTypes DEF SInv, IInv, TypeOK, NothingFromTheFuture
    <3>2. \A u \in Workers : InProgress(u, a) => job[u].new.at \in Nat /\ job[u].new.at <= now
      BY JobTypes DEF SInv, IInv, NothingFromTheFuture, InProgress
    <3> QED
      BY <2>1, <3>1, <3>2
  <2> QED
    BY <1>0, <2>1, <2>2 DEF SInv, TakingTurns, NoneYounger, PrevIsCurrent, InProgress
<1>6. CASE StepBack
  <2>1. /\ UNCHANGED <<rows, pc, job>> /\ now' = now - 1 /\ now \in Nat
        /\ disturbed' = disturbed \cup {a \in Agents : Ahead(a, now - 1)}
    BY <1>6 DEF StepBack, SInv, IInv, TypeOK
  <2>2. NothingFromTheFuture'
    <3> SUFFICES ASSUME NEW a \in Agents \ disturbed'
                 PROVE  /\ \A i \in RowsOf(rows, a) : rows[i].at <= now - 1
                        /\ \A u \in Workers : InProgress(u, a) => job[u].new.at <= now - 1
      BY <2>1 DEF NothingFromTheFuture, InProgress
    <3>1. ~Ahead(a, now - 1)
      BY <2>1
    <3>2. \A i \in RowsOf(rows, a) : rows[i].at \in Nat
      BY RowTypes DEF SInv, IInv, TypeOK
    <3>3. \A u \in Workers : InProgress(u, a) => job[u].new.at \in Nat
      BY JobTypes DEF SInv, IInv, InProgress
    <3> QED
      BY <2>1, <3>1, <3>2, <3>3 DEF Ahead, InProgress
  <2>3. disturbed \subseteq disturbed'
    BY <2>1
  <2> QED
    BY <1>0, <2>1, <2>2, <2>3 DEF SInv, TakingTurns, NoneYounger, PrevIsCurrent, InProgress
<1>7. CASE UNCHANGED vars
  BY <1>0, <1>7 DEF vars, SInv, NothingFromTheFuture, TakingTurns, NoneYounger,
                    PrevIsCurrent, InProgress
<1> QED
  BY <1>1, <1>2, <1>3, <1>4, <1>5, <1>6, <1>7 DEF Next

-----------------------------------------------------------------------------
(* What the tables say about an agent whose calls took turns.              *)

(* The ids of its rows are in the order of their seconds.                  *)
InTimeOrder ==
  \A a \in Agents \ disturbed : \A i, j \in RowsOf(rows, a) : i < j => rows[i].at <= rows[j].at

History == InTimeOrder /\ SerialAgentsAnnounced /\ ChangesLeadToLatest /\ BoardLagIsAnnounced

HInv == SInv /\ History

(* In that order, last_verdict() returns the row inserted last.            *)
LEMMA LatestIsLastInserted ==
  ASSUME NEW R \in Seq(Row), NEW a, NEW l, IsLatest(R, a, l),
         \A i, j \in RowsOf(R, a) : i < j => R[i].at <= R[j].at
  PROVE  \A j \in RowsOf(R, a) : j <= l
<1> SUFFICES ASSUME NEW j \in RowsOf(R, a), l < j PROVE FALSE
  BY RowTypes DEF IsLatest
<1>1. /\ l \in RowsOf(R, a) /\ l \in Nat /\ j \in Nat
      /\ R[l].at \in Nat /\ R[j].at \in Nat
  BY RowTypes DEF IsLatest
<1>2. Newer(R, l, j)
  BY <1>1 DEF IsLatest
<1>3. R[l].at <= R[j].at
  BY <1>1
<1> QED
  BY <1>1, <1>2, <1>3 DEF Newer

(* Both tables are finite, and so is what they are counted by.             *)
LEMMA FiniteHistory ==
  ASSUME TypeOK, NEW a
  PROVE  IsFiniteSet(TransitionsOf(a)) /\ IsFiniteSet(Moves(a))
<1>1. Len(transitions) \in Nat /\ DOMAIN transitions = 1..Len(transitions)
      /\ Len(rows) \in Nat /\ DOMAIN rows = 1..Len(rows)
  BY DEF TypeOK
<1>2. IsFiniteSet(1..Len(transitions)) /\ IsFiniteSet(1..Len(rows))
  BY <1>1, FS_Interval
<1>3. IsFiniteSet(TransitionsOf(a))
  <2>1. TransitionsOf(a) \subseteq 1..Len(transitions)
    BY <1>1 DEF TransitionsOf
  <2> QED
    BY <1>2, <2>1, FS_Subset
<1>4. IsFiniteSet(Moves(a))
  <2>1. RowsOf(rows, a) \subseteq 1..Len(rows)
    BY <1>1 DEF RowsOf
  <2>2. IsFiniteSet(RowsOf(rows, a))
    BY <1>2, <2>1, FS_Subset
  <2>3. IsFiniteSet(RowsOf(rows, a) \X RowsOf(rows, a))
    BY <2>2, FS_Product
  <2>4. Moves(a) \subseteq RowsOf(rows, a) \X RowsOf(rows, a)
    BY DEF Moves
  <2> QED
    BY <2>3, <2>4, FS_Subset
<1> QED
  BY <1>3, <1>4

(* A row after row l, the last of its agent, is one move away from it, or  *)
(* none; what moved before stays.                                          *)
LEMMA MovesAfterInsert ==
  ASSUME rows \in Seq(Row), NEW r \in Row, NEW n, Inserted(rows, r, rows', n),
         NEW l \in RowsOf(rows, r.agent), \A j \in RowsOf(rows, r.agent) : j <= l
  PROVE  /\ Moves(r.agent)' = IF rows[l].verdict # r.verdict
                              THEN Moves(r.agent) \cup {<<l, n>>} ELSE Moves(r.agent)
         /\ <<l, n>> \notin Moves(r.agent)
<1> DEFINE a == r.agent
           Old == RowsOf(rows, a)
           New == RowsOf(rows', a)
<1>1. /\ n \in Nat /\ rows'[n] = r /\ New = Old \cup {n}
      /\ \A i \in Old : i \in Nat /\ i < n /\ rows'[i] = rows[i]
  BY RowTypes DEF Inserted
<1>2. <<l, n>> \notin Moves(a)
  BY <1>1 DEF Moves
<1> HIDE DEF Old, New
<1>3. ASSUME NEW i \in Old, NEW j \in Old
      PROVE  <<i, j>> \in Moves(a)' <=> <<i, j>> \in Moves(a)
  <2>1. i \in New /\ j \in New /\ ~(n < j) /\ rows'[i] = rows[i] /\ rows'[j] = rows[j]
    BY <1>1
  <2>2. <<i, j>> \in Moves(a)' <=>
          /\ i < j
          /\ \A k \in New : ~(i < k /\ k < j)
          /\ rows'[i].verdict # rows'[j].verdict
    BY <2>1 DEF Moves, New
  <2>3. <<i, j>> \in Moves(a) <=>
          /\ i < j
          /\ \A k \in Old : ~(i < k /\ k < j)
          /\ rows[i].verdict # rows[j].verdict
    BY DEF Moves, Old
  <2> QED
    BY <1>1, <2>1, <2>2, <2>3
<1>4. ASSUME NEW j \in New PROVE <<n, j>> \notin Moves(a)'
  <2>1. ~(n < j)
    BY <1>1
  <2> QED
    BY <2>1 DEF Moves
<1>5. ASSUME NEW i \in Old
      PROVE  <<i, n>> \in Moves(a)' <=> i = l /\ rows[l].verdict # r.verdict
  <2>1. <<i, n>> \in Moves(a)' <=>
          /\ i < n
          /\ \A k \in New : ~(i < k /\ k < n)
          /\ rows'[i].verdict # rows'[n].verdict
    BY <1>1 DEF Moves, New
  <2>2. l \in Old /\ l \in New /\ l < n /\ l \in Nat /\ i \in Nat /\ i <= l
    BY <1>1 DEF Old
  <2>3. CASE i = l
    <3>1. \A k \in New : ~(l < k /\ k < n)
      BY <1>1, <2>2 DEF Old
    <3> QED
      BY <1>1, <2>1, <2>2, <2>3, <3>1
  <2>4. CASE i # l
    BY <2>1, <2>2, <2>4
  <2> QED
    BY <2>3, <2>4
<1>6. /\ \A m \in Moves(a)' : \E i, j \in New : m = <<i, j>>
      /\ \A m \in Moves(a) : \E i, j \in Old : m = <<i, j>>
  BY DEF Moves, New, Old
<1>7. l \in Old
  BY DEF Old
<1>8. ASSUME NEW m
      PROVE  m \in Moves(a)' <=> \/ m \in Moves(a)
                                 \/ m = <<l, n>> /\ rows[l].verdict # r.verdict
  <2>1. ASSUME m \in Moves(a)'
        PROVE  m \in Moves(a) \/ (m = <<l, n>> /\ rows[l].verdict # r.verdict)
    <3>1. PICK i \in New, j \in New : m = <<i, j>>
      BY <1>6, <2>1
    <3>2. CASE i = n
      BY <1>4, <2>1, <3>1, <3>2
    <3>3. CASE i \in Old /\ j = n
      BY <1>5, <2>1, <3>1, <3>3
    <3>4. CASE i \in Old /\ j \in Old
      BY <1>3, <2>1, <3>1, <3>4
    <3> QED
      BY <1>1, <3>2, <3>3, <3>4
  <2>2. ASSUME m \in Moves(a) PROVE m \in Moves(a)'
    BY <1>3, <1>6, <2>2
  <2>3. ASSUME m = <<l, n>>, rows[l].verdict # r.verdict PROVE m \in Moves(a)'
    BY <1>5, <1>7, <2>3
  <2> QED
    BY <2>1, <2>2, <2>3
<1>9. Moves(a)' = IF rows[l].verdict # r.verdict THEN Moves(a) \cup {<<l, n>>} ELSE Moves(a)
  BY <1>8
<1> QED
  BY <1>2, <1>9

(* What an INSERT into the transitions does to those of each agent.        *)
LEMMA TransitionAppended ==
  ASSUME transitions \in Seq(Transition), NEW t \in Transition, NEW n,
         n = Len(transitions) + 1, transitions' = Append(transitions, t)
  PROVE  /\ n \in Nat /\ transitions'[n] = t
         /\ \A k \in DOMAIN transitions : k \in Nat /\ k < n /\ k \in DOMAIN transitions'
                                          /\ transitions'[k] = transitions[k]
         /\ \A a : TransitionsOf(a)' = IF a = t.agent THEN TransitionsOf(a) \cup {n}
                                       ELSE TransitionsOf(a)
<1>1. /\ n \in Nat /\ transitions'[n] = t
      /\ DOMAIN transitions' = DOMAIN transitions \cup {n}
      /\ \A k \in DOMAIN transitions : k \in Nat /\ k < n /\ transitions'[k] = transitions[k]
  OBVIOUS
<1> QED
  BY <1>1 DEF TransitionsOf

(* A crossing already announced stays announced, and no new one can follow *)
(* it about an agent that has no new row.                                  *)
LEMMA NewestChangeBefore ==
  ASSUME NEW k \in DOMAIN transitions,
         \A j \in DOMAIN transitions : j \in DOMAIN transitions' /\ transitions'[j] = transitions[j],
         IsNewestChange(transitions', k)
  PROVE  IsNewestChange(transitions, k)
  BY DEF IsNewestChange

(* The table of transitions grows at its end or not at all.                *)
LEMMA TransitionsGrow ==
  ASSUME IInv, NEW w \in Workers, Write(w)
  PROVE  \A k \in DOMAIN transitions : k \in DOMAIN transitions'
                                       /\ transitions'[k] = transitions[k]
<1> DEFINE r == job[w].new
           p == job[w].prev
           t == [agent |-> r.agent, from |-> p.verdict, to |-> r.verdict, at |-> r.at]
<1>1. transitions \in Seq(Transition)
  BY DEF IInv, TypeOK
<1>2. transitions' = Append(transitions, t) \/ transitions' = transitions
  BY DEF Write
<1> HIDE DEF t
<1> QED
  BY <1>1, <1>2

(* What a call writes about one agent changes no page of the others.       *)
LEMMA WriteTellsNothingOfOthers ==
  ASSUME IInv, NEW w \in Workers, Write(w), NEW a \in Agents, a # job[w].new.agent
  PROVE  /\ RowsOf(rows', a) = RowsOf(rows, a)
         /\ \A i \in RowsOf(rows, a) : rows'[i] = rows[i]
         /\ LastVerdict(rows', a) = LastVerdict(rows, a)
         /\ BoardRows(rows', a) = BoardRows(rows, a)
         /\ Moves(a)' = Moves(a)
         /\ TransitionsOf(a)' = TransitionsOf(a)
<1> DEFINE r == job[w].new
           p == job[w].prev
           t == [agent |-> r.agent, from |-> p.verdict, to |-> r.verdict, at |-> r.at]
<1>1. /\ r \in Row /\ p \in Row \cup {NoRow} /\ rows \in Seq(Row) /\ Ordered(rows)
      /\ rows' = Append(rows, r) /\ transitions \in Seq(Transition)
  BY JobTypes DEF IInv, TypeOK, Write
<1>2. Inserted(rows, r, rows', Len(rows) + 1)
  BY <1>1, RowInserted
<1>3. /\ RowsOf(rows', a) = RowsOf(rows, a)
      /\ \A i \in RowsOf(rows, a) : rows'[i] = rows[i]
  BY <1>2 DEF Inserted
<1>4. LastVerdict(rows', a) = LastVerdict(rows, a)
  BY <1>1, LastVerdictOfOthers
<1>5. BoardRows(rows', a) = BoardRows(rows, a)
  BY <1>3 DEF BoardRows
<1>6. Moves(a)' = Moves(a)
  <2> DEFINE Here == RowsOf(rows, a)
  <2>1. Moves(a)' = {m \in Here \X Here : /\ m[1] < m[2]
                                          /\ \A k \in Here : ~(m[1] < k /\ k < m[2])
                                          /\ rows'[m[1]].verdict # rows'[m[2]].verdict}
    BY <1>3 DEF Moves
  <2>2. \A m \in Here \X Here : rows'[m[1]] = rows[m[1]] /\ rows'[m[2]] = rows[m[2]]
    BY <1>3
  <2> QED
    BY <2>1, <2>2 DEF Moves
<1>7. TransitionsOf(a)' = TransitionsOf(a)
  <2>1. CASE VerdictMoved(job[w])
    <3>1. t \in Transition /\ t.agent # a
      BY <1>1, <2>1 DEF VerdictMoved, Row, Transition
    <3>2. transitions' = Append(transitions, t)
      BY <2>1 DEF Write
    <3> QED
      BY <1>1, <3>1, <3>2, TransitionAppended
  <2>2. CASE ~VerdictMoved(job[w])
    BY <2>2 DEF Write, TransitionsOf
  <2> QED
    BY <2>1, <2>2
<1> QED
  BY <1>3, <1>4, <1>5, <1>6, <1>7

(* What the call that writes row r about an undisturbed agent finds: the   *)
(* row it read is the last one, and the new row is not older than any.     *)
LEMMA WhatWriteFinds ==
  ASSUME HInv, NEW w \in Workers, Write(w), job[w].new.agent \notin disturbed
  PROVE  LET r == job[w].new
             a == r.agent
             n == Len(rows) + 1
         IN  /\ rows \in Seq(Row) /\ r \in Row /\ a \in Agents \ disturbed
             /\ rows' = Append(rows, r) /\ Inserted(rows, r, rows', n)
             /\ \A i \in RowsOf(rows, a) : rows[i].at <= r.at
             /\ LastVerdict(rows', a) = r
             /\ RowsOf(rows, a) = {} => job[w].prev = NoRow
             /\ RowsOf(rows, a) # {} =>
                  \E l \in RowsOf(rows, a) : /\ job[w].prev = rows[l]
                                             /\ LastVerdict(rows, a) = rows[l]
                                             /\ \A j \in RowsOf(rows, a) : j <= l
                                             /\ \A j \in RowsOf(rows, a) : rows[j].at <= rows[l].at
<1> DEFINE r == job[w].new
           a == r.agent
           n == Len(rows) + 1
<1>1. /\ rows \in Seq(Row) /\ Ordered(rows) /\ r \in Row /\ a \in Agents \ disturbed
      /\ rows' = Append(rows, r)
      /\ InProgress(w, a) /\ pc[w] = "write"
  BY JobTypes DEF HInv, SInv, IInv, TypeOK, Write, InProgress
<1>2. Inserted(rows, r, rows', n)
  BY <1>1, RowInserted
<1>3. \A i \in RowsOf(rows, a) : rows[i].at <= r.at
  BY <1>1 DEF HInv, SInv, NoneYounger
<1>4. LastVerdict(rows', a) = r
  <2>1. IsLatest(rows', a, n)
    BY <1>1, <1>3, InsertedLatest
  <2> QED
    BY <1>2, <2>1, LatestUnique DEF Inserted
<1>5. job[w].prev = LastVerdict(rows, a)
  BY <1>1 DEF HInv, SInv, PrevIsCurrent
<1>6. ASSUME RowsOf(rows, a) # {}
      PROVE  \E l \in RowsOf(rows, a) : /\ LastVerdict(rows, a) = rows[l]
                                        /\ \A j \in RowsOf(rows, a) : j <= l
                                        /\ \A j \in RowsOf(rows, a) : rows[j].at <= rows[l].at
  <2>1. PICK l \in RowsOf(rows, a) : IsLatest(rows, a, l)
    BY <1>1, <1>6 DEF Ordered
  <2>2. \A i, j \in RowsOf(rows, a) : i < j => rows[i].at <= rows[j].at
    BY <1>1 DEF HInv, History, InTimeOrder
  <2>3. \A j \in RowsOf(rows, a) : j <= l
    BY <1>1, <2>1, <2>2, LatestIsLastInserted
  <2>4. LastVerdict(rows, a) = rows[l]
    BY <1>1, <2>1, LatestUnique
  <2>5. \A j \in RowsOf(rows, a) : rows[j].at <= rows[l].at
    <3> SUFFICES ASSUME NEW j \in RowsOf(rows, a) PROVE rows[j].at <= rows[l].at
      OBVIOUS
    <3>1. j \in Nat /\ l \in Nat /\ rows[j].at \in Nat /\ rows[l].at \in Nat
      BY <1>1, RowTypes
    <3> QED
      BY <2>2, <2>3, <3>1
  <2> QED
    BY <2>3, <2>4, <2>5
<1>7. RowsOf(rows, a) = {} => job[w].prev = NoRow
  BY <1>5 DEF LastVerdict
<1> QED
  BY <1>1, <1>2, <1>3, <1>4, <1>5, <1>6, <1>7

(* An agent without rows has no crossings: they never lie.                 *)
LEMMA NoRowsNoCrossings ==
  ASSUME HonestTransitions, NEW a, RowsOf(rows, a) = {}
  PROVE  TransitionsOf(a) = {} /\ Moves(a) = {}
<1>1. TransitionsOf(a) = {}
  BY DEF HonestTransitions, Honest, TransitionsOf
<1>2. Moves(a) = {}
  BY DEF Moves
<1> QED
  BY <1>1, <1>2

LEMMA WriteInTimeOrder ==
  ASSUME HInv, NEW w \in Workers, Write(w)
  PROVE  InTimeOrder'
<1> DEFINE r == job[w].new
           n == Len(rows) + 1
<1>0. IInv /\ InTimeOrder /\ disturbed' = disturbed
  BY DEF HInv, SInv, History, Write
<1> SUFFICES ASSUME NEW a \in Agents \ disturbed, NEW i \in RowsOf(rows', a),
                    NEW j \in RowsOf(rows', a), i < j
             PROVE  rows'[i].at <= rows'[j].at
  BY <1>0 DEF InTimeOrder
<1>1. CASE a # r.agent
  <2>1. /\ RowsOf(rows', a) = RowsOf(rows, a)
        /\ \A k \in RowsOf(rows, a) : rows'[k] = rows[k]
    BY <1>0, <1>1, WriteTellsNothingOfOthers
  <2> QED
    BY <1>0, <2>1 DEF InTimeOrder
<1>2. CASE a = r.agent
  <2>1. /\ rows \in Seq(Row) /\ r.at \in Nat
        /\ Inserted(rows, r, rows', n)
        /\ \A k \in RowsOf(rows, a) : rows[k].at <= r.at
    BY <1>0, <1>2, WhatWriteFinds DEF Row
  <2>2. /\ n \in Nat /\ rows'[n] = r /\ RowsOf(rows', a) = RowsOf(rows, a) \cup {n}
        /\ \A k \in RowsOf(rows, a) : k < n /\ k \in Nat /\ rows'[k] = rows[k]
    BY <1>2, <2>1, RowTypes DEF Inserted
  <2>3. CASE j = n
    <3>1. i \in RowsOf(rows, a)
      BY <2>2, <2>3
    <3> HIDE DEF r, n
    <3> QED
      BY <2>1, <2>2, <2>3, <3>1
  <2>4. CASE j \in RowsOf(rows, a)
    <3>1. i \in RowsOf(rows, a)
      BY <2>2, <2>4
    <3> QED
      BY <1>0, <2>2, <2>4, <3>1 DEF InTimeOrder
  <2> QED
    BY <2>2, <2>3, <2>4
<1> QED
  BY <1>1, <1>2

(* The row of a call in turn adds a move and its crossing, or neither.     *)
LEMMA WriteAnnounces ==
  ASSUME HInv, NEW w \in Workers, Write(w),
         NEW a \in Agents \ disturbed, a = job[w].new.agent
  PROVE  EveryMoveOnce(a)'
<1>0. PICK r, p, n, K : /\ r = job[w].new /\ p = job[w].prev
                        /\ n = Len(rows) + 1 /\ K = Len(transitions) + 1
  OBVIOUS
<1> DEFINE t == [agent |-> a, from |-> p.verdict, to |-> r.verdict, at |-> r.at]
<1>1. /\ rows \in Seq(Row) /\ r \in Row /\ a = r.agent
      /\ rows' = Append(rows, r) /\ Inserted(rows, r, rows', n)
  BY <1>0, WhatWriteFinds
<1>2. /\ n \in Nat /\ rows'[n] = r /\ RowsOf(rows', a) = RowsOf(rows, a) \cup {n}
      /\ \A k \in RowsOf(rows, a) : k < n /\ rows'[k] = rows[k]
  BY <1>1 DEF Inserted
<1>3. /\ TypeOK /\ IInv /\ HonestTransitions /\ EveryMoveOnce(a)
      /\ transitions \in Seq(Transition)
  BY <1>1 DEF HInv, SInv, IInv, TypeOK, History, SerialAgentsAnnounced
<1>4. CASE RowsOf(rows, a) = {}
  <2>1. p = NoRow
    BY <1>0, <1>4, WhatWriteFinds
  <2>2. transitions' = transitions
    BY <1>0, <2>1 DEF Write, VerdictMoved
  <2>3. TransitionsOf(a)' = {}
    BY <1>3, <1>4, <2>2, NoRowsNoCrossings DEF TransitionsOf
  <2>4. Moves(a)' = {}
    <3>1. RowsOf(rows', a) = {n}
      BY <1>2, <1>4
    <3>2. ~(n < n)
      BY <1>2
    <3> QED
      BY <3>1, <3>2 DEF Moves
  <2> QED
    BY <2>3, <2>4 DEF EveryMoveOnce
<1>5. CASE RowsOf(rows, a) # {}
  <2>1. PICK l \in RowsOf(rows, a) : p = rows[l] /\ \A j \in RowsOf(rows, a) : j <= l
    BY <1>0, <1>5, WhatWriteFinds
  <2>2. p \in Row /\ p # NoRow
    BY <1>1, <2>1, RowTypes, NoRowAssumption
  <2>3. /\ Moves(a)' = IF p.verdict # r.verdict THEN Moves(a) \cup {<<l, n>>} ELSE Moves(a)
        /\ <<l, n>> \notin Moves(a)
    BY <1>1, <2>1, MovesAfterInsert
  <2>4. \A m \in Moves(a) : m[1] \in RowsOf(rows, a) /\ m[2] \in RowsOf(rows, a)
    BY DEF Moves
  <2>5. ASSUME NEW k \in TransitionsOf(a), NEW m \in Moves(a), AnnouncesMove(k, m),
               transitions'[k] = transitions[k]
        PROVE  AnnouncesMove(k, m)'
    BY <1>2, <2>4, <2>5 DEF AnnouncesMove
  <2>6. CASE p.verdict = r.verdict
    <3>1. transitions' = transitions
      BY <1>0, <2>6 DEF Write, VerdictMoved
    <3>2. TransitionsOf(a)' = TransitionsOf(a) /\ Moves(a)' = Moves(a)
      BY <2>3, <2>6, <3>1 DEF TransitionsOf
    <3> QED
      BY <1>3, <2>5, <3>1, <3>2 DEF EveryMoveOnce
  <2>7. CASE p.verdict # r.verdict
    <3>1. transitions' = Append(transitions, t)
      BY <1>0, <2>2, <2>7 DEF Write, VerdictMoved
    <3>2. t \in Transition /\ t.agent = a
      BY <1>1, <2>2 DEF Transition, Row
    <3>3. /\ K \in Nat /\ transitions'[K] = t
          /\ \A k \in DOMAIN transitions : k < K /\ transitions'[k] = transitions[k]
          /\ TransitionsOf(a)' = TransitionsOf(a) \cup {K}
      BY <1>0, <1>3, <3>1, <3>2, TransitionAppended
    <3>4. K \notin TransitionsOf(a)
      BY <3>3 DEF TransitionsOf
    <3>5. Moves(a)' = Moves(a) \cup {<<l, n>>} /\ <<l, n>> \notin Moves(a)
      BY <2>3, <2>7
    <3>6. Cardinality(TransitionsOf(a)') = Cardinality(Moves(a)')
      <4>1. IsFiniteSet(TransitionsOf(a)) /\ IsFiniteSet(Moves(a))
        BY <1>3, FiniteHistory
      <4>2. Cardinality(TransitionsOf(a)') = Cardinality(TransitionsOf(a)) + 1
        BY <3>3, <3>4, <4>1, FS_AddElement
      <4>3. Cardinality(Moves(a)') = Cardinality(Moves(a)) + 1
        BY <3>5, <4>1, FS_AddElement
      <4> QED
        BY <1>3, <4>2, <4>3 DEF EveryMoveOnce
    <3>7. AnnouncesMove(K, <<l, n>>)'
      BY <1>2, <2>1, <3>3 DEF AnnouncesMove
    <3>8. ASSUME NEW m \in Moves(a)
          PROVE  \E k \in TransitionsOf(a)' : AnnouncesMove(k, m)'
      <4>1. PICK k \in TransitionsOf(a) : AnnouncesMove(k, m)
        BY <1>3 DEF EveryMoveOnce
      <4>2. transitions'[k] = transitions[k] /\ k \in TransitionsOf(a)'
        BY <3>3 DEF TransitionsOf
      <4> QED
        BY <2>5, <4>1, <4>2
    <3> QED
      BY <3>3, <3>5, <3>6, <3>7, <3>8 DEF EveryMoveOnce
  <2> QED
    BY <2>6, <2>7
<1> QED
  BY <1>4, <1>5

LEMMA WriteSerialAgents ==
  ASSUME HInv, NEW w \in Workers, Write(w)
  PROVE  SerialAgentsAnnounced'
<1>1. IInv /\ SerialAgentsAnnounced /\ disturbed' = disturbed
  BY DEF HInv, SInv, History, Write
<1> SUFFICES ASSUME NEW a \in Agents \ disturbed PROVE EveryMoveOnce(a)'
  BY <1>1 DEF SerialAgentsAnnounced
<1>2. CASE a = job[w].new.agent
  BY <1>2, WriteAnnounces
<1>3. CASE a # job[w].new.agent
  <2>1. /\ \A i \in RowsOf(rows, a) : rows'[i] = rows[i]
        /\ Moves(a)' = Moves(a) /\ TransitionsOf(a)' = TransitionsOf(a)
    BY <1>1, <1>3, WriteTellsNothingOfOthers
  <2>2. \A k \in TransitionsOf(a) : transitions'[k] = transitions[k]
    BY <1>1, TransitionsGrow DEF TransitionsOf
  <2>3. \A m \in Moves(a) : m[1] \in RowsOf(rows, a) /\ m[2] \in RowsOf(rows, a)
    BY DEF Moves
  <2>4. \A k \in TransitionsOf(a), m \in Moves(a) : AnnouncesMove(k, m) => AnnouncesMove(k, m)'
    BY <2>1, <2>2, <2>3 DEF AnnouncesMove
  <2>5. EveryMoveOnce(a)
    BY <1>1 DEF SerialAgentsAnnounced
  <2> QED
    BY <2>1, <2>4, <2>5 DEF EveryMoveOnce
<1> QED
  BY <1>2, <1>3

LEMMA WriteChanges ==
  ASSUME HInv, NEW w \in Workers, Write(w)
  PROVE  ChangesLeadToLatest'
<1>0. PICK r, p, K : /\ r = job[w].new /\ p = job[w].prev
                     /\ K = Len(transitions) + 1
  OBVIOUS
<1> DEFINE t == [agent |-> r.agent, from |-> p.verdict, to |-> r.verdict, at |-> r.at]
<1>1. /\ IInv /\ HonestTransitions /\ ChangesLeadToLatest /\ disturbed' = disturbed
      /\ transitions \in Seq(Transition)
  BY DEF HInv, SInv, IInv, TypeOK, History, Write
<1>2. \A k \in DOMAIN transitions : k \in DOMAIN transitions' /\ transitions'[k] = transitions[k]
  BY <1>1, TransitionsGrow
<1> SUFFICES ASSUME NEW a \in Agents \ disturbed, NEW k \in TransitionsOf(a)',
                    IsNewestChange(transitions', k)
             PROVE  transitions'[k].to = LastVerdict(rows', a).verdict
  BY <1>1 DEF ChangesLeadToLatest
<1>3. ASSUME k \in TransitionsOf(a)
      PROVE  /\ transitions'[k] = transitions[k]
             /\ transitions[k].to = LastVerdict(rows, a).verdict
  <2>1. k \in DOMAIN transitions
    BY <1>3 DEF TransitionsOf
  <2>2. IsNewestChange(transitions, k)
    BY <1>2, <2>1, NewestChangeBefore
  <2> QED
    BY <1>1, <1>2, <1>3, <2>1, <2>2 DEF ChangesLeadToLatest
<1>4. CASE a # r.agent
  <2>1. LastVerdict(rows', a) = LastVerdict(rows, a) /\ k \in TransitionsOf(a)
    BY <1>0, <1>1, <1>4, WriteTellsNothingOfOthers
  <2> QED
    BY <1>3, <2>1
<1>5. CASE a = r.agent /\ ~VerdictMoved(job[w])
  <2>1. k \in TransitionsOf(a)
    BY <1>5 DEF Write, TransitionsOf
  <2>2. RowsOf(rows, a) # {}
    BY <1>1, <2>1, NoRowsNoCrossings
  <2>5. rows \in Seq(Row)
    BY <1>1 DEF IInv, TypeOK
  <2>6. PICK l \in RowsOf(rows, a) : p = rows[l] /\ LastVerdict(rows, a) = rows[l]
    BY <1>0, <1>5, <2>2, WhatWriteFinds
  <2>3. p = LastVerdict(rows, a) /\ LastVerdict(rows', a) = r /\ p \in Row
    BY <1>0, <1>5, <2>5, <2>6, WhatWriteFinds, RowTypes
  <2>4. p.verdict = r.verdict
    BY <1>0, <1>5, <2>3, NoRowAssumption DEF VerdictMoved
  <2> QED
    BY <1>3, <2>1, <2>3, <2>4
<1>6. CASE a = r.agent /\ VerdictMoved(job[w])
  <2>1. transitions' = Append(transitions, t)
    BY <1>0, <1>6 DEF Write
  <2>2. t \in Transition /\ t.agent = a
    BY <1>0, <1>1, <1>6, JobTypes DEF IInv, Write, VerdictMoved, Row, Transition
  <2>3. /\ K \in Nat /\ transitions'[K] = t /\ K \in DOMAIN transitions'
        /\ \A j \in DOMAIN transitions : j < K /\ j \in Nat
        /\ TransitionsOf(a)' = TransitionsOf(a) \cup {K}
    <3>1. K \in DOMAIN transitions'
      BY <1>0, <1>1, <2>1, <2>2
    <3> HIDE DEF t
    <3> QED
      BY <1>0, <1>1, <2>1, <2>2, <3>1, TransitionAppended
  <2>4. LastVerdict(rows', a) = r /\ \A i \in RowsOf(rows, a) : rows[i].at <= r.at
    BY <1>0, <1>6, WhatWriteFinds
  <2>5. k = K
    <3> SUFFICES ASSUME k \in TransitionsOf(a) PROVE FALSE
      BY <2>3
    <3>1. k \in DOMAIN transitions /\ transitions[k].agent = a /\ transitions'[k] = transitions[k]
      BY <1>2 DEF TransitionsOf
    <3>2. \E j \in RowsOf(rows, a) : rows[j].at = transitions[k].at
      BY <1>1, <3>1 DEF HonestTransitions, Honest
    <3>3. transitions[k].at <= r.at
      BY <2>4, <3>2
    <3>4. k < K /\ k \in Nat
      BY <2>3, <3>1
    <3>5. transitions[k].at > r.at \/ (transitions[k].at = r.at /\ k >= K)
      BY <2>2, <2>3, <3>1 DEF IsNewestChange
    <3>6. transitions[k].at \in Nat /\ r.at \in Nat
      <4>1. transitions[k] \in Transition
        BY <1>1, <3>1
      <4> QED
        BY <2>2, <4>1 DEF Transition
    <3> QED
      BY <2>3, <3>3, <3>4, <3>5, <3>6
  <2> QED
    BY <2>3, <2>4, <2>5
<1> QED
  BY <1>4, <1>5, <1>6

LEMMA WriteBoard ==
  ASSUME HInv, NEW w \in Workers, Write(w)
  PROVE  BoardLagIsAnnounced'
<1>0. PICK r, p, n, K : /\ r = job[w].new /\ p = job[w].prev
                        /\ n = Len(rows) + 1 /\ K = Len(transitions) + 1
  OBVIOUS
<1> DEFINE t == [agent |-> r.agent, from |-> p.verdict, to |-> r.verdict, at |-> r.at]
<1>1. /\ IInv /\ BoardLagIsAnnounced /\ disturbed' = disturbed
      /\ rows \in Seq(Row) /\ transitions \in Seq(Transition)
  BY DEF HInv, SInv, IInv, TypeOK, History, Write
<1>2. \A k \in DOMAIN transitions : k \in DOMAIN transitions' /\ transitions'[k] = transitions[k]
  BY <1>1, TransitionsGrow
<1> DEFINE Crossed(a, v, s) == \E k \in TransitionsOf(a)' : /\ transitions'[k].from = v
                                                            /\ transitions'[k].at = s
<1>3. ASSUME NEW a \in Agents \ disturbed, NEW i \in BoardRows(rows, a),
             rows[i].verdict # LastVerdict(rows, a).verdict
      PROVE  Crossed(a, rows[i].verdict, rows[i].at)
  <2>1. PICK k \in TransitionsOf(a) : /\ transitions[k].from = rows[i].verdict
                                      /\ transitions[k].at = rows[i].at
    BY <1>1, <1>3 DEF BoardLagIsAnnounced
  <2>2. k \in TransitionsOf(a)' /\ transitions'[k] = transitions[k]
    BY <1>2 DEF TransitionsOf
  <2> QED
    BY <2>1, <2>2
<1> SUFFICES ASSUME NEW a \in Agents \ disturbed, NEW i \in BoardRows(rows', a),
                    rows'[i].verdict # LastVerdict(rows', a).verdict
             PROVE  Crossed(a, rows'[i].verdict, rows'[i].at)
  BY <1>1 DEF BoardLagIsAnnounced
<1>4. CASE a # r.agent
  <2>1. /\ LastVerdict(rows', a) = LastVerdict(rows, a) /\ i \in BoardRows(rows, a)
        /\ rows'[i] = rows[i]
    BY <1>0, <1>1, <1>4, WriteTellsNothingOfOthers DEF BoardRows
  <2> HIDE DEF Crossed
  <2> QED
    BY <1>3, <2>1
<1>5. CASE a = r.agent
  <2>1. /\ r \in Row /\ Inserted(rows, r, rows', n) /\ LastVerdict(rows', a) = r
        /\ \A j \in RowsOf(rows, a) : rows[j].at <= r.at
    BY <1>0, <1>5, WhatWriteFinds
  <2>2. /\ rows'[n] = r /\ RowsOf(rows', a) = RowsOf(rows, a) \cup {n}
        /\ \A j \in RowsOf(rows, a) : rows'[j] = rows[j]
    BY <1>5, <2>1 DEF Inserted
  <2>3. i \in RowsOf(rows, a) /\ rows'[i] = rows[i]
    BY <2>1, <2>2 DEF BoardRows
  <2>4. PICK l \in RowsOf(rows, a) : /\ p = rows[l] /\ LastVerdict(rows, a) = rows[l]
                                     /\ \A j \in RowsOf(rows, a) : rows[j].at <= rows[l].at
    BY <1>0, <1>5, <2>3, WhatWriteFinds
  <2>5. r.at \in Nat /\ rows[i].at \in Nat /\ rows[l].at \in Nat
    BY <1>1, <2>1, <2>3, RowTypes DEF Row
  <2>6. rows[i].at = r.at /\ i \in BoardRows(rows, a)
    <3>1. \A j \in RowsOf(rows', a) : rows'[i].at >= rows'[j].at
      BY DEF BoardRows
    <3>2. rows[i].at >= r.at /\ \A j \in RowsOf(rows, a) : rows[i].at >= rows[j].at
      BY <2>2, <2>3, <3>1
    <3>3. rows[i].at <= r.at
      BY <2>1, <2>3
    <3> QED
      BY <2>3, <2>5, <3>2, <3>3 DEF BoardRows
  <2>7. CASE rows[i].verdict # rows[l].verdict
    <3> HIDE DEF Crossed
    <3> QED
      BY <1>3, <2>3, <2>4, <2>6, <2>7
  <2>8. CASE rows[i].verdict = rows[l].verdict
    <3>1. p \in Row /\ p # NoRow /\ p.verdict # r.verdict
      BY <1>1, <2>1, <2>3, <2>4, <2>8, RowTypes, NoRowAssumption
    <3>2. transitions' = Append(transitions, t)
      BY <1>0, <3>1 DEF Write, VerdictMoved
    <3>3. t \in Transition /\ t.agent = a
      BY <1>5, <2>1, <3>1 DEF Row, Transition
    <3> HIDE DEF t
    <3>4. transitions'[K] = t /\ K \in TransitionsOf(a)'
      BY <1>0, <1>1, <3>2, <3>3, TransitionAppended
    <3>5. t.from = rows'[i].verdict /\ t.at = rows'[i].at
      BY <2>3, <2>4, <2>6, <2>8 DEF t
    <3> QED
      BY <3>4, <3>5
  <2> QED
    BY <2>7, <2>8
<1> QED
  BY <1>4, <1>5

(* A step that writes no row changes no page, and who was disturbed stays  *)
(* disturbed.                                                              *)
LEMMA QuietHistory ==
  ASSUME History, UNCHANGED <<rows, transitions>>, disturbed \subseteq disturbed'
  PROVE  History'
<1>1. InTimeOrder'
  BY DEF History, InTimeOrder
<1>2. SerialAgentsAnnounced'
  <2>1. \A a \in Agents : EveryMoveOnce(a) => EveryMoveOnce(a)'
    BY DEF EveryMoveOnce, Moves, TransitionsOf, AnnouncesMove
  <2> QED
    BY <2>1 DEF History, SerialAgentsAnnounced
<1>3. ChangesLeadToLatest'
  BY DEF History, ChangesLeadToLatest, TransitionsOf
<1>4. BoardLagIsAnnounced'
  BY DEF History, BoardLagIsAnnounced, TransitionsOf
<1> QED
  BY <1>1, <1>2, <1>3, <1>4 DEF History

LEMMA InitHInv == Init => HInv
<1> SUFFICES ASSUME Init PROVE HInv
  OBVIOUS
<1>1. SInv
  BY InitSInv
<1>2. /\ DOMAIN rows = {} /\ DOMAIN transitions = {}
  BY DEF Init
<1>3. \A a : RowsOf(rows, a) = {} /\ TransitionsOf(a) = {} /\ Moves(a) = {}
  BY <1>2 DEF RowsOf, TransitionsOf, Moves
<1>4. InTimeOrder /\ ChangesLeadToLatest /\ BoardLagIsAnnounced
  BY <1>3 DEF InTimeOrder, ChangesLeadToLatest, BoardLagIsAnnounced, BoardRows
<1>5. SerialAgentsAnnounced
  BY <1>3 DEF SerialAgentsAnnounced, EveryMoveOnce
<1> QED
  BY <1>1, <1>4, <1>5 DEF HInv, History

LEMMA StepHInv == HInv /\ [Next]_vars => HInv'
<1> SUFFICES ASSUME HInv, [Next]_vars
             PROVE  HInv'
  OBVIOUS
<1>1. SInv'
  BY StepSInv DEF HInv
<1>2. ASSUME NEW w \in Workers, Write(w) PROVE History'
  BY <1>2, WriteInTimeOrder, WriteSerialAgents, WriteChanges, WriteBoard DEF History
<1>3. ASSUME NEW w \in Workers, NEW a \in Agents, NEW v \in Verdicts, Begin(w, a, v)
      PROVE  History'
  <2>1. UNCHANGED <<rows, transitions>> /\ disturbed \subseteq disturbed'
    BY <1>3 DEF Begin
  <2> QED
    BY <2>1, QuietHistory DEF HInv
<1>4. ASSUME NEW w \in Workers, ReadPrev(w) \/ Abort(w) PROVE History'
  BY <1>4, QuietHistory DEF HInv, ReadPrev, Abort
<1>5. ASSUME Tick \/ StepBack \/ UNCHANGED vars PROVE History'
  BY <1>5, QuietHistory DEF HInv, Tick, StepBack, vars
<1> QED
  BY <1>1, <1>2, <1>3, <1>4, <1>5 DEF Next, HInv

LEMMA HistoryHolds == Spec => []HInv
  BY InitHInv, StepHInv, PTL DEF Spec

(* However calls about other agents interleave and abort, every change of  *)
(* verdict of an agent whose own calls took turns is announced, once.      *)
THEOREM SerialAgentsAreAnnounced == Spec => []SerialAgentsAnnounced
<1>1. HInv => SerialAgentsAnnounced
  BY DEF HInv, History
<1> QED
  BY <1>1, HistoryHolds, PTL

(* For such an agent the newest crossing on /changes leads to the verdict  *)
(* last_verdict() returns.                                                 *)
THEOREM NewestChangeIsLatest == Spec => []ChangesLeadToLatest
<1>1. HInv => ChangesLeadToLatest
  BY DEF HInv, History
<1> QED
  BY <1>1, HistoryHolds, PTL

(* And where the board shows an older verdict of it, the crossing away     *)
(* from that verdict is among the changes.                                 *)
THEOREM BoardLagAnnounced == Spec => []BoardLagIsAnnounced
<1>1. HInv => BoardLagIsAnnounced
  BY DEF HInv, History
<1> QED
  BY <1>1, HistoryHolds, PTL

-----------------------------------------------------------------------------
(* When calls about one agent take turns, the store implements the ledger. *)

LEMMA SerialInvariantHolds == SerialSpec => []SInv
<1>1. SInv /\ [Next /\ disturbed' = {}]_vars => SInv'
  BY StepSInv
<1> QED
  BY <1>1, InitSInv, PTL DEF SerialSpec

-----------------------------------------------------------------------------
(* The refinement mapping, step by step.                                   *)

LEMMA UntimedAppend ==
  ASSUME NEW T \in Seq(Transition), NEW t \in Transition
  PROVE  /\ Untimed(T) \in Seq([agent : Agents, from : Verdicts, to : Verdicts])
         /\ Untimed(Append(T, t)) =
              Append(Untimed(T), [agent |-> t.agent, from |-> t.from, to |-> t.to])
<1> DEFINE c(x) == [agent |-> x.agent, from |-> x.from, to |-> x.to]
           C == [agent : Agents, from : Verdicts, to : Verdicts]
           n == Len(T) + 1
<1>1. /\ Len(T) \in Nat /\ DOMAIN T = 1..Len(T)
      /\ \A k \in 1..Len(T) : T[k] \in Transition
  OBVIOUS
<1>2. \A x \in Transition : c(x) \in C
  BY DEF Transition
<1>3. Untimed(T) = [k \in 1..Len(T) |-> c(T[k])]
  BY <1>1 DEF Untimed
<1>4. Untimed(T) \in Seq(C) /\ Len(Untimed(T)) = Len(T)
  BY <1>1, <1>2, <1>3
<1>5. /\ DOMAIN Append(T, t) = 1..n
      /\ Append(T, t)[n] = t
      /\ \A k \in 1..Len(T) : Append(T, t)[k] = T[k]
  BY <1>1
<1>6. Untimed(Append(T, t)) = [k \in 1..n |-> IF k = n THEN c(t) ELSE c(T[k])]
  BY <1>1, <1>5 DEF Untimed
<1>7. Append(Untimed(T), c(t)) = [k \in 1..n |-> IF k = n THEN c(t) ELSE c(T[k])]
  <2>1. c(t) \in C
    BY <1>2
  <2> HIDE DEF C
  <2>2. /\ Append(Untimed(T), c(t)) \in Seq(C)
        /\ DOMAIN Append(Untimed(T), c(t)) = 1..n
        /\ Append(Untimed(T), c(t))[n] = c(t)
        /\ \A k \in 1..Len(T) : Append(Untimed(T), c(t))[k] = Untimed(T)[k]
    BY <1>1, <1>4, <2>1
  <2>3. \A k \in 1..Len(T) : Untimed(T)[k] = c(T[k])
    BY <1>3
  <2> DEFINE A == Append(Untimed(T), c(t))
  <2>4. A = [k \in 1..n |-> A[k]]
    BY <2>2
  <2>5. \A k \in 1..n : A[k] = IF k = n THEN c(t) ELSE c(T[k])
    BY <1>1, <2>2, <2>3
  <2> HIDE DEF c, A, n
  <2>6. A = [k \in 1..n |-> IF k = n THEN c(t) ELSE c(T[k])]
    BY <2>4, <2>5
  <2> QED
    BY <2>6 DEF A
<1> QED
  BY <1>4, <1>6, <1>7

LEMMA InitRefines == Init => Ledger!Init
  BY DEF Init, Ledger!Init, CurrentVerdict, Untimed, RowsOf

(* Inserting the youngest row of its agent makes its verdict current.      *)
LEMMA CurrentAfterInsert ==
  ASSUME IInv, NEW r \in Row, rows' = Append(rows, r),
         \A i \in RowsOf(rows, r.agent) : rows[i].at <= r.at
  PROVE  CurrentVerdict' = [CurrentVerdict EXCEPT ![r.agent] = r.verdict]
<1> DEFINE n == Len(rows) + 1
<1>1. rows \in Seq(Row) /\ Ordered(rows) /\ r.agent \in Agents
  BY DEF IInv, TypeOK, Row
<1>2. Inserted(rows, r, rows', n)
  BY <1>1, RowInserted
<1>3. LastVerdict(rows', r.agent) = r
  <2>1. IsLatest(rows', r.agent, n)
    BY <1>1, InsertedLatest
  <2> QED
    BY <1>2, <2>1, LatestUnique DEF Inserted
<1>4. RowsOf(rows', r.agent) # {}
  BY <1>2 DEF Inserted
<1>5. ASSUME NEW a \in Agents, a # r.agent
      PROVE  LastVerdict(rows', a) = LastVerdict(rows, a) /\ RowsOf(rows', a) = RowsOf(rows, a)
  BY <1>1, <1>2, <1>5, LastVerdictOfOthers DEF Inserted
<1> QED
  BY <1>1, <1>3, <1>4, <1>5 DEF CurrentVerdict

LEMMA WriteRefines ==
  ASSUME SInv, disturbed = {}, NEW w \in Workers, Write(w)
  PROVE  Ledger!Issue(job[w].new.agent, job[w].new.verdict)
<1> DEFINE r == job[w].new
           p == job[w].prev
           t == [agent |-> r.agent, from |-> p.verdict, to |-> r.verdict, at |-> r.at]
<1>1. /\ r \in Row /\ r.agent \in Agents /\ r.verdict \in Verdicts /\ r.at \in Nat
      /\ rows' = Append(rows, r)
      /\ rows \in Seq(Row) /\ Ordered(rows) /\ transitions \in Seq(Transition)
  BY JobTypes DEF Write, SInv, IInv, TypeOK, Row
<1>2. /\ p = LastVerdict(rows, r.agent)
      /\ \A i \in RowsOf(rows, r.agent) : rows[i].at <= r.at
  BY <1>1 DEF SInv, PrevIsCurrent, NoneYounger, InProgress, Write
<1>3. CurrentVerdict' = [CurrentVerdict EXCEPT ![r.agent] = r.verdict]
  BY <1>1, <1>2, CurrentAfterInsert DEF SInv
<1>4. CASE RowsOf(rows, r.agent) = {}
  <2>1. CurrentVerdict[r.agent] = NoRow /\ p = NoRow
    BY <1>1, <1>2, <1>4 DEF CurrentVerdict, LastVerdict
  <2>2. transitions' = transitions
    BY <2>1 DEF Write, VerdictMoved
  <2> QED
    BY <1>3, <2>1, <2>2 DEF Ledger!Issue
<1>5. CASE RowsOf(rows, r.agent) # {}
  <2>1. p \in Row /\ p.verdict \in Verdicts
    <3>1. PICK i \in RowsOf(rows, r.agent) : IsLatest(rows, r.agent, i)
      BY <1>1, <1>5 DEF Ordered
    <3>2. p = rows[i]
      BY <1>1, <1>2, <3>1, LatestUnique
    <3>3. p \in Row
      BY <1>1, <3>2, RowTypes
    <3> QED
      BY <3>3 DEF Row
  <2>2. CurrentVerdict[r.agent] = p.verdict
    BY <1>1, <1>2, <1>5 DEF CurrentVerdict
  <2>3. p # NoRow /\ p.verdict # NoRow
    BY <2>1, NoRowAssumption
  <2>4. CASE p.verdict = r.verdict
    <3>1. transitions' = transitions
      BY <2>4 DEF Write, VerdictMoved
    <3> QED
      BY <1>3, <2>2, <2>4, <3>1 DEF Ledger!Issue
  <2>5. CASE p.verdict # r.verdict
    <3>1. transitions' = Append(transitions, t)
      BY <2>3, <2>5 DEF Write, VerdictMoved
    <3>2. t \in Transition
      BY <1>1, <2>1 DEF Transition
    <3>3. Untimed(transitions') =
            Append(Untimed(transitions),
                   [agent |-> r.agent, from |-> p.verdict, to |-> r.verdict])
      BY <1>1, <3>1, <3>2, UntimedAppend
    <3> QED
      BY <1>3, <2>2, <2>3, <2>5, <3>3 DEF Ledger!Issue
  <2> QED
    BY <2>4, <2>5
<1> QED
  BY <1>4, <1>5

(* Every step that writes nothing is a stutter of the ledger.              *)
LEMMA QuietRefines ==
  ASSUME UNCHANGED <<rows, transitions>>
  PROVE  UNCHANGED Ledger!vars
  BY DEF Ledger!vars, CurrentVerdict, Untimed

LEMMA StepRefines ==
  SInv /\ SInv' /\ [Next /\ disturbed' = {}]_vars => [Ledger!Next]_(Ledger!vars)
<1> SUFFICES ASSUME SInv, [Next /\ disturbed' = {}]_vars
             PROVE  Ledger!Next \/ UNCHANGED Ledger!vars
  OBVIOUS
<1>1. ASSUME NEW w \in Workers, Write(w), disturbed' = {}
      PROVE  Ledger!Next
  <2>1. disturbed = {}
    BY <1>1 DEF Write
  <2>2. job[w].new.agent \in Agents /\ job[w].new.verdict \in Verdicts
    BY <1>1, JobTypes DEF Write, SInv, IInv, Row
  <2> QED
    BY <1>1, <2>1, <2>2, WriteRefines DEF Ledger!Next
<1>2. ASSUME NEW w \in Workers, NEW a \in Agents, NEW v \in Verdicts, Begin(w, a, v)
      PROVE  UNCHANGED Ledger!vars
  BY <1>2, QuietRefines DEF Begin
<1>3. ASSUME NEW w \in Workers, ReadPrev(w) \/ Abort(w)
      PROVE  UNCHANGED Ledger!vars
  BY <1>3, QuietRefines DEF ReadPrev, Abort
<1>4. CASE Tick \/ StepBack \/ UNCHANGED vars
  BY <1>4, QuietRefines DEF Tick, StepBack, vars
<1> QED
  BY <1>1, <1>2, <1>3, <1>4 DEF Next

(* store.record(), called for one agent at a time, implements the ledger:  *)
(* each verdict becomes the agent's current one and is announced as a      *)
(* crossing in that step iff it moved.                                     *)
THEOREM StoreKeepsLedger == SerialSpec => LedgerSpec
<1>1. SerialSpec => Ledger!Init /\ [][Ledger!Next]_(Ledger!vars)
  BY SerialInvariantHolds, InitRefines, StepRefines, PTL DEF SerialSpec
<1> QED
  BY <1>1 DEF LedgerSpec, Ledger!Spec
=============================================================================
