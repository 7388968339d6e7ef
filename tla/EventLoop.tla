------------------------------ MODULE EventLoop ------------------------------
(***************************************************************************)
(* app.py as uvicorn runs it: one event loop, a pool of worker threads,    *)
(* and requests about KYA itself (agent 5290), whose assessment calls the  *)
(* service's own endpoints and records an unanswered call as a dead one.   *)
(*                                                                         *)
(* The loop reads requests and sends answers; run_in_threadpool() and      *)
(* plain `def` routes hand work to the pool, first come first served, and  *)
(* the loop takes the token back when the work is done.  A search by name  *)
(* in /verify runs on the loop itself (app.py:325).                        *)
(*                                                                         *)
(* A tick passes when the loop has nothing it could do at once: what the   *)
(* loop does is short against the 4 s a probe waits.                       *)
(***************************************************************************)
EXTENDS Integers, Sequences, FiniteSets, SequencesExt

CONSTANTS
    Clients,
    Kinds,          \* "id", "name": /verify; "audit": /audit; "read": others
    POOL,           \* worker threads (anyio's limiter, 40)
    PROBE_TIMEOUT,  \* _PROBE_TIMEOUT (4 s), in ticks
    SEARCH_TIME,    \* the subprocess timeout (30 s), in ticks
    Free            \* nothing runs on the loop

Endpoints == {"verify", "audit"}
Methods == {"POST", "GET"}
Probes == Clients \X Endpoints \X Methods
Requests == Clients \cup Probes

ASSUME LoopAssumption ==
    /\ Kinds \subseteq {"id", "name", "audit", "read"}
    /\ {POOL, PROBE_TIMEOUT, SEARCH_TIME} \subseteq Nat \ {0}
    /\ Free \notin Requests /\ Clients \cap Probes = {}

VARIABLES
    unread,    \* requests on the socket
    loop,      \* the request whose handler keeps the loop, or Free
    searched,  \* for how many ticks it has
    queue,     \* requests waiting for a worker
    held,      \* requests that have one
    st,        \* what each client asked for, then how far the service got
    probe,     \* each probe: not made, out, or how it ended
    age,       \* ticks a probe has been out
    excused    \* history: ticks something justified that an endpoint waits

server == <<unread, loop, searched, queue, held>>
probing == <<probe, age>>
vars == <<server, st, probing, excused>>

Patience == 2 * PROBE_TIMEOUT   \* a POST and a GET

Init ==
    /\ unread = {} /\ loop = Free /\ searched = 0 /\ queue = <<>> /\ held = {}
    /\ st = [c \in Clients |-> "idle"]
    /\ probe = [p \in Probes |-> "none"]
    /\ age = [p \in Probes |-> 0]
    /\ excused = [c \in Clients |-> [e \in Endpoints |-> 0]]

-----------------------------------------------------------------------------
(* Clients.  A client asks again when nothing of its last request, not     *)
(* even an abandoned probe, is left in the service.                        *)
Leftover(c) == {p \in Probes : p[1] = c /\ (p \in unread \cup held \cup ToSet(queue))}

Send(c, k) ==
    /\ st[c] = "idle" /\ Leftover(c) = {}
    /\ st' = [st EXCEPT ![c] = k]
    /\ unread' = unread \cup {c}
    /\ UNCHANGED <<loop, searched, queue, held, probing, excused>>

-----------------------------------------------------------------------------
(* The loop.                                                               *)
Takes(r) == r \in unread /\ loop = Free /\ unread' = unread \ {r}

(* Mutant of HandOff: the verdict is computed in the handler.              *)
StayOnLoop(r) ==
    /\ loop' = r /\ held' = held \cup {r}
    /\ UNCHANGED <<queue, searched>>

HandOff(r) ==
    /\ queue' = Append(queue, r)
    /\ UNCHANGED <<loop, held, searched>>

Goes(c, stage) == st' = [st EXCEPT ![c] = stage]

(* /verify by id: _resolve() has nothing to look up.                       *)
VerifyById(c) ==
    /\ Takes(c) /\ st[c] = "id"
    /\ HandOff(c)
    /\ Goes(c, "assessing")
    /\ UNCHANGED <<probing, excused>>

(* /verify by name: _resolve() searches, on the loop.                      *)
VerifyByName(c) ==
    /\ Takes(c) /\ st[c] = "name"
    /\ loop' = c
    /\ Goes(c, "searching")
    /\ UNCHANGED <<queue, searched, held, probing, excused>>

SearchEnds(c) ==
    /\ loop = c /\ st[c] = "searching"
    /\ loop' = Free /\ searched' = 0
    /\ \/ queue' = Append(queue, c) /\ Goes(c, "assessing")
       \/ queue' = queue /\ Goes(c, "idle")       \* 404, or 500
    /\ UNCHANGED <<unread, held, probing, excused>>

(* /audit enters by the gate; /health, /history and the pages are plain    *)
(* routes.  Both go to the pool.                                           *)
AuditOrRead(c) ==
    /\ Takes(c) /\ st[c] \in {"audit", "read"}
    /\ queue' = Append(queue, c)
    /\ Goes(c, IF st[c] = "audit" THEN "gated" ELSE "reading")
    /\ UNCHANGED <<loop, held, searched, probing, excused>>

(* The service's own probes name no agent.  /verify describes itself on    *)
(* the spot, /audit puts its gate to work, for a caller that is gone too.  *)
DescribeVerify(p) ==
    /\ Takes(p) /\ p[2] = "verify"
    /\ probe' = [probe EXCEPT ![p] = IF @ = "out" THEN "answered" ELSE @]
    /\ UNCHANGED <<loop, searched, queue, held, st, age, excused>>

GateProbe(p) ==
    /\ Takes(p) /\ p[2] = "audit"
    /\ queue' = Append(queue, p)
    /\ UNCHANGED <<loop, searched, held, st, probing, excused>>

(* Mutant of GetsWorker: a pool without a limit.                           *)
GetsWorkerUnlimited ==
    /\ loop = Free /\ queue # <<>>
    /\ held' = held \cup {Head(queue)}
    /\ queue' = Tail(queue)
    /\ UNCHANGED <<unread, loop, searched, st, probing, excused>>

GetsWorker ==
    /\ loop = Free /\ queue # <<>> /\ Cardinality(held) < POOL
    /\ held' = held \cup {Head(queue)}
    /\ queue' = Tail(queue)
    /\ UNCHANGED <<unread, loop, searched, st, probing, excused>>

(* Work is done: the loop takes the worker back and answers.               *)
Done(r) ==
    /\ r \in held /\ loop \in {Free, r}
    /\ held' = held \ {r} /\ loop' = Free

(* The gate refuses, or the buyer pays and the route goes to the pool.     *)
GateDone(c) ==
    /\ st[c] = "gated" /\ Done(c)
    /\ \/ queue' = Append(queue, c) /\ Goes(c, "assessing")
       \/ queue' = queue /\ Goes(c, "idle")
    /\ UNCHANGED <<unread, searched, probing, excused>>

GateRefusesProbe(p) ==
    /\ p \in Probes /\ Done(p)
    /\ probe' = [probe EXCEPT ![p] = IF @ = "out" THEN "answered" ELSE @]
    /\ UNCHANGED <<unread, searched, queue, st, age, excused>>

ReadDone(c) ==
    /\ st[c] = "reading" /\ Done(c)
    /\ Goes(c, "idle")
    /\ UNCHANGED <<unread, searched, queue, probing, excused>>

(* The marketplace cannot be read: /audit answers 502, /verify has the     *)
(* pool look up the last verdict instead.                                  *)
AssessFails(c) ==
    /\ st[c] = "assessing" /\ Done(c)
    /\ \/ queue' = Append(queue, c) /\ Goes(c, "reading")
       \/ queue' = queue /\ Goes(c, "idle")
    /\ UNCHANGED <<unread, searched, probing, excused>>

-----------------------------------------------------------------------------
(* A worker assessing KYA: each endpoint is sent a POST, then a GET.       *)
SendProbes(ps) ==
    /\ probe' = [p \in Probes |-> IF p \in ps THEN "out" ELSE probe[p]]
    /\ unread' = unread \cup ps

BeginProbes(c) ==
    /\ c \in held /\ st[c] = "assessing"
    /\ Goes(c, "probing")
    /\ SendProbes({<<c, e, "POST">> : e \in Endpoints})
    /\ UNCHANGED <<loop, searched, queue, held, age, excused>>

Ended(p) == probe[p] \in {"answered", "timeout"}

NextMethod(c, e) ==
    /\ st[c] = "probing"
    /\ Ended(<<c, e, "POST">>) /\ probe[<<c, e, "GET">>] = "none"
    /\ SendProbes({<<c, e, "GET">>})
    /\ UNCHANGED <<loop, searched, queue, held, st, age, excused>>

(* Mutant of GivesUp: a probe that is due waits another time.              *)
WaitsOn(p) ==
    /\ probe[p] = "out" /\ age[p] = PROBE_TIMEOUT
    /\ age' = [age EXCEPT ![p] = 0]
    /\ UNCHANGED <<server, st, probe, excused>>

GivesUp(p) ==
    /\ probe[p] = "out" /\ age[p] = PROBE_TIMEOUT
    /\ probe' = [probe EXCEPT ![p] = "timeout"]
    /\ UNCHANGED <<server, st, age, excused>>

(* _probe_one(): an endpoint is down when neither method was answered.     *)
FoundDown(c, e) == \A m \in Methods : probe[<<c, e, m>>] = "timeout"

AssessDone(c) ==
    /\ st[c] = "probing" /\ Done(c)
    /\ \A e \in Endpoints, m \in Methods : Ended(<<c, e, m>>)
    /\ Goes(c, "idle")
    /\ probe' = [p \in Probes |-> IF p[1] = c THEN "none" ELSE probe[p]]
    /\ age' = [p \in Probes |-> IF p[1] = c THEN 0 ELSE age[p]]
    /\ excused' = [excused EXCEPT ![c] = [e \in Endpoints |-> 0]]
    /\ UNCHANGED <<unread, searched, queue>>

-----------------------------------------------------------------------------
Searching == loop \in Clients /\ st[loop] = "searching"

Excuse(c, e) ==
    \/ Searching
    \/ e = "audit" /\ Cardinality(held) >= POOL
    \/ e = "audit" /\ \E m \in Methods : <<c, e, m>> \in held

Lesser(m, n) == IF m < n THEN m ELSE n

(* Time: a timeout is taken when it is due, a search is killed in time.    *)
Tick ==
    /\ loop = Free => unread = {} /\ (queue = <<>> \/ Cardinality(held) >= POOL)
    /\ \A p \in Probes : probe[p] = "out" => age[p] < PROBE_TIMEOUT
    /\ Searching => searched < SEARCH_TIME
    /\ searched' = IF Searching THEN searched + 1 ELSE searched
    /\ age' = [p \in Probes |-> IF probe[p] = "out" THEN age[p] + 1 ELSE age[p]]
    /\ excused' = [c \in Clients |-> [e \in Endpoints |->
           IF st[c] = "probing" /\ Excuse(c, e)
           THEN Lesser(excused[c][e] + 1, Patience) ELSE excused[c][e]]]
    /\ UNCHANGED <<unread, loop, queue, held, st, probe>>

(* What is done for one client's request.                                  *)
Reads(c) ==
    \/ VerifyById(c) \/ VerifyByName(c) \/ SearchEnds(c) \/ AuditOrRead(c)

Works(c) ==
    \/ GateDone(c) \/ ReadDone(c) \/ AssessFails(c) \/ BeginProbes(c) \/ AssessDone(c)
    \/ \E e \in Endpoints : NextMethod(c, e)

Serves(p) == DescribeVerify(p) \/ GateProbe(p) \/ GateRefusesProbe(p) \/ GivesUp(p)

Proceeds(c) ==
    \/ Reads(c) \/ Works(c)
    \/ \E e \in Endpoints, m \in Methods : Serves(<<c, e, m>>)

Next ==
    \/ \E c \in Clients : Proceeds(c)
    \/ \E c \in Clients, k \in Kinds : Send(c, k)
    \/ GetsWorker
    \/ Tick

Spec == Init /\ [][Next]_vars

(* The socket, the loop's callbacks and the pool's waiters are served in   *)
(* order of arrival, so what again and again could be done for a request   *)
(* is not put off for ever by the requests of others: strong fairness, as  *)
(* the loop is busy now and then.  Clocks run however many requests come.  *)
LiveSpec ==
    /\ Spec
    /\ SF_vars(GetsWorker) /\ SF_vars(Tick)
    /\ \A c \in Clients : SF_vars(Proceeds(c))

-----------------------------------------------------------------------------
TypeOK ==
    /\ unread \subseteq Requests /\ held \subseteq Requests
    /\ loop \in Requests \cup {Free} /\ searched \in 0..SEARCH_TIME
    /\ ToSet(queue) \subseteq Requests \ held /\ IsInjective(queue)
    /\ Cardinality(held) <= POOL
    /\ st \in [Clients -> Kinds \cup {"idle", "searching", "gated", "reading",
                                   "assessing", "probing"}]
    /\ probe \in [Probes -> {"none", "out", "answered", "timeout"}]
    /\ age \in [Probes -> 0..PROBE_TIMEOUT]
    /\ excused \in [Clients -> [Endpoints -> 0..Patience]]

(* app.py:319-324: the service finds its own /verify dead only if searches *)
(* by name held the loop as long as both probes waited, and its /audit     *)
(* only if besides them a full pool or its own gate did.                   *)
DownIsExcused ==
    \A c \in Clients, e \in Endpoints :
        FoundDown(c, e) => excused[c][e] >= Patience

(* Although assessments of KYA hold the workers that the probes of its own *)
(* /audit wait for, nobody waits for ever.                                 *)
EveryRequestAnswered == \A c \in Clients : st[c] # "idle" ~> st[c] = "idle"
=============================================================================
