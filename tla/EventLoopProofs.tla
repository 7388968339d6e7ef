---------------------------- MODULE EventLoopProofs ----------------------------
(***************************************************************************)
(* Proofs about EventLoop, for every set of clients, size of the pool and  *)
(* length of the two timeouts.                                             *)
(*                                                                         *)
(*   LoopTyped            requests, loop, queue and pool keep their types, *)
(*                        and the pool its limit                           *)
(*   DownIsAlwaysExcused  the service finds an endpoint of its own dead    *)
(*                        only after waits that something justified        *)
(***************************************************************************)
EXTENDS EventLoop, FiniteSetTheorems, TLAPS

-----------------------------------------------------------------------------
(* The inductive invariant.                                                *)

(* The queue, the pool and the loop as data.                               *)
ServerOK ==
    /\ unread \subseteq Requests /\ held \subseteq Requests
    /\ IsFiniteSet(held) /\ Cardinality(held) <= POOL
    /\ queue \in Seq(Requests) /\ IsInjective(queue)
    /\ searched \in 0..SEARCH_TIME

(* The loop is kept by searches only.                                      *)
LoopSearches == loop = Free \/ (loop \in Clients /\ st[loop] = "searching")

Asking == {"id", "name", "audit", "read"}
InPool == {"gated", "reading", "assessing"}
Stages == Kinds \cup {"idle", "searching", "gated", "reading", "assessing", "probing"}

ClientOK ==
    /\ st \in [Clients -> Stages]
    /\ excused \in [Clients -> [Endpoints -> 0..Patience]]

(* No request is in two places, and a client's is where its stage says.    *)
OnePlace ==
    /\ \A r \in Requests : /\ r \in unread => r \notin held /\ r \notin ToSet(queue)
                           /\ r \in ToSet(queue) => r \notin held
    /\ \A c \in Clients : /\ c \in unread => st[c] \in Asking
                          /\ c \in ToSet(queue) => st[c] \in InPool
                          /\ c \in held => st[c] \in InPool \cup {"probing"}

(* A probe of the last assessment is left over only while its client has   *)
(* not asked again; one that is out is where it can be answered.           *)
ProbePlaces ==
    \A p \in Probes :
        /\ p \in unread \cup ToSet(queue) \cup held /\ probe[p] = "none" => st[p[1]] = "idle"
        /\ probe[p] = "out" => \/ p \in unread
                               \/ p[2] = "audit" /\ p \in ToSet(queue) \cup held

(* How a probe ended, how long it was out, and that the GET follows the    *)
(* POST.                                                                   *)
ProbeOK ==
    /\ probe \in [Probes -> {"none", "out", "answered", "timeout"}]
    /\ age \in [Probes -> 0..PROBE_TIMEOUT]
    /\ \A p \in Probes : /\ probe[p] # "none" => st[p[1]] = "probing"
                         /\ probe[p] = "none" => age[p] = 0
                         /\ probe[p] = "timeout" => age[p] = PROBE_TIMEOUT
    /\ \A c \in Clients, e \in Endpoints :
           probe[<<c, e, "GET">>] # "none" => Ended(<<c, e, "POST">>)

(* Every tick an endpoint was waited for was excused.                      *)
WaitIsExcused ==
    \A c \in Clients, e \in Endpoints :
        excused[c][e] >= age[<<c, e, "POST">>] + age[<<c, e, "GET">>]

IInv ==
    /\ ServerOK /\ LoopSearches /\ ClientOK /\ OnePlace
    /\ ProbePlaces /\ ProbeOK /\ WaitIsExcused

-----------------------------------------------------------------------------
(* Sequences without repetition, as the queue is one.                      *)

LEMMA AppendOnce ==
  ASSUME NEW S, NEW s \in Seq(S), NEW r \in S, IsInjective(s), r \notin ToSet(s)
  PROVE  /\ Append(s, r) \in Seq(S)
         /\ ToSet(Append(s, r)) = ToSet(s) \cup {r}
         /\ IsInjective(Append(s, r))
<1> DEFINE longer == Append(s, r)
<1>1. /\ longer \in Seq(S) /\ Len(longer) = Len(s) + 1
      /\ longer[Len(s) + 1] = r
      /\ \A i \in 1..Len(s) : longer[i] = s[i]
  OBVIOUS
<1>2. DOMAIN s = 1..Len(s) /\ DOMAIN longer = 1..(Len(s) + 1) /\ Len(s) \in Nat
  BY <1>1
<1>3. ToSet(longer) = ToSet(s) \cup {r}
  <2>1. ASSUME NEW x \in ToSet(longer)  PROVE x \in ToSet(s) \cup {r}
    BY <2>1, <1>1, <1>2 DEF ToSet
  <2>2. ASSUME NEW x \in ToSet(s)  PROVE x \in ToSet(longer)
    BY <2>2, <1>1, <1>2 DEF ToSet
  <2>3. r \in ToSet(longer)
    BY <1>1, <1>2 DEF ToSet
  <2> QED
    BY <2>1, <2>2, <2>3
<1>4. IsInjective(longer)
  <2> SUFFICES ASSUME NEW i \in 1..(Len(s) + 1), NEW j \in 1..(Len(s) + 1), longer[i] = longer[j]
               PROVE  i = j
    BY <1>2 DEF IsInjective
  <2>1. \A k \in 1..Len(s) : s[k] # r
    BY <1>2 DEF ToSet
  <2> QED
    BY <2>1, <1>1, <1>2 DEF IsInjective
<1> QED
  BY <1>1, <1>3, <1>4

LEMMA TailOnce ==
  ASSUME NEW S, NEW s \in Seq(S), IsInjective(s), s # <<>>
  PROVE  /\ Tail(s) \in Seq(S)
         /\ Head(s) \in ToSet(s) /\ Head(s) \in S
         /\ ToSet(Tail(s)) = ToSet(s) \ {Head(s)}
         /\ IsInjective(Tail(s))
<1> DEFINE rest == Tail(s)
<1>1. /\ rest \in Seq(S) /\ Len(rest) = Len(s) - 1 /\ Len(s) \in Nat \ {0}
      /\ Head(s) = s[1]
      /\ \A i \in 1..(Len(s) - 1) : rest[i] = s[i + 1]
  OBVIOUS
<1>2. DOMAIN s = 1..Len(s) /\ DOMAIN rest = 1..(Len(s) - 1)
  BY <1>1
<1>3. \A i, j \in 1..Len(s) : s[i] = s[j] => i = j
  BY <1>2 DEF IsInjective
<1>4. ToSet(rest) = ToSet(s) \ {Head(s)}
  <2>1. ASSUME NEW x \in ToSet(rest)  PROVE x \in ToSet(s) /\ x # Head(s)
    <3>1. PICK i \in 1..(Len(s) - 1) : x = rest[i]
      BY <2>1, <1>2 DEF ToSet
    <3>2. x = s[i + 1] /\ i + 1 \in 1..Len(s) /\ i + 1 # 1
      BY <3>1, <1>1
    <3> QED
      BY <3>2, <1>1, <1>2, <1>3 DEF ToSet
  <2>2. ASSUME NEW x \in ToSet(s), x # Head(s)  PROVE x \in ToSet(rest)
    <3>1. PICK i \in 1..Len(s) : x = s[i]
      BY <2>2, <1>2 DEF ToSet
    <3>2. i # 1
      BY <3>1, <2>2, <1>1
    <3>3. i - 1 \in 1..(Len(s) - 1) /\ rest[i - 1] = s[(i - 1) + 1] /\ (i - 1) + 1 = i
      BY <3>2, <1>1
    <3> QED
      BY <3>1, <3>3, <1>2 DEF ToSet
  <2> QED
    BY <2>1, <2>2
<1>5. IsInjective(rest)
  <2> SUFFICES ASSUME NEW i \in 1..(Len(s) - 1), NEW j \in 1..(Len(s) - 1), rest[i] = rest[j]
               PROVE  i = j
    BY <1>2 DEF IsInjective
  <2>1. s[i + 1] = s[j + 1] /\ i + 1 \in 1..Len(s) /\ j + 1 \in 1..Len(s)
    BY <1>1
  <2>2. i + 1 = j + 1
    BY <2>1, <1>3
  <2> QED
    BY <2>2
<1>6. Head(s) \in ToSet(s) /\ Head(s) \in S
  BY <1>1, <1>2 DEF ToSet
<1> QED
  BY <1>1, <1>4, <1>5, <1>6

-----------------------------------------------------------------------------
(* What the parts of a step do.                                            *)

LEMMA ProbeFields ==
  /\ \A p \in Probes : /\ p[1] \in Clients /\ p[2] \in Endpoints /\ p[3] \in Methods
                       /\ p = <<p[1], p[2], p[3]>>
                       /\ p \in Requests /\ p \notin Clients
  /\ \A c \in Clients, e \in Endpoints, m \in Methods :
        /\ <<c, e, m>> \in Probes
        /\ <<c, e, m>>[1] = c /\ <<c, e, m>>[2] = e /\ <<c, e, m>>[3] = m
  /\ \A c \in Clients : c \in Requests /\ c # Free /\ c \notin Probes
  BY LoopAssumption DEF Probes, Requests

LEMMA PutInQueue ==
  ASSUME IInv, NEW r \in Requests, r \notin ToSet(queue), queue' = Append(queue, r)
  PROVE  /\ queue' \in Seq(Requests) /\ IsInjective(queue')
         /\ ToSet(queue)' = ToSet(queue) \cup {r}
  BY AppendOnce DEF IInv, ServerOK

LEMMA GiveBack ==
  ASSUME IInv, NEW r, Done(r)
  PROVE  /\ r \in held /\ held' = held \ {r} /\ loop' = Free
         /\ held' \subseteq Requests /\ IsFiniteSet(held') /\ Cardinality(held') <= POOL
<1>1. IsFiniteSet(held) /\ Cardinality(held) <= POOL /\ held \subseteq Requests /\ POOL \in Nat
  BY LoopAssumption DEF IInv, ServerOK
<1>2. r \in held /\ held' = held \ {r} /\ loop' = Free
  BY DEF Done
<1>3. IsFiniteSet(held') /\ Cardinality(held') = Cardinality(held) - 1
  BY <1>1, <1>2, FS_RemoveElement
<1>4. Cardinality(held) \in Nat
  BY <1>1, FS_CardinalityType
<1> QED
  BY <1>1, <1>2, <1>3, <1>4

LEMMA NextStage ==
  ASSUME IInv, NEW c \in Clients, NEW stage \in Stages, Goes(c, stage)
  PROVE  /\ st' \in [Clients -> Stages] /\ st'[c] = stage
         /\ \A d \in Clients \ {c} : st'[d] = st[d]
  BY DEF IInv, ClientOK, Goes

(* A client's step that sends no probe and ends no assessment: what is     *)
(* known of the probes stays as it was.                                    *)
LEMMA ProbesUntouched ==
  ASSUME IInv, NEW c \in Clients, UNCHANGED <<probe, age, excused>>,
         st[c] # "probing", \A d \in Clients \ {c} : st'[d] = st[d]
  PROVE  ProbeOK' /\ WaitIsExcused'
<1>1. probe' = probe /\ age' = age /\ excused' = excused
  OBVIOUS
<1>2. \A p \in Probes : probe[p] # "none" => st'[p[1]] = "probing"
  BY ProbeFields DEF IInv, ProbeOK
<1> QED
  BY <1>1, <1>2 DEF IInv, ProbeOK, WaitIsExcused, Ended

-----------------------------------------------------------------------------
(* A client asks, and the loop reads what it asked.                        *)

LEMMA SendKeeps ==
  ASSUME IInv, NEW c \in Clients, NEW k \in Kinds, Send(c, k)
  PROVE  IInv'
<1>1. /\ st[c] = "idle" /\ Leftover(c) = {} /\ unread' = unread \cup {c}
      /\ UNCHANGED <<loop, searched, queue, held, probe, age, excused>>
  BY DEF Send, probing
<1>2. /\ st' \in [Clients -> Stages] /\ st'[c] = k
      /\ \A d \in Clients \ {c} : st'[d] = st[d]
  BY DEF Send, IInv, ClientOK, Stages
<1>3. k \in Asking
  BY LoopAssumption DEF Asking
<1>4. c \notin unread /\ c \notin held /\ c \notin ToSet(queue)
  BY <1>1 DEF IInv, OnePlace, Asking, InPool
<1>5. ServerOK' /\ ClientOK'
  BY <1>1, <1>2, ProbeFields DEF IInv, ServerOK, ClientOK
<1>6. LoopSearches'
  BY <1>1, <1>2 DEF IInv, LoopSearches
<1>7. OnePlace'
  BY <1>1, <1>2, <1>3, <1>4, ProbeFields DEF IInv, OnePlace
<1>8. ProbePlaces'
  <2> SUFFICES ASSUME NEW p \in Probes
               PROVE  /\ (p \in unread \cup ToSet(queue) \cup held /\ probe[p] = "none" => st[p[1]] = "idle")'
                      /\ (probe[p] = "out" => \/ p \in unread
                                              \/ p[2] = "audit" /\ p \in ToSet(queue) \cup held)'
    BY DEF ProbePlaces
  <2>1. p # c /\ p[1] \in Clients
    BY ProbeFields
  <2>2. p[1] = c => p \notin unread \cup held \cup ToSet(queue)
    BY <1>1 DEF Leftover
  <2> QED
    BY <1>1, <1>2, <2>1, <2>2 DEF IInv, ProbePlaces
<1>9. ProbeOK' /\ WaitIsExcused'
  BY <1>1, <1>2, ProbesUntouched
<1> QED
  BY <1>5, <1>6, <1>7, <1>8, <1>9 DEF IInv

(* The loop takes c's request and puts it before the pool.                 *)
LEMMA ToThePool ==
  ASSUME IInv, NEW c \in Clients, NEW stage \in InPool, Takes(c), st[c] \in Asking,
         queue' = Append(queue, c), Goes(c, stage),
         UNCHANGED <<loop, held, searched, probe, age, excused>>
  PROVE  IInv'
<1>1. c \in unread /\ unread' = unread \ {c} /\ loop = Free
  BY DEF Takes
<1>2. /\ st' \in [Clients -> Stages] /\ st'[c] = stage
      /\ \A d \in Clients \ {c} : st'[d] = st[d]
  BY NextStage DEF InPool, Stages
<1>3. c \notin held /\ c \notin ToSet(queue) /\ c \in Requests
  BY <1>1, ProbeFields DEF IInv, OnePlace
<1>4. /\ queue' \in Seq(Requests) /\ IsInjective(queue')
      /\ ToSet(queue)' = ToSet(queue) \cup {c}
  BY <1>3, PutInQueue
<1>5. ServerOK' /\ ClientOK'
  BY <1>1, <1>2, <1>4 DEF IInv, ServerOK, ClientOK
<1>6. LoopSearches'
  BY <1>1 DEF LoopSearches
<1>7. OnePlace'
  BY <1>1, <1>2, <1>3, <1>4, ProbeFields DEF IInv, OnePlace
<1>8. ProbePlaces'
  BY <1>1, <1>2, <1>4, ProbeFields DEF IInv, ProbePlaces, Asking
<1>9. ProbeOK' /\ WaitIsExcused'
  BY <1>2, ProbesUntouched DEF Asking
<1> QED
  BY <1>5, <1>6, <1>7, <1>8, <1>9 DEF IInv

LEMMA VerifyByIdKeeps ==
  ASSUME IInv, NEW c \in Clients, VerifyById(c)
  PROVE  IInv'
  BY ToThePool DEF VerifyById, HandOff, Asking, InPool, probing

LEMMA AuditOrReadKeeps ==
  ASSUME IInv, NEW c \in Clients, AuditOrRead(c)
  PROVE  IInv'
<1> DEFINE stage == IF st[c] = "audit" THEN "gated" ELSE "reading"
<1>1. Takes(c) /\ st[c] \in Asking /\ queue' = Append(queue, c) /\ Goes(c, stage)
      /\ UNCHANGED <<loop, held, searched, probe, age, excused>>
  BY DEF AuditOrRead, Asking, probing
<1>2. stage \in InPool
  BY DEF InPool
<1> HIDE DEF stage
<1> QED
  BY <1>1, <1>2, ToThePool

LEMMA VerifyByNameKeeps ==
  ASSUME IInv, NEW c \in Clients, VerifyByName(c)
  PROVE  IInv'
<1>1. /\ c \in unread /\ unread' = unread \ {c} /\ loop' = c /\ st[c] = "name"
      /\ UNCHANGED <<queue, searched, held, probe, age, excused>>
  BY DEF VerifyByName, Takes, probing
<1>2. /\ st' \in [Clients -> Stages] /\ st'[c] = "searching"
      /\ \A d \in Clients \ {c} : st'[d] = st[d]
  BY NextStage DEF VerifyByName, Stages
<1>3. ServerOK' /\ ClientOK'
  BY <1>1, <1>2 DEF IInv, ServerOK, ClientOK
<1>4. LoopSearches'
  BY <1>1, <1>2 DEF LoopSearches
<1>5. OnePlace'
  BY <1>1, <1>2, ProbeFields DEF IInv, OnePlace
<1>6. ProbePlaces'
  BY <1>1, <1>2, ProbeFields DEF IInv, ProbePlaces
<1>7. ProbeOK' /\ WaitIsExcused'
  BY <1>1, <1>2, ProbesUntouched
<1> QED
  BY <1>3, <1>4, <1>5, <1>6, <1>7 DEF IInv

LEMMA SearchEndsKeeps ==
  ASSUME IInv, NEW c \in Clients, SearchEnds(c)
  PROVE  IInv'
<1>1. /\ loop' = Free /\ searched' = 0 /\ st[c] = "searching"
      /\ UNCHANGED <<unread, held, probe, age, excused>>
  BY DEF SearchEnds, probing
<1>2. c \in Requests /\ c \notin unread /\ c \notin held /\ c \notin ToSet(queue)
  BY <1>1, ProbeFields DEF IInv, OnePlace, Asking, InPool
<1>3. PICK stage \in {"assessing", "idle"} :
        /\ Goes(c, stage)
        /\ queue' = IF stage = "assessing" THEN Append(queue, c) ELSE queue
  BY DEF SearchEnds
<1>4. /\ st' \in [Clients -> Stages] /\ st'[c] = stage
      /\ \A d \in Clients \ {c} : st'[d] = st[d]
  BY <1>3, NextStage DEF Stages
<1>5. /\ queue' \in Seq(Requests) /\ IsInjective(queue')
      /\ ToSet(queue)' = IF stage = "assessing" THEN ToSet(queue) \cup {c} ELSE ToSet(queue)
  BY <1>2, <1>3, PutInQueue DEF IInv, ServerOK
<1>6. ServerOK' /\ ClientOK'
  BY <1>1, <1>4, <1>5, LoopAssumption DEF IInv, ServerOK, ClientOK
<1>7. LoopSearches'
  BY <1>1 DEF LoopSearches
<1>8. OnePlace'
  BY <1>1, <1>2, <1>4, <1>5, ProbeFields DEF IInv, OnePlace, InPool
<1>9. ProbePlaces'
  BY <1>1, <1>2, <1>4, <1>5, ProbeFields DEF IInv, ProbePlaces
<1>10. ProbeOK' /\ WaitIsExcused'
  BY <1>1, <1>4, ProbesUntouched
<1> QED
  BY <1>6, <1>7, <1>8, <1>9, <1>10 DEF IInv

-----------------------------------------------------------------------------
(* The pool.                                                               *)

LEMMA GetsWorkerKeeps ==
  ASSUME IInv, GetsWorker
  PROVE  IInv'
<1> DEFINE r == Head(queue)
<1>1. /\ queue # <<>> /\ Cardinality(held) < POOL
      /\ held' = held \cup {r} /\ queue' = Tail(queue)
      /\ UNCHANGED <<unread, loop, searched, st, probe, age, excused>>
  BY DEF GetsWorker, probing
<1>2. /\ queue' \in Seq(Requests) /\ IsInjective(queue')
      /\ r \in ToSet(queue) /\ r \in Requests
      /\ ToSet(queue)' = ToSet(queue) \ {r}
  BY <1>1, TailOnce DEF IInv, ServerOK
<1> HIDE DEF r
<1>3. r \notin held /\ r \notin unread
  BY <1>2 DEF IInv, OnePlace
<1>4. IsFiniteSet(held') /\ Cardinality(held') <= POOL
  <2>1. IsFiniteSet(held) /\ Cardinality(held) \in Nat /\ POOL \in Nat
    BY FS_CardinalityType, LoopAssumption DEF IInv, ServerOK
  <2>2. IsFiniteSet(held') /\ Cardinality(held') = Cardinality(held) + 1
    BY <1>1, <1>3, <2>1, FS_AddElement
  <2> QED
    BY <1>1, <2>1, <2>2
<1>5. ServerOK' /\ ClientOK'
  BY <1>1, <1>2, <1>4 DEF IInv, ServerOK, ClientOK
<1>6. LoopSearches'
  BY <1>1 DEF IInv, LoopSearches
<1>7. OnePlace'
  BY <1>1, <1>2, <1>3 DEF IInv, OnePlace
<1>8. ProbePlaces'
  BY <1>1, <1>2 DEF IInv, ProbePlaces
<1>9. ProbeOK' /\ WaitIsExcused'
  BY <1>1 DEF IInv, ProbeOK, WaitIsExcused, Ended
<1> QED
  BY <1>5, <1>6, <1>7, <1>8, <1>9 DEF IInv

(* A client's work is done: it is answered, or goes back to the queue.     *)
LEMMA LeavesPool ==
  ASSUME IInv, NEW c \in Clients, st[c] \in InPool, Done(c),
         NEW stage \in InPool \cup {"idle"}, Goes(c, stage),
         queue' = IF stage = "idle" THEN queue ELSE Append(queue, c),
         UNCHANGED <<unread, searched, probe, age, excused>>
  PROVE  IInv'
<1>1. /\ c \in held /\ held' = held \ {c} /\ loop' = Free
      /\ held' \subseteq Requests /\ IsFiniteSet(held') /\ Cardinality(held') <= POOL
  BY GiveBack
<1>2. /\ st' \in [Clients -> Stages] /\ st'[c] = stage
      /\ \A d \in Clients \ {c} : st'[d] = st[d]
  BY NextStage DEF Stages, InPool
<1>3. c \in Requests /\ c \notin unread /\ c \notin ToSet(queue)
  BY <1>1, ProbeFields DEF IInv, OnePlace
<1>4. /\ queue' \in Seq(Requests) /\ IsInjective(queue')
      /\ ToSet(queue)' = IF stage = "idle" THEN ToSet(queue) ELSE ToSet(queue) \cup {c}
  BY <1>3, PutInQueue DEF IInv, ServerOK
<1>5. ServerOK' /\ ClientOK'
  BY <1>1, <1>2, <1>4 DEF IInv, ServerOK, ClientOK
<1>6. LoopSearches'
  BY <1>1 DEF LoopSearches
<1>7. OnePlace'
  BY <1>1, <1>2, <1>3, <1>4, ProbeFields DEF IInv, OnePlace
<1>8. ProbePlaces'
  BY <1>1, <1>2, <1>4, ProbeFields DEF IInv, ProbePlaces, InPool
<1>9. ProbeOK' /\ WaitIsExcused'
  BY <1>2, ProbesUntouched DEF InPool
<1> QED
  BY <1>5, <1>6, <1>7, <1>8, <1>9 DEF IInv

LEMMA GateDoneKeeps ==
  ASSUME IInv, NEW c \in Clients, GateDone(c)
  PROVE  IInv'
<1>1. PICK stage \in {"assessing", "idle"} :
        Goes(c, stage) /\ queue' = IF stage = "idle" THEN queue ELSE Append(queue, c)
  BY DEF GateDone
<1>2. /\ st[c] \in InPool /\ Done(c) /\ stage \in InPool \cup {"idle"}
      /\ UNCHANGED <<unread, searched, probe, age, excused>>
  BY DEF GateDone, InPool, probing
<1> QED
  BY <1>1, <1>2, LeavesPool

LEMMA ReadDoneKeeps ==
  ASSUME IInv, NEW c \in Clients, ReadDone(c)
  PROVE  IInv'
  BY LeavesPool DEF ReadDone, InPool, probing

LEMMA AssessFailsKeeps ==
  ASSUME IInv, NEW c \in Clients, AssessFails(c)
  PROVE  IInv'
<1>1. PICK stage \in {"reading", "idle"} :
        Goes(c, stage) /\ queue' = IF stage = "idle" THEN queue ELSE Append(queue, c)
  BY DEF AssessFails
<1>2. /\ st[c] \in InPool /\ Done(c) /\ stage \in InPool \cup {"idle"}
      /\ UNCHANGED <<unread, searched, probe, age, excused>>
  BY DEF AssessFails, InPool, probing
<1> QED
  BY <1>1, <1>2, LeavesPool

-----------------------------------------------------------------------------
(* Probes.                                                                 *)

LEMMA BeginProbesKeeps ==
  ASSUME IInv, NEW c \in Clients, BeginProbes(c)
  PROVE  IInv'
<1> DEFINE posts == {<<c, e, "POST">> : e \in Endpoints}
<1>1. /\ c \in held /\ st[c] = "assessing"
      /\ probe' = [p \in Probes |-> IF p \in posts THEN "out" ELSE probe[p]]
      /\ unread' = unread \cup posts
      /\ UNCHANGED <<loop, searched, queue, held, age, excused>>
  BY DEF BeginProbes, SendProbes
<1>2. /\ st' \in [Clients -> Stages] /\ st'[c] = "probing"
      /\ \A d \in Clients \ {c} : st'[d] = st[d]
  BY NextStage DEF BeginProbes, Stages
<1>3. /\ posts \subseteq Probes
      /\ \A p \in posts : p[1] = c /\ p[3] = "POST"
      /\ \A e \in Endpoints : <<c, e, "POST">> \in posts
  <2>1. ASSUME NEW p \in posts  PROVE p \in Probes /\ p[1] = c /\ p[3] = "POST"
    <3>1. PICK e \in Endpoints : p = <<c, e, "POST">>
      OBVIOUS
    <3>2. "POST" \in Methods
      BY DEF Methods
    <3> HIDE DEF posts
    <3> QED
      BY <3>1, <3>2, ProbeFields
  <2>2. ASSUME NEW e \in Endpoints  PROVE <<c, e, "POST">> \in posts
    OBVIOUS
  <2> HIDE DEF posts
  <2> QED
    BY <2>1, <2>2
<1>4. \A p \in Probes : p \in posts <=> p[1] = c /\ p[3] = "POST"
  BY <1>3, ProbeFields
<1> HIDE DEF posts
<1>5. \A p \in Probes : p[1] = c => /\ probe[p] = "none"
                                    /\ p \notin unread /\ p \notin held /\ p \notin ToSet(queue)
  BY <1>1, ProbeFields DEF IInv, ProbeOK, ProbePlaces
<1>6. ServerOK' /\ ClientOK'
  BY <1>1, <1>2, <1>3, ProbeFields DEF IInv, ServerOK, ClientOK
<1>7. LoopSearches'
  BY <1>1, <1>2 DEF IInv, LoopSearches
<1>8. OnePlace'
  BY <1>1, <1>2, <1>3, <1>5, ProbeFields DEF IInv, OnePlace, Asking, InPool
<1>9. ProbePlaces'
  BY <1>1, <1>2, <1>3, <1>4, <1>5, ProbeFields DEF IInv, ProbePlaces
<1>10. ProbeOK'
  <2>1. /\ probe' \in [Probes -> {"none", "out", "answered", "timeout"}]
        /\ age' \in [Probes -> 0..PROBE_TIMEOUT]
    BY <1>1 DEF IInv, ProbeOK
  <2>2. ASSUME NEW p \in Probes
        PROVE  /\ probe'[p] # "none" => st'[p[1]] = "probing"
               /\ probe'[p] = "none" => age'[p] = 0
               /\ probe'[p] = "timeout" => age'[p] = PROBE_TIMEOUT
    BY <1>1, <1>2, <1>3, ProbeFields DEF IInv, ProbeOK
  <2>3. ASSUME NEW d \in Clients, NEW e \in Endpoints, probe'[<<d, e, "GET">>] # "none"
        PROVE  Ended(<<d, e, "POST">>)'
    <3>1. <<d, e, "GET">> \in Probes /\ <<d, e, "GET">> \notin posts
          /\ <<d, e, "POST">> \in Probes
      BY <1>3, ProbeFields DEF Methods
    <3>2. d # c
      BY <2>3, <3>1, <1>1, <1>5, ProbeFields DEF Methods
    <3>3. <<d, e, "POST">> \notin posts
      BY <3>2, <1>3, ProbeFields DEF Methods
    <3> QED
      BY <2>3, <3>1, <3>3, <1>1 DEF IInv, ProbeOK, Ended
  <2> QED
    BY <2>1, <2>2, <2>3 DEF ProbeOK
<1>11. WaitIsExcused'
  BY <1>1 DEF IInv, WaitIsExcused
<1> QED
  BY <1>6, <1>7, <1>8, <1>9, <1>10, <1>11 DEF IInv

LEMMA NextMethodKeeps ==
  ASSUME IInv, NEW c \in Clients, NEW e \in Endpoints, NextMethod(c, e)
  PROVE  IInv'
<1>1. PICK get : get = <<c, e, "GET">>
  OBVIOUS
<1>2. /\ st[c] = "probing" /\ Ended(<<c, e, "POST">>) /\ probe[get] = "none"
      /\ probe' = [p \in Probes |-> IF p = get THEN "out" ELSE probe[p]]
      /\ unread' = unread \cup {get}
      /\ UNCHANGED <<loop, searched, queue, held, st, age, excused>>
  BY <1>1 DEF NextMethod, SendProbes
<1>3. get \in Probes /\ get[1] = c /\ get[3] = "GET" /\ get \in Requests /\ get \notin Clients
  BY <1>1, ProbeFields DEF Methods
<1>4. get \notin unread /\ get \notin held /\ get \notin ToSet(queue)
  BY <1>2, <1>3 DEF IInv, ProbePlaces
<1>5. ServerOK' /\ ClientOK'
  BY <1>2, <1>3 DEF IInv, ServerOK, ClientOK
<1>6. LoopSearches'
  BY <1>2 DEF IInv, LoopSearches
<1>7. OnePlace'
  BY <1>2, <1>3, <1>4 DEF IInv, OnePlace
<1>8. ProbePlaces'
  BY <1>2, <1>3 DEF IInv, ProbePlaces
<1>9. ProbeOK'
  <2>1. /\ probe' \in [Probes -> {"none", "out", "answered", "timeout"}]
        /\ age' \in [Probes -> 0..PROBE_TIMEOUT]
    BY <1>2 DEF IInv, ProbeOK
  <2>2. ASSUME NEW p \in Probes
        PROVE  /\ probe'[p] # "none" => st'[p[1]] = "probing"
               /\ probe'[p] = "none" => age'[p] = 0
               /\ probe'[p] = "timeout" => age'[p] = PROBE_TIMEOUT
    BY <1>2, <1>3 DEF IInv, ProbeOK
  <2>3. ASSUME NEW d \in Clients, NEW f \in Endpoints, probe'[<<d, f, "GET">>] # "none"
        PROVE  Ended(<<d, f, "POST">>)'
    <3>1. /\ <<d, f, "GET">> \in Probes /\ <<d, f, "POST">> \in Probes
          /\ <<d, f, "POST">> # get
      BY <1>3, ProbeFields DEF Methods
    <3>2. Ended(<<d, f, "POST">>)
      <4>1. CASE <<d, f, "GET">> = get
        <5>1. d = c /\ f = e
          BY <4>1, <1>1
        <5> QED
          BY <5>1, <1>2
      <4>2. CASE <<d, f, "GET">> # get
        BY <4>2, <2>3, <3>1, <1>2 DEF IInv, ProbeOK
      <4> QED
        BY <4>1, <4>2
    <3> QED
      BY <3>1, <3>2, <1>2 DEF Ended
  <2> QED
    BY <2>1, <2>2, <2>3 DEF ProbeOK
<1>10. WaitIsExcused'
  BY <1>2 DEF IInv, WaitIsExcused
<1> QED
  BY <1>5, <1>6, <1>7, <1>8, <1>9, <1>10 DEF IInv

(* A caller that is answered, or gone.                                     *)
LEMMA AnsweredKeeps ==
  ASSUME IInv, NEW p \in Probes,
         probe' = [probe EXCEPT ![p] = IF @ = "out" THEN "answered" ELSE @]
  PROVE  /\ st' = st /\ age' = age => ProbeOK'
         /\ probe'[p] # "out"
         /\ \A q \in Probes : /\ probe'[q] = "none" => probe[q] = "none"
                              /\ probe'[q] = "out" => probe[q] = "out"
<1>1. /\ probe \in [Probes -> {"none", "out", "answered", "timeout"}]
      /\ probe' \in [Probes -> {"none", "out", "answered", "timeout"}]
      /\ \A q \in Probes : \/ probe'[q] = probe[q]
                           \/ probe[q] = "out" /\ probe'[q] = "answered"
  <2>1. probe \in [Probes -> {"none", "out", "answered", "timeout"}]
    BY DEF IInv, ProbeOK
  <2>2. \A q \in Probes : probe'[q] = IF q = p /\ probe[p] = "out" THEN "answered" ELSE probe[q]
    BY <2>1
  <2>3. probe' = [q \in Probes |-> probe'[q]]
    BY <2>1
  <2> QED
    BY <2>1, <2>2, <2>3
<1>2. ASSUME st' = st, age' = age  PROVE ProbeOK'
  <2>1. \A q \in Probes : /\ probe'[q] # "none" => st'[q[1]] = "probing"
                          /\ probe'[q] = "none" => age'[q] = 0
                          /\ probe'[q] = "timeout" => age'[q] = PROBE_TIMEOUT
    BY <1>1, <1>2 DEF IInv, ProbeOK
  <2>2. ASSUME NEW d \in Clients, NEW e \in Endpoints, probe'[<<d, e, "GET">>] # "none"
        PROVE  Ended(<<d, e, "POST">>)'
    <3>1. <<d, e, "GET">> \in Probes /\ <<d, e, "POST">> \in Probes
      BY ProbeFields DEF Methods
    <3>2. Ended(<<d, e, "POST">>)
      BY <3>1, <2>2, <1>1 DEF IInv, ProbeOK
    <3> QED
      BY <3>1, <3>2, <1>1 DEF Ended
  <2> QED
    BY <1>1, <1>2, <2>1, <2>2 DEF IInv, ProbeOK
<1> QED
  BY <1>1, <1>2

LEMMA DescribeVerifyKeeps ==
  ASSUME IInv, NEW p \in Probes, DescribeVerify(p)
  PROVE  IInv'
<1>1. /\ p[2] = "verify" /\ unread' = unread \ {p}
      /\ probe' = [probe EXCEPT ![p] = IF @ = "out" THEN "answered" ELSE @]
      /\ UNCHANGED <<loop, searched, queue, held, st, age, excused>>
  BY DEF DescribeVerify, Takes
<1>2. ServerOK' /\ ClientOK'
  BY <1>1 DEF IInv, ServerOK, ClientOK
<1>3. LoopSearches'
  BY <1>1 DEF IInv, LoopSearches
<1>4. OnePlace'
  BY <1>1 DEF IInv, OnePlace
<1>5. /\ ProbeOK' /\ probe'[p] # "out"
      /\ \A q \in Probes : /\ probe'[q] = "none" => probe[q] = "none"
                           /\ probe'[q] = "out" => probe[q] = "out"
  BY <1>1, AnsweredKeeps
<1>6. ProbePlaces'
  BY <1>1, <1>5 DEF IInv, ProbePlaces
<1>7. WaitIsExcused'
  BY <1>1 DEF IInv, WaitIsExcused
<1> QED
  BY <1>2, <1>3, <1>4, <1>5, <1>6, <1>7 DEF IInv

LEMMA GateProbeKeeps ==
  ASSUME IInv, NEW p \in Probes, GateProbe(p)
  PROVE  IInv'
<1>1. /\ p[2] = "audit" /\ p \in unread /\ unread' = unread \ {p}
      /\ queue' = Append(queue, p)
      /\ UNCHANGED <<loop, searched, held, st, probe, age, excused>>
  BY DEF GateProbe, Takes, probing
<1>2. p \in Requests /\ p \notin Clients /\ p \notin ToSet(queue) /\ p \notin held
  BY <1>1, ProbeFields DEF IInv, OnePlace
<1>3. /\ queue' \in Seq(Requests) /\ IsInjective(queue')
      /\ ToSet(queue)' = ToSet(queue) \cup {p}
  BY <1>1, <1>2, PutInQueue
<1>4. ServerOK' /\ ClientOK'
  BY <1>1, <1>3 DEF IInv, ServerOK, ClientOK
<1>5. LoopSearches'
  BY <1>1 DEF IInv, LoopSearches
<1>6. OnePlace'
  BY <1>1, <1>2, <1>3 DEF IInv, OnePlace
<1>7. ProbePlaces'
  BY <1>1, <1>3 DEF IInv, ProbePlaces
<1>8. ProbeOK' /\ WaitIsExcused'
  BY <1>1 DEF IInv, ProbeOK, WaitIsExcused, Ended
<1> QED
  BY <1>4, <1>5, <1>6, <1>7, <1>8 DEF IInv

LEMMA GateRefusesProbeKeeps ==
  ASSUME IInv, NEW p \in Probes, GateRefusesProbe(p)
  PROVE  IInv'
<1>1. /\ Done(p)
      /\ probe' = [probe EXCEPT ![p] = IF @ = "out" THEN "answered" ELSE @]
      /\ UNCHANGED <<unread, searched, queue, st, age, excused>>
  BY DEF GateRefusesProbe
<1>2. /\ p \in held /\ held' = held \ {p} /\ loop' = Free
      /\ held' \subseteq Requests /\ IsFiniteSet(held') /\ Cardinality(held') <= POOL
  BY <1>1, GiveBack
<1>3. ServerOK' /\ ClientOK'
  BY <1>1, <1>2 DEF IInv, ServerOK, ClientOK
<1>4. LoopSearches'
  BY <1>2 DEF LoopSearches
<1>5. OnePlace'
  BY <1>1, <1>2 DEF IInv, OnePlace
<1>6. /\ ProbeOK' /\ probe'[p] # "out"
      /\ \A q \in Probes : /\ probe'[q] = "none" => probe[q] = "none"
                           /\ probe'[q] = "out" => probe[q] = "out"
  BY <1>1, AnsweredKeeps
<1>7. ProbePlaces'
  BY <1>1, <1>2, <1>6 DEF IInv, ProbePlaces
<1>8. WaitIsExcused'
  BY <1>1 DEF IInv, WaitIsExcused
<1> QED
  BY <1>3, <1>4, <1>5, <1>6, <1>7, <1>8 DEF IInv

LEMMA GivesUpKeeps ==
  ASSUME IInv, NEW p \in Probes, GivesUp(p)
  PROVE  IInv'
<1>1. /\ probe[p] = "out" /\ age[p] = PROBE_TIMEOUT
      /\ probe' = [probe EXCEPT ![p] = "timeout"]
      /\ UNCHANGED <<unread, loop, searched, queue, held, st, age, excused>>
  BY DEF GivesUp, server
<1>2. ServerOK' /\ ClientOK' /\ LoopSearches' /\ OnePlace'
  BY <1>1 DEF IInv, ServerOK, ClientOK, LoopSearches, OnePlace
<1>3. /\ probe' \in [Probes -> {"none", "out", "answered", "timeout"}]
      /\ \A q \in Probes : probe'[q] = IF q = p THEN "timeout" ELSE probe[q]
  BY <1>1 DEF IInv, ProbeOK
<1>4. ProbePlaces'
  BY <1>1, <1>3 DEF IInv, ProbePlaces
<1>5. ProbeOK'
  <2>1. \A q \in Probes : /\ probe'[q] # "none" => st'[q[1]] = "probing"
                          /\ probe'[q] = "none" => age'[q] = 0
                          /\ probe'[q] = "timeout" => age'[q] = PROBE_TIMEOUT
    BY <1>1, <1>3 DEF IInv, ProbeOK
  <2>2. ASSUME NEW d \in Clients, NEW e \in Endpoints, probe'[<<d, e, "GET">>] # "none"
        PROVE  Ended(<<d, e, "POST">>)'
    <3>1. <<d, e, "GET">> \in Probes /\ <<d, e, "POST">> \in Probes
      BY ProbeFields DEF Methods
    <3>2. Ended(<<d, e, "POST">>)
      BY <3>1, <2>2, <1>1, <1>3 DEF IInv, ProbeOK
    <3> QED
      BY <3>1, <3>2, <1>3 DEF Ended
  <2> QED
    BY <1>1, <1>3, <2>1, <2>2 DEF IInv, ProbeOK
<1>6. WaitIsExcused'
  BY <1>1 DEF IInv, WaitIsExcused
<1> QED
  BY <1>2, <1>4, <1>5, <1>6 DEF IInv

LEMMA AssessDoneKeeps ==
  ASSUME IInv, NEW c \in Clients, AssessDone(c)
  PROVE  IInv'
<1>1. /\ Done(c) /\ Goes(c, "idle")
      /\ probe' = [p \in Probes |-> IF p[1] = c THEN "none" ELSE probe[p]]
      /\ age' = [p \in Probes |-> IF p[1] = c THEN 0 ELSE age[p]]
      /\ excused' = [excused EXCEPT ![c] = [e \in Endpoints |-> 0]]
      /\ UNCHANGED <<unread, searched, queue>>
  BY DEF AssessDone
<1>2. /\ c \in held /\ held' = held \ {c} /\ loop' = Free
      /\ held' \subseteq Requests /\ IsFiniteSet(held') /\ Cardinality(held') <= POOL
  BY <1>1, GiveBack
<1>3. /\ st' \in [Clients -> Stages] /\ st'[c] = "idle"
      /\ \A d \in Clients \ {c} : st'[d] = st[d]
  BY <1>1, NextStage DEF Stages
<1>4. PROBE_TIMEOUT \in Nat /\ Patience \in Nat
  BY LoopAssumption DEF Patience
<1>5. ServerOK'
  BY <1>1, <1>2 DEF IInv, ServerOK
<1>6. ClientOK'
  <2>1. [e \in Endpoints |-> 0] \in [Endpoints -> 0..Patience]
    BY <1>4
  <2> QED
    BY <1>1, <1>3, <2>1 DEF IInv, ClientOK
<1>7. LoopSearches'
  BY <1>2 DEF LoopSearches
<1>8. OnePlace'
  <2>1. c \in Requests /\ c \notin unread /\ c \notin ToSet(queue)
    BY <1>2, ProbeFields DEF IInv, OnePlace
  <2> QED
    BY <1>1, <1>2, <1>3, <2>1 DEF IInv, OnePlace
<1>9. ProbePlaces'
  BY <1>1, <1>2, <1>3, ProbeFields DEF IInv, ProbePlaces
<1>10. ProbeOK'
  <2>1. /\ probe' \in [Probes -> {"none", "out", "answered", "timeout"}]
        /\ age' \in [Probes -> 0..PROBE_TIMEOUT]
    BY <1>1, <1>4 DEF IInv, ProbeOK
  <2>2. ASSUME NEW p \in Probes
        PROVE  /\ probe'[p] # "none" => st'[p[1]] = "probing"
               /\ probe'[p] = "none" => age'[p] = 0
               /\ probe'[p] = "timeout" => age'[p] = PROBE_TIMEOUT
    BY <1>1, <1>3, ProbeFields DEF IInv, ProbeOK
  <2>3. ASSUME NEW d \in Clients, NEW e \in Endpoints, probe'[<<d, e, "GET">>] # "none"
        PROVE  Ended(<<d, e, "POST">>)'
    <3>1. /\ <<d, e, "GET">> \in Probes /\ <<d, e, "GET">>[1] = d
          /\ <<d, e, "POST">> \in Probes /\ <<d, e, "POST">>[1] = d
      BY ProbeFields DEF Methods
    <3>2. d # c /\ Ended(<<d, e, "POST">>)
      BY <2>3, <3>1, <1>1 DEF IInv, ProbeOK
    <3> QED
      BY <3>1, <3>2, <1>1 DEF Ended
  <2> QED
    BY <2>1, <2>2, <2>3 DEF ProbeOK
<1>11. WaitIsExcused'
  <2> SUFFICES ASSUME NEW d \in Clients, NEW e \in Endpoints
               PROVE  excused'[d][e] >= age'[<<d, e, "POST">>] + age'[<<d, e, "GET">>]
    BY DEF WaitIsExcused
  <2>1. /\ <<d, e, "GET">> \in Probes /\ <<d, e, "GET">>[1] = d
        /\ <<d, e, "POST">> \in Probes /\ <<d, e, "POST">>[1] = d
    BY ProbeFields DEF Methods
  <2>2. CASE d = c
    BY <2>1, <2>2, <1>1 DEF IInv, ClientOK
  <2>3. CASE d # c
    BY <2>1, <2>3, <1>1 DEF IInv, ClientOK, WaitIsExcused
  <2> QED
    BY <2>2, <2>3
<1> QED
  BY <1>5, <1>6, <1>7, <1>8, <1>9, <1>10, <1>11 DEF IInv

-----------------------------------------------------------------------------
(* Time.                                                                   *)

(* A tick that finds a probe out is one that something excuses: the loop   *)
(* is idle or it searches, and an idle loop has read everything.           *)
LEMMA OutIsExcused ==
  ASSUME IInv, Tick, NEW p \in Probes, probe[p] = "out"
  PROVE  st[p[1]] = "probing" /\ Excuse(p[1], p[2])
<1>1. p[1] \in Clients /\ p[3] \in Methods /\ p = <<p[1], p[2], p[3]>>
  BY ProbeFields
<1>2. st[p[1]] = "probing"
  BY DEF IInv, ProbeOK
<1>3. CASE Searching
  BY <1>2, <1>3 DEF Excuse
<1>4. CASE ~Searching
  <2>1. loop = Free
    BY <1>4 DEF IInv, LoopSearches, Searching
  <2>2. unread = {} /\ (queue = <<>> \/ Cardinality(held) >= POOL)
    BY <2>1 DEF Tick
  <2>3. p[2] = "audit" /\ p \in ToSet(queue) \cup held
    BY <2>2 DEF IInv, ProbePlaces
  <2>4. CASE p \in held
    BY <1>1, <1>2, <2>3, <2>4 DEF Excuse
  <2>5. CASE p \in ToSet(queue)
    <3>1. queue # <<>>
      BY <2>5 DEF ToSet
    <3> QED
      BY <1>2, <2>2, <2>3, <3>1 DEF Excuse
  <2> QED
    BY <2>3, <2>4, <2>5
<1> QED
  BY <1>3, <1>4

LEMMA TickKeeps ==
  ASSUME IInv, Tick
  PROVE  IInv'
<1>1. /\ \A p \in Probes : probe[p] = "out" => age[p] < PROBE_TIMEOUT
      /\ Searching => searched < SEARCH_TIME
      /\ searched' = IF Searching THEN searched + 1 ELSE searched
      /\ age' = [p \in Probes |-> IF probe[p] = "out" THEN age[p] + 1 ELSE age[p]]
      /\ excused' = [c \in Clients |-> [e \in Endpoints |->
             IF st[c] = "probing" /\ Excuse(c, e)
             THEN Lesser(excused[c][e] + 1, Patience) ELSE excused[c][e]]]
      /\ UNCHANGED <<unread, loop, queue, held, st, probe>>
  BY DEF Tick
<1>2. /\ PROBE_TIMEOUT \in Nat /\ SEARCH_TIME \in Nat /\ Patience = 2 * PROBE_TIMEOUT
      /\ Patience \in Nat
  BY LoopAssumption DEF Patience
<1>3. /\ age \in [Probes -> 0..PROBE_TIMEOUT]
      /\ excused \in [Clients -> [Endpoints -> 0..Patience]]
  BY DEF IInv, ProbeOK, ClientOK
<1>4. ServerOK' /\ LoopSearches' /\ OnePlace' /\ ProbePlaces'
  <2>1. searched' \in 0..SEARCH_TIME
    BY <1>1, <1>2 DEF IInv, ServerOK
  <2> QED
    BY <1>1, <2>1 DEF IInv, ServerOK, LoopSearches, OnePlace, ProbePlaces
<1>5. ASSUME NEW c \in Clients, NEW e \in Endpoints
      PROVE  /\ excused[c][e] \in 0..Patience
             /\ excused'[c][e] \in 0..Patience
             /\ excused'[c][e] >= excused[c][e]
             /\ st[c] = "probing" /\ Excuse(c, e)
                  => excused'[c][e] = Lesser(excused[c][e] + 1, Patience)
  <2>1. excused[c][e] \in 0..Patience
    BY <1>3
  <2>2. excused'[c][e] = IF st[c] = "probing" /\ Excuse(c, e)
                         THEN Lesser(excused[c][e] + 1, Patience) ELSE excused[c][e]
    BY <1>1
  <2> QED
    BY <1>2, <2>1, <2>2 DEF Lesser
<1>6. ClientOK'
  <2>1. \A c \in Clients : excused'[c] = [e \in Endpoints |-> excused'[c][e]]
    BY <1>1
  <2>2. \A c \in Clients : excused'[c] \in [Endpoints -> 0..Patience]
    BY <1>5, <2>1
  <2>3. excused' = [c \in Clients |-> excused'[c]]
    BY <1>1
  <2>4. excused' \in [Clients -> [Endpoints -> 0..Patience]]
    BY <2>2, <2>3
  <2> QED
    BY <1>1, <2>4 DEF IInv, ClientOK
<1>7. ProbeOK'
  <2>1. age' \in [Probes -> 0..PROBE_TIMEOUT]
    BY <1>1, <1>2, <1>3
  <2>2. \A p \in Probes : probe[p] # "out" => age'[p] = age[p]
    BY <1>1
  <2> QED
    BY <1>1, <2>1, <2>2 DEF IInv, ProbeOK, Ended
<1>8. WaitIsExcused'
  <2> SUFFICES ASSUME NEW c \in Clients, NEW e \in Endpoints
               PROVE  excused'[c][e] >= age'[<<c, e, "POST">>] + age'[<<c, e, "GET">>]
    BY DEF WaitIsExcused
  <2>1. PICK post, get : post = <<c, e, "POST">> /\ get = <<c, e, "GET">>
    OBVIOUS
  <2>2. /\ post \in Probes /\ post[1] = c /\ post[2] = e
        /\ get \in Probes /\ get[1] = c /\ get[2] = e
    BY <2>1, ProbeFields DEF Methods
  <2>3. /\ age[post] \in 0..PROBE_TIMEOUT /\ age[get] \in 0..PROBE_TIMEOUT
        /\ age'[post] = IF probe[post] = "out" THEN age[post] + 1 ELSE age[post]
        /\ age'[get] = IF probe[get] = "out" THEN age[get] + 1 ELSE age[get]
        /\ probe[post] = "out" => age[post] < PROBE_TIMEOUT
        /\ probe[get] = "out" => age[get] < PROBE_TIMEOUT
    BY <1>1, <1>3, <2>2
  <2>4. excused[c][e] >= age[post] + age[get]
    BY <2>1 DEF IInv, WaitIsExcused
  <2>5. ~(probe[post] = "out" /\ probe[get] = "out")
    BY <2>1 DEF IInv, ProbeOK, Ended
  <2>6. CASE probe[post] = "out" \/ probe[get] = "out"
    <3>1. st[c] = "probing" /\ Excuse(c, e)
      BY <2>2, <2>6, OutIsExcused
    <3>2. excused'[c][e] = Lesser(excused[c][e] + 1, Patience) /\ excused[c][e] \in 0..Patience
      BY <3>1, <1>5
    <3>3. age'[post] + age'[get] = age[post] + age[get] + 1
      BY <2>3, <2>5, <2>6, <1>2
    <3>4. age[post] + age[get] + 1 <= Patience
      BY <2>3, <2>6, <1>2
    <3>5. excused'[c][e] >= age'[post] + age'[get]
      BY <3>2, <3>3, <3>4, <2>3, <2>4, <1>2 DEF Lesser
    <3> QED
      BY <3>5, <2>1
  <2>7. CASE ~(probe[post] = "out" \/ probe[get] = "out")
    <3>1. age'[post] = age[post] /\ age'[get] = age[get]
      BY <2>7, <2>3
    <3>2. excused'[c][e] >= age'[post] + age'[get]
      BY <3>1, <2>3, <2>4, <1>2, <1>5
    <3> QED
      BY <3>2, <2>1
  <2> QED
    BY <2>6, <2>7
<1> QED
  BY <1>4, <1>6, <1>7, <1>8 DEF IInv

-----------------------------------------------------------------------------
(* The theorems.                                                           *)

LEMMA InitEstablishes == Init => IInv
<1> SUFFICES ASSUME Init  PROVE IInv
  OBVIOUS
<1>1. POOL \in Nat /\ SEARCH_TIME \in Nat /\ PROBE_TIMEOUT \in Nat /\ Patience \in Nat
  BY LoopAssumption DEF Patience
<1>2. ToSet(queue) = {} /\ IsInjective(queue) /\ queue \in Seq(Requests)
  BY DEF Init, ToSet, IsInjective
<1>3. IsFiniteSet(held) /\ Cardinality(held) = 0
  BY FS_EmptySet DEF Init
<1>4. ServerOK /\ LoopSearches
  BY <1>1, <1>2, <1>3 DEF Init, ServerOK, LoopSearches
<1>5. ClientOK
  BY <1>1 DEF Init, ClientOK, Stages
<1>6. OnePlace
  BY <1>2 DEF Init, OnePlace
<1>7. ProbePlaces
  BY <1>2 DEF Init, ProbePlaces
<1>8. ProbeOK
  BY <1>1, ProbeFields DEF Init, ProbeOK, Methods
<1>9. WaitIsExcused
  <2> SUFFICES ASSUME NEW c \in Clients, NEW e \in Endpoints
               PROVE  excused[c][e] >= age[<<c, e, "POST">>] + age[<<c, e, "GET">>]
    BY DEF WaitIsExcused
  <2>1. <<c, e, "POST">> \in Probes /\ <<c, e, "GET">> \in Probes
    BY ProbeFields DEF Methods
  <2>2. excused[c][e] = 0 /\ age[<<c, e, "POST">>] = 0 /\ age[<<c, e, "GET">>] = 0
    BY <2>1 DEF Init
  <2> QED
    BY <2>2
<1> QED
  BY <1>4, <1>5, <1>6, <1>7, <1>8, <1>9 DEF IInv

LEMMA StutterKeeps == IInv /\ UNCHANGED vars => IInv'
  BY DEF vars, server, probing, IInv, ServerOK, LoopSearches, ClientOK, OnePlace, ProbePlaces,
         ProbeOK, WaitIsExcused, Ended

LEMMA StepKeeps == IInv /\ [Next]_vars => IInv'
<1> SUFFICES ASSUME IInv, [Next]_vars  PROVE IInv'
  OBVIOUS
<1>1. ASSUME NEW c \in Clients, Reads(c)  PROVE IInv'
  BY <1>1, VerifyByIdKeeps, VerifyByNameKeeps, SearchEndsKeeps, AuditOrReadKeeps DEF Reads
<1>2. ASSUME NEW c \in Clients, Works(c)  PROVE IInv'
  BY <1>2, GateDoneKeeps, ReadDoneKeeps, AssessFailsKeeps, BeginProbesKeeps, AssessDoneKeeps,
     NextMethodKeeps DEF Works
<1>3. ASSUME NEW p \in Probes, Serves(p)  PROVE IInv'
  BY <1>3, DescribeVerifyKeeps, GateProbeKeeps, GateRefusesProbeKeeps, GivesUpKeeps DEF Serves
<1>4. ASSUME NEW c \in Clients, Proceeds(c)  PROVE IInv'
  BY <1>1, <1>2, <1>3, <1>4, ProbeFields DEF Proceeds
<1>5. ASSUME NEW c \in Clients, NEW k \in Kinds, Send(c, k)  PROVE IInv'
  BY <1>5, SendKeeps
<1>6. CASE GetsWorker
  BY <1>6, GetsWorkerKeeps
<1>7. CASE Tick
  BY <1>7, TickKeeps
<1>8. CASE UNCHANGED vars
  BY <1>8, StutterKeeps
<1> QED
  BY <1>4, <1>5, <1>6, <1>7, <1>8 DEF Next

LEMMA InvariantHolds == Spec => []IInv
  BY InitEstablishes, StepKeeps, PTL DEF Spec

(* What app.py's loop and pool are doing keeps its type: no request waits  *)
(* twice or waits while a worker has it, and the pool never lends more     *)
(* workers than it has (app.py:328).                                       *)
THEOREM LoopTyped == Spec => []TypeOK
<1>1. IInv => TypeOK
  <2> SUFFICES ASSUME IInv  PROVE TypeOK
    OBVIOUS
  <2>1. loop \in Requests \cup {Free}
    BY ProbeFields DEF IInv, LoopSearches
  <2>2. ToSet(queue) \subseteq Requests \ held
    <3>1. ToSet(queue) \subseteq Requests
      BY DEF IInv, ServerOK, ToSet
    <3> QED
      BY <3>1 DEF IInv, OnePlace
  <2>3. probe \in [Probes -> {"none", "out", "answered", "timeout"}]
        /\ age \in [Probes -> 0..PROBE_TIMEOUT]
    BY DEF IInv, ProbeOK
  <2> QED
    BY <2>1, <2>2, <2>3 DEF IInv, ServerOK, ClientOK, Stages, TypeOK
<1> QED
  BY <1>1, InvariantHolds, PTL

(* app.py:319-324: when KYA finds an endpoint of its own dead, for the     *)
(* whole time of both probes a search by name kept the loop or, for        *)
(* /audit, the pool was full or the gate had the probe in hand: with       *)
(* handlers that go to the pool, an idle service answers itself.           *)
THEOREM DownIsAlwaysExcused == Spec => []DownIsExcused
<1>1. IInv => DownIsExcused
  <2> SUFFICES ASSUME IInv, NEW c \in Clients, NEW e \in Endpoints, FoundDown(c, e)
               PROVE  excused[c][e] >= Patience
    BY DEF DownIsExcused
  <2>1. /\ <<c, e, "POST">> \in Probes /\ probe[<<c, e, "POST">>] = "timeout"
        /\ <<c, e, "GET">> \in Probes /\ probe[<<c, e, "GET">>] = "timeout"
    BY ProbeFields DEF FoundDown, Methods
  <2>2. age[<<c, e, "POST">>] = PROBE_TIMEOUT /\ age[<<c, e, "GET">>] = PROBE_TIMEOUT
    BY <2>1 DEF IInv, ProbeOK
  <2>3. excused[c][e] >= PROBE_TIMEOUT + PROBE_TIMEOUT /\ PROBE_TIMEOUT \in Nat
    BY <2>2, LoopAssumption DEF IInv, WaitIsExcused
  <2> QED
    BY <2>3 DEF Patience
<1> QED
  BY <1>1, InvariantHolds, PTL

=============================================================================
