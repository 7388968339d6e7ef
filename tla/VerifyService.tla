----------------------------- MODULE VerifyService -----------------------------
(***************************************************************************)
(* The free service /verify (app.py) as its callers meet it.  A pool       *)
(* worker scores the agent (verify.assess), records the verdict in the     *)
(* store (INSTANCE VerdictStore), annotates the verdict with what          *)
(* record() told it, seals it again and signs the digest.  A marketplace   *)
(* that cannot be read is answered with the last stored payload, marked    *)
(* stale and unsigned.                                                     *)
(*                                                                         *)
(* A digest is modelled by the fields it is computed of, a signature by    *)
(* the digest, key and second it binds.  Names are resolved before and     *)
(* not modelled; the marketplace is any outcome of the read at any time.   *)
(***************************************************************************)
EXTENDS Naturals, Sequences, FiniteSets

CONSTANTS
  Workers, Agents, NoRow, MaxTime, MaxRows,   \* as in VerdictStore
  Judgements,  \* what score_agent() may conclude: verdict and max_safe_usd
  TTL,         \* seconds a signature is valid, ORACLE_VERDICT_TTL
  MaxKeys,     \* bound: signing keys the process may end up with
  NoBody       \* no answer, no signature

Verdicts == {"SAFE", "CAUTION", "BLOCK"}

ASSUME ServiceAssumption == /\ Judgements \subseteq [verdict : Verdicts, usd : Nat]
                            /\ \A j \in Judgements : j.verdict = "BLOCK" => j.usd = 0
                            /\ TTL \in Nat
                            /\ MaxKeys \in Nat \ {0}

VARIABLES
  now, rows, transitions, pc, job, disturbed,   \* as in VerdictStore
  payloads,    \* column payload of table verdicts
  key,         \* the process's signing key
  stage,       \* where each worker's request stands
  about,       \* the agent each worker's request names
  body         \* the verdict being built, then the answer

Store == INSTANCE VerdictStore

storeVars == <<now, rows, transitions, pc, job, disturbed>>

serviceVars == <<storeVars, payloads, key, stage, about, body>>

Keys == 1 .. MaxKeys

(* What assess() adds to evidence and reasons: nothing yet, or the verdict *)
(* recorded before (NoRow: none) and whether a transition was announced.   *)
Unannotated == [done |-> FALSE, previous |-> NoRow, moved |-> FALSE]

Notes == [done : BOOLEAN, previous : Verdicts \cup {NoRow}, moved : BOOLEAN]

Cores == [agent : Agents, verdict : Verdicts, usd : Nat, note : Notes]

Envelopes == [key : Keys, at : Nat, over : Cores]

(* "verdict" and "stale" bodies have the fields of a verdict; "detail" is   *)
(* FastAPI's JSON error, "text" the plain text of a 500.                   *)
Bodies == [kind : {"verdict", "stale"}, core : Cores, digest : Cores,
           signature : Envelopes \cup {NoBody}]

Errors == [kind : {"detail", "text"}]

(* NoRow is no row, NoBody neither an answer nor a signature nor an agent.  *)
ASSUME StoreAssumption == Store!NoRowAssumption /\ Store!BoundsAssumption
ASSUME BodyAssumption == NoBody \notin Bodies \cup Errors \cup Envelopes \cup Agents

Error(kind) == [kind |-> kind]

-----------------------------------------------------------------------------
(* Sealing and signing.                                                    *)

(* The fields a digest covers: the whole verdict with its evidence.        *)
CanonicalCore(b) == b.core

(* Mutant of Seal: the digest of score_agent() is kept.                    *)
SealedOnce(b) == b

Seal(b) == [b EXCEPT !.digest = CanonicalCore(b)]

Scored(a, judged) ==
  LET core == [agent |-> a, verdict |-> judged.verdict, usd |-> judged.usd,
               note |-> Unannotated]
  IN  [kind |-> "verdict", core |-> core, digest |-> core, signature |-> NoBody]

(* Mutant of NoteOf: the previous verdict is looked up after the insert.   *)
NoteOfLatest(j) == [done |-> TRUE, previous |-> j.new.verdict, moved |-> FALSE]

(* What record() returns for call j, as evidence and reasons.              *)
NoteOf(j) == [done     |-> TRUE,
              previous |-> IF j.prev = NoRow THEN NoRow ELSE j.prev.verdict,
              moved    |-> Store!VerdictMoved(j)]

Annotated(b, j) == [b EXCEPT !.core.note = NoteOf(j)]

Sign(b) == [b EXCEPT !.signature = [key |-> key, at |-> now, over |-> b.digest]]

(* The stored payload keeps its digest and gets no signature.              *)
StaleBody(b) == [b EXCEPT !.kind = "stale", !.signature = NoBody]

-----------------------------------------------------------------------------
ServiceInit ==
  /\ Store!Init
  /\ payloads = << >>
  /\ key = 1
  /\ stage = [w \in Workers |-> "free"]
  /\ about = [w \in Workers |-> NoBody]
  /\ body = [w \in Workers |-> NoBody]

Move(w, from, to) == stage[w] = from /\ stage' = [stage EXCEPT ![w] = to]

(* A request for agent a reaches worker w.                                 *)
Serve(w, a) ==
  /\ Move(w, "free", "scoring")
  /\ about' = [about EXCEPT ![w] = a]
  /\ UNCHANGED <<storeVars, payloads, key, body>>

(* score_agent() has its verdict, sealed, and store.record() is entered.   *)
Score(w) ==
  /\ Move(w, "scoring", "recording")
  /\ \E judged \in Judgements :
       /\ Store!Begin(w, about[w], judged.verdict)
       /\ body' = [body EXCEPT ![w] = Scored(about[w], judged)]
  /\ UNCHANGED <<payloads, key, about>>

ReadPrev(w) ==
  /\ Store!ReadPrev(w)
  /\ UNCHANGED <<payloads, key, stage, about, body>>

(* The row is inserted with the verdict as scored; then evidence and       *)
(* reasons are annotated, the verdict is sealed again and signed.  A delay *)
(* after the insert is no different from one before it.                    *)
Record(w) ==
  /\ Move(w, "recording", "done")
  /\ Store!Write(w)
  /\ payloads' = Append(payloads, body[w])
  /\ body' = [body EXCEPT ![w] = Sign(Seal(Annotated(body[w], job[w])))]
  /\ UNCHANGED <<key, about>>

Fails(w, b) ==
  /\ body' = [body EXCEPT ![w] = b]
  /\ UNCHANGED <<payloads, key, about>>

(* fetch_agent() finds no such agent (404).                                *)
NotFound(w) ==
  /\ Move(w, "scoring", "done")
  /\ Fails(w, Error("detail"))
  /\ UNCHANGED storeVars

(* fetch_agent() raises: the marketplace cannot be read (502).             *)
Unreadable(w) ==
  /\ Move(w, "scoring", "fallback")
  /\ UNCHANGED <<storeVars, payloads, key, about, body>>

(* 502 becomes the last stored payload, or stays 502 when there is none.   *)
Fallback(w) ==
  /\ Move(w, "fallback", "done")
  /\ IF Store!RowsOf(rows, about[w]) = {}
     THEN Fails(w, Error("detail"))
     ELSE \E i \in DOMAIN rows : /\ Store!IsLatest(rows, about[w], i)
                                 /\ Fails(w, StaleBody(payloads[i]))
  /\ UNCHANGED storeVars

(* Anything else raises through the handler: a refused endpoint while      *)
(* scoring, a locked database at any query (500).                          *)
Raises(w) ==
  /\ stage[w] \in {"scoring", "fallback"}
  /\ stage' = [stage EXCEPT ![w] = "done"]
  /\ Fails(w, Error("text"))
  /\ UNCHANGED storeVars

(* Mutant of RecordRaises: the handler never answers.                      *)
RecordHangs(w) ==
  /\ stage[w] = "recording"
  /\ Store!Abort(w)
  /\ UNCHANGED <<stage, payloads, key, about, body>>

RecordRaises(w) ==
  /\ Move(w, "recording", "done")
  /\ Store!Abort(w)
  /\ Fails(w, Error("text"))

(* The answer has left, or its client has gone.                            *)
Release(w) ==
  /\ Move(w, "done", "free")
  /\ about' = [about EXCEPT ![w] = NoBody]
  /\ body' = [body EXCEPT ![w] = NoBody]
  /\ UNCHANGED <<storeVars, payloads, key>>

(* A restart: requests are lost, and the key is read again from the        *)
(* environment or its file, or else made anew (a wiped or read-only disk). *)
(* What dies inside record() is RecordRaises first.                        *)
Restart ==
  /\ \A w \in Workers : pc[w] = "idle"
  /\ key' \in {key, key + 1} \cap Keys
  /\ stage' = [w \in Workers |-> "free"]
  /\ about' = [w \in Workers |-> NoBody]
  /\ body' = [w \in Workers |-> NoBody]
  /\ UNCHANGED <<storeVars, payloads>>

Tick == Store!Tick /\ UNCHANGED <<payloads, key, stage, about, body>>

Works(w) ==
  \/ Score(w) \/ ReadPrev(w) \/ Record(w)
  \/ NotFound(w) \/ Unreadable(w) \/ Fallback(w) \/ Raises(w) \/ RecordRaises(w)

ServiceTypeOK ==
  /\ Store!TypeOK
  /\ payloads \in Seq(Bodies) /\ Len(payloads) = Len(rows)
  /\ key \in Keys
  /\ stage \in [Workers -> {"free", "scoring", "recording", "fallback", "done"}]
  /\ about \in [Workers -> Agents \cup {NoBody}]
  /\ body \in [Workers -> Bodies \cup Errors \cup {NoBody}]
  /\ \A w \in Workers : /\ about[w] = NoBody <=> stage[w] = "free"
                        /\ pc[w] # "idle" <=> stage[w] = "recording"
=============================================================================
