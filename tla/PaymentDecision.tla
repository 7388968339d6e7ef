---------------------------- MODULE PaymentDecision ----------------------------
(***************************************************************************)
(* Agents about to pay, over VerifyService.                                *)
(*                                                                         *)
(* A session of the reference caller (scripts/demo_caller.py) pins the     *)
(* oracle's key once, asks about each agent once, keeps every JSON answer  *)
(* until it ends, and decides each payment from what it keeps.  Deciding   *)
(* changes no state, so a decision is an operator that may be asked for at *)
(* any moment.  Other clients (pages, sweeps) only make the service work.  *)
(* Callers and oracle read the same clock.                                 *)
(***************************************************************************)
EXTENDS VerifyService

CONSTANTS
  Callers,
  Amounts,       \* payments they consider
  ASK_TIMEOUT,   \* seconds a caller waits for an answer
  NoCall         \* not waiting

ASSUME CallersAssumption == Amounts \subseteq Nat /\ ASK_TIMEOUT \in Nat

VARIABLES
  pinned,    \* the key each session trusts
  cache,     \* the answers each session keeps
  ask        \* the call each session waits for

callerVars == <<pinned, cache, ask>>

vars == <<serviceVars, callerVars>>

Calls == [worker : Workers, agent : Agents, at : Nat]

ASSUME NoCallAssumption == NoCall \notin Calls

Empty == [a \in Agents |-> NoBody]

Init ==
  /\ ServiceInit
  /\ pinned = [c \in Callers |-> key]
  /\ cache = [c \in Callers |-> Empty]
  /\ ask = [c \in Callers |-> NoCall]

-----------------------------------------------------------------------------
(* Deciding on an answer b.                                                *)

(* Mutant of VerifyEnvelope: the signed freshness window is not looked at. *)
VerifyEnvelopeForever(digest, env, trusted) ==
  /\ env.key = trusted
  /\ env.over = digest

VerifyEnvelope(digest, env, trusted) ==
  /\ env.key = trusted
  /\ now <= env.at + TTL
  /\ env.over = digest

(* The caller's mirror of CanonicalCore.  What a stale answer adds to the  *)
(* stored payload, and the pronouncement, are outside of it.               *)
DigestForBody(b) == b.core

(* gate_transaction() on a body that has a verdict; an error never gets    *)
(* that far.  A stale body has None for an envelope, which                 *)
(* verify_envelope() raises on.                                            *)
GateTransaction(c, b, amount) ==
  CASE b.signature = NoBody -> "raises"
    [] b.signature # NoBody ->
         IF \/ ~VerifyEnvelope(DigestForBody(b), b.signature, pinned[c])
            \/ DigestForBody(b) # b.digest
            \/ b.core.verdict = "BLOCK"
         THEN "REFUSE"
         ELSE IF amount > b.core.usd \/ b.core.verdict = "CAUTION" THEN "HOLD" ELSE "PROCEED"

-----------------------------------------------------------------------------
(* main() ends, having decided all it was asked to or by an exception, and  *)
(* the next one pins the key served by then.                               *)
NewSession(c) ==
  /\ ask[c] = NoCall
  /\ pinned' = [pinned EXCEPT ![c] = key]
  /\ cache' = [cache EXCEPT ![c] = Empty]
  /\ UNCHANGED <<serviceVars, ask>>

Ask(c, a, w) ==
  /\ ask[c] = NoCall
  /\ cache[c][a] = NoBody
  /\ Serve(w, a)
  /\ ask' = [ask EXCEPT ![c] = [worker |-> w, agent |-> a, at |-> now]]
  /\ UNCHANGED <<pinned, cache>>

Awaited(w) == \E c \in Callers : ask[c] # NoCall /\ ask[c].worker = w

InTime(c) == now <= ask[c].at + ASK_TIMEOUT

(* An answer arrives.  A JSON body is kept, an error as well; the text of  *)
(* a 500 is not JSON and leaves nothing.                                   *)
Receive(c) ==
  /\ ask[c] # NoCall /\ InTime(c)
  /\ Release(ask[c].worker)
  /\ LET b == body[ask[c].worker] IN
       cache' = IF b.kind = "text" THEN cache ELSE [cache EXCEPT ![c][ask[c].agent] = b]
  /\ ask' = [ask EXCEPT ![c] = NoCall]
  /\ UNCHANGED pinned

(* httpx gives up waiting: an error, counted, and the next agent's turn.   *)
GiveUp(c) ==
  /\ ask[c] # NoCall /\ ~InTime(c)
  /\ ask' = [ask EXCEPT ![c] = NoCall]
  /\ UNCHANGED <<serviceVars, pinned, cache>>

(* Other clients: nobody here waits for worker w, or no longer.            *)
ServeOther(w) == \E a \in Agents : Serve(w, a) /\ UNCHANGED callerVars

ReleaseOther(w) == ~Awaited(w) /\ Release(w) /\ UNCHANGED callerVars

(* The process dies and comes back; who waited loses the connection.       *)
Redeploy ==
  /\ Restart
  /\ ask' = [c \in Callers |-> NoCall]
  /\ UNCHANGED <<pinned, cache>>

Next ==
  \/ \E c \in Callers :
       \/ NewSession(c) \/ Receive(c) \/ GiveUp(c)
       \/ \E a \in Agents, w \in Workers : Ask(c, a, w)
  \/ \E w \in Workers : (Works(w) /\ UNCHANGED callerVars) \/ ServeOther(w) \/ ReleaseOther(w)
  \/ Redeploy
  \/ Tick /\ UNCHANGED callerVars

Spec == Init /\ [][Next]_vars

-----------------------------------------------------------------------------
TypeOK ==
  /\ ServiceTypeOK
  /\ pinned \in [Callers -> Keys]
  /\ cache \in [Callers -> [Agents -> Bodies \cup [kind : {"detail"}] \cup {NoBody}]]
  /\ ask \in [Callers -> Calls \cup {NoCall}]

(* The reference caller pays only what some recorded verdict allows: SAFE,  *)
(* for that agent, with a ceiling that covers the amount, and recorded at   *)
(* most the signature's lifetime and one call's patience before the payment *)
(* (demo_caller.py:170-192, signing.py:95-111).  So an agent whose verdicts *)
(* have all been worse for that long is not paid, whatever sessions keep,   *)
(* workers delay, the store is asked for or restarts lose.                  *)
PaidOnRecentRecord ==
  \A c \in Callers, a \in Agents, amount \in Amounts :
    cache[c][a] \in Bodies /\ GateTransaction(c, cache[c][a], amount) = "PROCEED" =>
      \E i \in Store!RowsOf(rows, a) :
        /\ rows[i].verdict = "SAFE"
        /\ amount <= payloads[i].core.usd
        /\ now <= rows[i].at + TTL + ASK_TIMEOUT

Kept == {cache[c][a] : c \in Callers, a \in Agents} \cap Bodies

(* Every verdict a caller holds, fresh or stale, recomputes to the digest   *)
(* it came with, and the signature of a fresh one is over that digest: what *)
(* assess() adds after scoring never parts body and digest, neither in the  *)
(* answer nor in the payload stored before it (verify.py:50-68,             *)
(* signing.py:126-151).                                                     *)
AnswersRecompute ==
  \A b \in Kept :
    /\ b.digest = DigestForBody(b)
    /\ b.kind = "verdict" => b.signature # NoBody /\ b.signature.over = DigestForBody(b)

(* What a signed answer tells of the agent's history is in the database:    *)
(* its own verdict, before it the previous one it names, and the transition *)
(* it announces (verify.py:54-63).                                          *)
AnswersTellHistory ==
  \A b \in Kept : b.kind = "verdict" =>
    \E i \in Store!RowsOf(rows, b.core.agent) :
      /\ rows[i].verdict = b.core.verdict
      /\ b.core.note.previous # NoRow =>
           \E h \in Store!RowsOf(rows, b.core.agent) :
             h < i /\ rows[h].verdict = b.core.note.previous
      /\ b.core.note.moved =>
           \E k \in Store!TransitionsOf(b.core.agent) :
             /\ transitions[k].from = b.core.note.previous
             /\ transitions[k].to = b.core.verdict

(* gate_transaction() "Returns PROCEED / HOLD / REFUSE"                    *)
(* (demo_caller.py:168): every answer that has a verdict gets a decision.   *)
GateAlwaysDecides ==
  \A c \in Callers, a \in Agents, amount \in Amounts :
    cache[c][a] \in Bodies =>
      GateTransaction(c, cache[c][a], amount) \in {"PROCEED", "HOLD", "REFUSE"}
=============================================================================
