# KYA (know your agent): a TLA+ verification of the trust oracle

KYA answers one question for software agents that are about to pay another
agent: *is this one safe to pay, and up to how much?* It reads an agent's
listing, probes its endpoints, looks at its reviews, settlements and siblings,
scores all of it, signs the verdict, remembers it, and sells a detailed audit
of it over HTTP for an x402 payment. This directory models the parts of it that
are hard to test, checks them with TLC and proves the central facts with TLAPS.
Every definition is translated from the Python source; `PROJECT.json` names the
lines each one stands for.

## 1. The system

| component | source | state it keeps | operations |
|---|---|---|---|
| upstream reads | `oracle/data.py` | `_cache` (60 s), `_last_good` (no expiry), `UPSTREAM_STATE["session_ok"]`, `_probe_at` | `probe_upstream`, `fetch_agent`, `resolve_agent_id`, `fetch_feedback`, `scan_malicious`, `fetch_identity`, `fetch_domain_intel`, `probe_endpoints` |
| scoring engine | `oracle/engine.py` | none (pure) | `score_agent`: some 25 signals, a score, a verdict, a dollar ceiling |
| assessment pipeline | `oracle/verify.py` | none | `assess`: all sources, engine, owner index, seal, record |
| verdict store | `oracle/store.py` | SQLite: verdicts, transitions, probe samples, owners | `record`, `last_verdict`, `record_probes`, `uptime`, `record_owner`, `fleet_for`, `latest_per_agent`, `recent_changes` |
| HTTP surface | `app.py` | none of its own | `/verify`, `/health`, `/history`, `/changes`, pages and badges |
| paid audit | `app.py`, `oracle/audit_paid.py` | none of its own | `_AuditGate`, the x402 middleware (external), `/audit` |
| signing | `oracle/signing.py` | one key pair | `sign_digest` (valid 300 s), `verify_envelope`, `digest_for_body` |
| settlement reader | `oracle/settlement.py` | none | `fetch_settlements`: pages of token transfers |
| content scanner | `oracle/content.py` | none | `scan_injection` |
| persona | `oracle/persona.py` | none | `pronounce`: the headline |
| calling agent | `scripts/demo_caller.py` | none | `gate_transaction`: verify, check digest and signature, decide to pay |
| sweeps | `scripts/seed_all.py`, `scripts/index_owners.py` | none | visit each agent once |
| rendering, demos | `seal.py`, `watchtower.py`, `guide.py`, `cli.py`, ... | none | text, SVG, HTML |

**How they interact.** FastAPI runs each handler's blocking part in a thread
pool worker; every worker shares the globals of `data.py` and opens its own
SQLite connections. Nothing takes a lock. A request to `/audit` crosses three
layers that do not share what they learn: the gate (an ASGI middleware), the
payment middleware, and the route. The platform polls `/health`, which probes
the marketplace; the marketplace itself is reached through a subprocess
(`onchainos`, killed after 30 s), goes down, comes back, lists and delists
agents. A redeploy forgets every global, and the verdict database stays.

**What is hard, and what makes each part correct.**

* *Upstream reads.* A read starts, is answered and is processed at three
  different moments, with other workers in between; late results overwrite
  newer ones. Correct when the health flag ends up following the marketplace,
  a "yes" is recent, and a failed read can fall back on an earlier one.
* *Paid audit.* What the gate checked may have changed when the route runs, after
  the payment. Correct when a paid request yields a verdict, unusable requests
  are refused before payment, and sales stop while nothing can be delivered.
* *Scoring engine.* Overlapping thresholds, caps and a volume basis that
  switches. Correct when SAFE is earned, one hard failure blocks, worse news
  (but for the turns named in section 4) never helps and a sale never hurts.
* *Verdict store.* A read-compare-insert spread over two connections. Correct
  when no recorded transition is false and no change of verdict goes
  unannounced.
* *Signing and the calling agent.* The digest is computed before evidence is
  added and again after, the store keeps the copy of in between; the caller keeps
  an answer and decides from it later. Correct when money moves only on a SAFE
  verdict recorded recently enough, and an answer agrees with its digest, its
  signature and the database.
* *Assessment pipeline.* Several agents of one owner are assessed at once over one
  owner index, which a sweep writes as well; uptime has a window. Correct when
  siblings find each other, the index holds nothing that was never so and ends
  at what is, and an endpoint is blamed for an outage it had, and not for ever.
* *HTTP surface.* One event loop, a bounded pool, and a service that judges
  itself by calling itself. Correct when it does not take its own business for
  an outage, and no request waits for ever.
* *Settlement reader.* Pages by offset over a list that grows at its head, some of
  which may come without a list. Correct when it misses nothing of the pages it was
  shown, and what it counts was paid.

The full list, each at its line, is under `hazards` in `PROJECT.json`.

## 2. The modules

```
VerdictLedger   <-- refined by --  VerdictStore  <-- MCVerdictStore
                                        ^-- VerdictStoreProofs

Upstream  <-- UpstreamReaders <-- MCUpstreamReaders     (/health and readers)
    ^              ^-- UpstreamProofs --v
    +-------- AuditSale       <-- MCAuditSale           (/audit)

Engine  <-- Assessments  <-- MCAssessments
                ^-- EngineProofs

VerdictStore <-INSTANCE- VerifyService <-- PaymentDecision <-- MCPaymentDecision
VerdictStoreProofs <-INSTANCE- PaymentDecisionProofs --^

AssessmentPipeline <-- MCAssessmentPipeline             (assess(), owner sweep)
                ^-- AssessmentPipelineProofs --+
                                                > Sums  (lemmas on sums)
                ,-- SettlementPagingProofs ----+
SettlementPaging   <-- MCSettlementPaging               (fetch_settlements())
EventLoop          <-- MCEventLoop                      (loop, pool, self-probes)
                ^-- EventLoopProofs
```

**VerdictStore** is `store.record()` step by step: `Begin` fixes `issued_at`
(whole seconds), `ReadPrev` is `last_verdict()` in the first connection,
`Write` inserts verdict and, iff it moved, transition in the second; `Abort` is
a locked database or a dying process at either. `rows` and `transitions` are
the two tables, a position being the AUTOINCREMENT id. `StepBack` is the wall
clock being set back between calls or within one. `disturbed` is a history
variable: the agents two calls have been about at once, or whose rows the clock
has fallen behind. `SerialSpec` restricts it to undisturbed agents, as in a
sweep, the CLI or a single pool worker. `LastVerdict`, `BoardRows` and
`IsNewestChange` are the three queries that say which row is newest, each by an
order of its own.

**VerdictLedger** is what the store promises its readers: one current verdict
per agent, and a move announced by the very step that makes it.

**Upstream** has the globals of `data.py` and the steps of a read: `ProbeStart`
/ `FetchStart` / `SearchStart`, `Reply` (the marketplace answers or fails at
that moment), `ProbeReturn` / `FetchReturn` / `SearchReturn`; a cached answer is
one step. Time is kept as ages that stop growing when nothing can tell them
apart, so runs have no clock to exhaust. A tick is the subprocess timeout, and no
subprocess outlives it. `UpOrDown`, `ListOrDelist` and `Restart` are the world.

**UpstreamReaders** puts any number of workers on it, some of which
(`Monitors`) serve nothing but the polling of `/health`.

**AuditSale** puts buyers on it: one action per stage of `_AuditGate._refusal`,
the payment (external: 402 or settled), and of the `/audit` route. Request forms
are kept to what gate and route tell apart: where the identifier is (query,
body), what it is (id, name, not numeric), the method. `GateReads` and
`RouteReads` are the two parsers. Once the agent is read, the route serves a verdict
(`RouteServe`) or answers 500 (`RouteRaises`): `assess()` and `full_audit()` open the
store nine times and probe endpoints that answer as they like, and a locked database,
a redirect that cannot be parsed or a refused address is neither of the two errors
`_verdict_for()` catches (`app.py:157-162`). For an agent in `Blocked`, whose primary
endpoint the address guard refuses, it always raises. `Redeploy` drops the buyers in
flight: they get no status at all (`Dropped`).

**Engine** is `score_agent()`: each signal an operator that yields a delta and a
cap, their sum under the lowest cap, verdict bands, and the dollar ceiling in
exact integer units (money in thousandths of a USDT). The Wilson bound is
computed without a square root by comparing squares. Texts of reasons and
their order are left out. **Assessments** lets the evidence on one agent change
one source at a time, in the order `verify.assess()` reads them.

**VerifyService** is `/verify` from the resolved id on, one worker per request,
and *contains* the store: `Score` is `assess()` up to entering `record()`
(`Store!Begin`), `ReadPrev` and `Record` are the store's steps, the latter
followed by what no other thread can see: annotation, resealing, signing.
`payloads` is the column of that name, written before the annotation. Digest and
signature are the fields and the digest, key and second they bind. `NotFound`,
`Unreadable`, `Raises`, `RecordRaises` are the ways to fail, `Fallback` what becomes of a
502. `Restart` may come back with another key (`_load_or_create_key`).
**PaymentDecision** adds sessions of `demo_caller.py`, which pin a key, keep
answers, give up after a timeout and decide by `GateTransaction`. A decision
changes no state, so the property about payments quantifies over all that could
be decided at every moment.

**AssessmentPipeline** is `assess()` between the marketplace and `record()`, one
action per read or write of shared state: the record (fresh, or from `_cache` /
`_last_good`), the probe, `uptime()`, `record_owner()`, `fleet_for()`,
`record_probes()`. Samples are counted by their age in ticks, so the window is
a sum and no clock is needed. `SweepRead` and `SweepWrite` are `index()` of
`index_owners.py`, which reads a batch and writes it record by record. An
agent's record goes through the versions of its `life`. `job.rewritten` and
`sinceDown` are history.

**SettlementPaging** is `fetch_settlements()`, a request per step, while
`Transferred` adds to the list the pages are cut from. `ReadPage` reads a page,
`ReadNoList` an answer 200 without one, which `_extract_txs()` takes for an empty page
and which ends the token; `Fail` is the error that gives everything up (`HTTPError`, a
body that is no JSON), `Raise` the `AttributeError` of JSON in another shape, which
leaves the function. `began`, `seen` and `reach` (the pages of a token that were shown,
or may yet be) are history. `payers` and `amounts` are its results; `tx_count` is the
sum of the latter.

**EventLoop** is `app.py` as uvicorn runs it: `unread` is the socket, `loop` the
request whose handler keeps the loop, `queue` and `held` the thread pool. Clients
ask about KYA itself, whose assessment (`BeginProbes`, `NextMethod`, `GivesUp`)
sends a POST and then a GET to both endpoints of the same service. A probe of
`/verify` is answered on the loop, one of `/audit` goes through the gate and so
through the pool, abandoned or not. `excused` is history: how long something
that may make an endpoint wait did.

## 3. What the runs check

| run | spec | properties | bounds | shows |
|---|---|---|---|---|
| `store_interleaved` | `VerdictStore!Spec` | `TypeOK`, `HonestTransitions`, `SerialAgentsAnnounced`, `ChangesLeadToLatest`, `BoardLagIsAnnounced` | 2 workers, 2 agents, 2 verdicts, 4 rows, a clock of two seconds, set back at will | however calls interleave and fail no transition is false; an undisturbed agent has every change announced exactly once, its newest change leads to its last verdict, and a board that lags behind is accompanied by the change it lags by |
| `store_serial` | `VerdictStore!SerialSpec` | `LedgerSpec` | as above, three verdicts | taking turns, the store implements the ledger |
| `upstream_readers` | `UpstreamReaders!LiveSpec` | `TypeOK`, `YesIsRecent`, `HealthTurnsRed`, `HealthTurnsGreen` | a monitor and a reader, 1 agent, cache 2 and probe 4 ticks | the health flag follows the marketplace; a yes is at most the probe TTL and one timeout old, unless another probe is out |
| `audit_one_buyer` | `AuditSale!LiveSpec` | `TypeOK`, `PaidLossIsExplained`, `EveryRequestEnds`, `SaleIsWithdrawn` | every form of request, 2 agents, one with a refused endpoint | a paid request gets its verdict, or fails in one of five named ways (section 4), never in 502, and never in 500 for an id whose agent was not read again; with nobody polling `/health`, a dead marketplace is eventually not sold from |
| `engine` | `Assessments!Spec` | `TypeOK`, `SafeIsEarned`, `HardFailureBlocks`, `BadNewsNeverHelps`, `SaleNeverHurts` | 6 starting agents, 3 changes | section 1's four conditions on the engine |
| `payment_decision` | `PaymentDecision!Spec` | `TypeOK`, `PaidOnRecentRecord`, `AnswersRecompute`, `AnswersTellHistory` | 2 workers, 1 agent, 1 session, SAFE and CAUTION, 2 rows, 2 keys, 3 ticks | a caller pays only on a SAFE verdict recorded within TTL and timeout; answers agree with digest, signature and database |
| `settlement_paging` | `SettlementPaging!Spec` | `TypeOK`, `MissedIsOutOfReach`, `PayersHavePaid`, `OvercountIsArrivals` | 2 tokens, pages of 2, 2 pages, 6 transfers of 4 kinds | what is missed lay beyond the pages shown; a second count needs an arrival; only who paid is a payer |
| `assessment_pipeline` | `AssessmentPipeline!LiveSpec` | `TypeOK`, `SiblingsMeet`, `RowsWereTrue`, `FlappingWasDown`, `RecoveryIsForgiven`, `IndexCatchesUp` | 2 workers, 2 agents, 2 owners, 2 endpoints, 3 pairs of lives, window 1, 2 samples | siblings assessed together meet; the index never invents and ends at what is; flapping means an outage, and passes |
| `event_loop` | `EventLoop!LiveSpec` | `TypeOK`, `DownIsExcused`, `EveryRequestAnswered` | 2 clients, 2 pool workers, search 3 and probe 1 ticks | the service finds its own endpoints dead only when searches held the loop or, for `/audit`, the pool was full or the probe's own gate held a worker of it; nobody waits for ever |
| `audit_paid_for_nothing` | `AuditSale!Spec` | `PaidIsServed` (violated) | 1 buyer, by name | finding 1 |
| `engine_listing_raises` | `Assessments!Spec` | `ListingNeverRaisesCeiling` (violated) | 2 changes | finding 2 |
| `payment_stale_undecided` | `PaymentDecision!Spec` | `GateAlwaysDecides` (violated) | 1 worker | finding 3 |

**Why the bounds are enough.** *Store:* a lost or false transition needs one
agent, two overlapping calls and a predecessor: three rows and two workers. The
second agent is there to interfere, the tick to make `issued_at` differ from the
insertion order, forwards and back. *Upstream:* a cache TTL of 2 and a probe TTL of 4 timeouts keep
the code's order (timeout < cache TTL < probe TTL) and leave room for a late
result to land anywhere in a window; ages saturate, so outages, recoveries and
restarts recur without limit. *Audit:* with one buyer the TTLs are the same and
every request form occurs; a second buyer could only move the shared state of
`data.py`, which outages, expiry and restarts move at every point of the one
buyer's request as it is. *Engine:* the starting agents sit one change
away from the thresholds (9 sales, 99 sub-cent sales, a shell next to the fleet
limits), the reported values are on both sides of every threshold, and a change
of verdict that needs more than three sources to move is a sequence of such.
Two-agent effects do not exist: the engine is pure. *Payment:* TTL and timeout are
one tick each, so a verdict is too old at the third, the last of the clock. The
second worker serves others or outlives the call it began with, and two rows let
the second verdict contradict the first. SAFE and CAUTION carry the same
ceiling: only the word keeps the latter from being paid. Effects between
agents are those of the store, which `store_interleaved` has two of. *Paging:* two pages
of two let an arrival push a transfer onto the next page, and off the last one;
the second token shows that the page starts again. *Pipeline:* the lives are two
siblings that swap owners, an agent that moves to another endpoint (only the
first fails, `Failing`) and one that loses its owner; `RATE` 2 gives just the samples that make a history; an assessment may
last a tick, so a sample may be stamped outside the outage it saw. *Event loop:* a
search of three ticks outlasts a POST and a GET of one each, as 30 s do 4 s and
4 s; two clients that assess KYA at once fill the pool of two, as forty would
the real one, and then all probes of `/audit` wait.

`CHECK_DEADLOCK FALSE` is set for `Assessments`, whose bound on changes ends every
behaviour, for the store and the payment runs, which stand still once clock and
table have reached their bounds, and for the settlement reader, which returns. All other systems never stop.

**Fairness.** `TimePasses`/`Tick` is weakly fair: clocks run. A worker is weakly
fair in processing an answer because the subprocess is killed after 30 s
(`data.py:84`) and the thread then runs on. A buyer's handler is weakly fair for
the same reason; *asking* is not, nobody must ask. `/health` is polled
(`Monitors`), which is the platform's health check; `SaleIsWithdrawn` is checked
without it. The marketplace owes nothing: the properties assume in their own
premises that it stays up or stays down. `HealthTurnsRed` also assumes that
restarts end, as every restart begins with a green flag.

In `AssessmentPipeline` a worker is weakly fair: every source it waits for has a
timeout. Nobody must assess anybody; `IndexCatchesUp` has in its premise that the
agent goes on being read afresh and judged. In `EventLoop` fairness is strong, for
the pool's next waiter, for the steps of each client's request and for the clock:
the socket, the loop's callbacks and the pool's waiters are served in order of
arrival, so what could be done again and again is not put off for ever by later
requests, although a busy loop disables it now and then.

## 4. Where code and documents disagree

Shown by runs (`findings` in `PROJECT.json`):

1. *A paid request by name may end in 500.* The route searches for the name again,
   outside any `try` (`app.py:384`).
2. *Listing a cheaper service may raise the ceiling.* The lowest fee also picks the
   branch of the sales signal (`engine.py:281`): 100 sales and 0.30 USDT measured
   on chain are held at 69, CAUTION; with a sub-cent service listed beside the
   others they are SAFE with six times the ceiling.
3. *A stale answer breaks the reference caller.* `gate_transaction()` hands the
   missing signature to `verify_envelope()`, and `main()` does not catch what that
   raises (`demo_caller.py:179`). Nothing is paid, but the remaining agents of the
   session get no decision.

Seen while modelling; the first four are what the exceptions in the named
properties stand for:

* *A change of verdict may be announced by nobody, or twice.* Overlapping
  `record()` calls read the same predecessor (`store.py:139`), though the module has a
  changed agent recorded as a transition "instead of silently overwriting"
  (`store.py:10-12`). A clock set back has the same effect: the newest row by time is
  then not the last one. Hence the exception for `disturbed` agents in
  `SerialAgentsAnnounced`, which says that nothing else loses or doubles a change.
* *An error may read as an empty list.* `fetch_settlements()` "Returns None on no key /
  error" (`settlement.py:72`), but an answer 200 whose `data` is missing, empty or of
  another shape is no transfers to `_extract_txs()`: it ends the token
  (`settlement.py:93`), and what was read so far, or zero, is returned as all there is.
  The engine then judges the sales by it. `MissedIsOutOfReach` says what still holds:
  nothing is missed of the pages that were shown.
* *The board may show an older verdict.* `latest_per_agent()` asks for "the most
  recent verdict" (`store.py:232`) by `MAX(issued_at)` alone; among rows of one
  second SQLite takes the first it meets, the oldest, where `last_verdict()` takes
  the newest. `BoardLagIsAnnounced` says what still holds.
* *The service can find itself dead.* `/verify` resolves a name on the loop
  (`app.py:325`), right below the comment that has `_resolve` off it
  (`app.py:319-324`); a search of 30 s outlasts both self-probes.
  `DownIsExcused` names this and, for `/audit`, a full pool and the gate of the probe
  itself, which reads the marketplace in a worker of that pool, as the only causes.
* *Stale evidence is signed afresh.* `fetch_agent()`'s fallback on `_last_good`
  looks to `assess()` like a read that worked, so `/audit` and `/verify` sign it
  (`app.py:163`), against `data.py:33-36` and `app.py:346-347`.

`PaidLossIsExplained` names the five ways to pay and get no verdict: a redeploy that
drops the connection after the payment; 400 where only the gate understood the request
(the gate reads the body of any method and takes a name from it, the route a POST body
and an id); 404 where the agent left meanwhile, or had left and the gate let it pass
from memory; 500 where the route searched for a name once more; and 500 where the agent
was read and the assessment of it raised, a locked database among the reasons
(`verify.py:27-53`, `app.py:385`). What it excludes is a paid request that fails for the
marketplace's sake when the gate had read the agent by id: the cache and `_last_good`
bridge an outage, so never 502, nor 500 before the agent was read again.

`YesIsRecent` has the exception of a probe in flight: `_probe_at` is stamped before the subprocess runs, so until it returns others are
told the old flag. More that the text of the code shows without a model: the guide's
cap of 20 for dead endpoints is 25 in the engine; the guide's `may_i_pay()` pays on
a stale SAFE (`guide.py:56-62`), which the stale body asks to treat as CAUTION
(`app.py:359-360`); gate and route of `/audit` take the `id` of a JSON-RPC envelope
for an agent's (`app.py:110`, `app.py:376`), which `/verify` "never" does
(`app.py:291-297`); the state hash (`store.py:98`) leaves out owner, fleet and
wallet, so a verdict they move is put down to liveness (`store.py:154`).

A word on `BadNewsNeverHelps`. `BadNews` is one source that says worse of the agent
than it did, over the same services: a probe, the scans, the listing's own fields, the
marketplace's rating, reviews, identity, siblings, settlements. Four turns for the worse
are left out, because with them the engine may improve verdict or ceiling; that is how
the code works:

* An endpoint's server error that becomes silence: `Standing` ranks the two alike.
* A security rating that falls below 4.50 with no sale made: the suspicion of a rating
  too good to be true (`engine.py:514-517`) weighs 6, the rating itself (`engine.py:308`) 6
  a star: from 4.50 to 4.25 the two go from +3 to +8.
* A bad review by a *new* reviewer: it may dissolve a suspected review ring
  (`engine.py:481-498`). A bad review by a known one, and the agent's own, are in.
* A measured book that vanishes: with `tx_count` at 0 the volume is claimed sales times
  lowest fee again (`engine.py:628-637`), which may exceed what little was measured, and
  raises the ceiling. A book that shrinks counts where the volume it leaves is no larger.

A listing that had *no* rating or approval has not got worse by having a poor one: the
field itself raises the confidence (`engine.py:663-675`) and may thereby raise the
ceiling. The first word of other sources is in `BadNews` where it can be told to be bad:
a settlement reading that is empty or washed, a fleet, a domain's age or mismatch.

## 5. What is proved

For every value of the constants, with TLAPS. Each theorem is `Spec => []P` for the
`P` named, unless it says otherwise.

**The store** (`VerdictStoreProofs`), with a clock that steps back at will:

* `TypeCorrect` (`TypeOK`) and `TransitionsAreHonest` (`HonestTransitions`). Honesty
  alone is not inductive: `Write` compares with a row read earlier, and rows may have
  been added since. The strengthening `IInv` says that what a worker holds as `prev`
  is a row that *is* in the table and of its agent, and that the table only grows;
  hence at `Write` the old verdict has a smaller id than the new one.
* `SerialAgentsAreAnnounced`, `NewestChangeIsLatest`, `BoardLagAnnounced`
  (`SerialAgentsAnnounced`, `ChangesLeadToLatest`, `BoardLagIsAnnounced`). They speak
  of agents whose calls took turns. `SInv` adds to `IInv` what that buys: a worker at
  `write` holds the *latest* row of its agent and no row is stamped later than the
  clock. `HInv` adds the three properties themselves, which then hold of the state
  before each `Write`: the new row is the last in id and in time, so one more move is
  one more transition, from the row that was the last. No counting over the table is
  needed: the set of moves gains one element, and so does the set of transitions.
* `StoreKeepsLedger` (`SerialSpec => LedgerSpec`), the refinement. By `SInv`, `Write`
  maps to `Issue` and every other step to a stutter.

**Payment** (`PaymentDecisionProofs`, on any number of workers, callers and agents, any
judgement and any timeout): `DecisionTyped`, `KeptAnswersRecompute`,
`KeptAnswersTellHistory`, `NeverPaidOnOldRecord` (`TypeOK`, `AnswersRecompute`,
`AnswersTellHistory`, `PaidOnRecentRecord`). The service takes only steps of the store,
so the store's lemmas are instantiated (`Facts`) and not proved again. The invariant
follows an answer on its way: what a worker has in hand is sealed as scored, then
recorded under its row's id, then signed over that core; a worker some caller waits
for serves that call and no other; what it holds was recorded no earlier than it was
asked for (`Since`), and what a caller keeps was signed no later than a call's
patience after that (`KeptAnswer`). The chain *asked <= recorded*, *signed <= asked +
ASK_TIMEOUT*, *paid < signed + TTL* is what bounds the age of the record behind a
payment.

**Upstream reads.** `UpstreamProofs` proves `ReadersTyped` (`ReadersTypeOK`) and
`HealthyIsRecent` (`Spec => YesIsRecent`, an action property). `ProofOfReads`: a read
the marketplace answered is processed while the answer is no older than its
subprocess may get; `ProofOfFlag`: the flag is re-proved by the probe that reset the
probe's age, unless one is still out, which is the exception the property makes.
It also proves `SaleTyped` (`AuditSale!TypeOK`) and `PaidLossExplained`
(`PaidLossIsExplained`) for any buyers, agents, requests and cache lifetimes. Its
invariant says at each stage what the gate has established, and that a refusal after
the payment has its excuse: 400 where the two parsers read the body differently, 404
where the agent was delisted since or the gate saw no record (`NotFoundExcused`), 500
where the route reads a name, or after it read the agent once more (`RouteAnswered`). The
step that makes the theorem is the fetch: a route that reads an id the gate has read
finds the cache or `_last_good`, or a record, or `notfound`, and no error, unless a
restart came in between, which drops the request.

**Event loop** (`EventLoopProofs`, for any clients, pool and timeouts): `LoopTyped`
(`TypeOK`, the limit of the pool included) and `DownIsAlwaysExcused`
(`DownIsExcused`). The invariant places every request in exactly one of the socket,
the queue and the pool, in keeping with its client's stage, and has `WaitIsExcused`:
the excused ticks of an endpoint are at least the ticks its two probes were out. `Tick`
is the step that matters: a probe that is out while the clock moves is behind
something that excuses the tick (`OutIsExcused`).

**The engine** (`EngineProofs`, for any evidence at all and not the values of the run):

* `EvidenceTyped`, `SafeMustBeEarned`, `OneFailureBlocks` (`TypeOK`, `SafeIsEarned`,
  `HardFailureBlocks`). The inductive invariant is `Typed`: the evidence has its type.
  Every signal is a number and a cap; a lowest cap exists (well-foundedness of the
  naturals, from the library), so a score below 70 follows from any cap below 70, one
  of at most 44 from a hard failure's cap; conversely SAFE excludes each signal that
  would have capped it, and the earned sales are what is left.
* `SellingHelps` (`Spec => SaleNeverHurts`) and `BadNewsHelpsNobody`
  (`Spec => BadNewsNeverHelps`), the monotonicity of the score as action properties.
  Two assessments are compared signal by signal: the signals that do not read what
  changed are equal, the others move the same way, and sum under lowest cap, verdict
  band, ceiling are monotone. The hard part is the Wilson bound, compared through
  squares: that it falls when reviews get worse is polynomial arithmetic over the
  whole numbers (`WilsonFalls`).

**The pipeline** (`AssessmentPipelineProofs`), for any number of workers, agents, owners
and endpoints, any lives, window and durations. `IndexNeverInvents` and
`SiblingsAlwaysMeet` are `RowsWereTrue` and `SiblingsMeet`. `PipelineInv` adds what both need: cache, batch and
every job hold a version the agent has already had (`WorldOK`, `WorkersOK`), so a
late write is an old truth; and a worker that has written its row and not yet ended
finds it in the index, under the owner it read, unless somebody rewrote it
(`RowsOwned`). Of two siblings the one that reads the fleet last has then both rows
before it, because each wrote before it read.
`PipelineTyped` (`TypeOK`) and `FlappingHasReason` (`FlappingWasDown`) rest on
`ProbesInv`. It follows an outage on its way into a verdict: an endpoint was down no
longer ago than the assessment whose probe it refused has lasted (`RefusalIsRecent`);
a failed sample of age *i* no longer than *i* and one assessment (`FailureIsRecent`);
whoever found the agent flapping stands on such a sample, since samples that are all
healthy make an availability of 1 (`FlappingIsRecent`). The bound of the samples comes
from `RateKept`: those of a tick and the assessments that may still add one are within
the rate together. Both count with `Sums` (below).

**Settlement paging** (`SettlementPagingProofs`), for any page size, page limit,
number of tokens and arrivals:

* `OnlyUnreachedIsMissed` (`MissedIsOutOfReach`). `PagingInv` adds `UncountedBelow`: what
  the reader has not yet counted of the token it is at is on the next page of the list
  as it stands, or below; arrivals only push it further down. `UncutYet`: until an answer
  without a list ends a token, all its pages are within reach; where one does, exactly
  the pages shown remain, and the uncounted lies below them.
* `PagingIsTyped` (`TypeOK`), `PayersPaid` (`PayersHavePaid`) and `TwiceCountedArrived`
  (`OvercountIsArrivals`). `TallyInv` adds `TwiceIsPushed`, the account that balances
  step by step where the property alone does not: `tx_count`, less the transfers seen,
  plus those seen that the pages to come will show again, is at most the arrivals. An
  arrival pushes at most one more seen transfer onto the next page; a page takes off
  the transfers still to come again what it counts twice.
* They rest on `Sums`, which proves of the sums the modules state, the folds of the
  community modules, what a sum has to satisfy: it is a number, any one term can be
  split off (`SumSplit`) or moved (`SumMoved`), it is zero where its terms are, it is
  monotone, and tallying a set by kind adds its size (`SumTallied`). The order in which
  the fold takes the members is `CHOOSE`n, so that it takes an induction: each lemma
  supposes a smallest set that breaks it (`SmallestMember`, from the library's
  well-founded order on finite subsets). The recursive function the fold evaluates is
  shown to exist by induction on the size.

**Assumptions.** Those the modules state, evaluated by TLC in the runs. Markers are no
values of what they mark: `NoRowAssumption`, `StoreAssumption`, `BodyAssumption`,
`NoCallAssumption`, `SubprocessAssumption` (which also wants an agent to probe),
`PipelineAssumption`, `AbsentAssumption` (Python's `None` is no number), and that the
clients of the loop are not its probes (`LoopAssumption`). Bounds and lifetimes are
naturals, positive where the code has them so (`BoundsAssumption`, `TTLAssumption`,
`PagingAssumption`, `MaxChangesAssumption`); the amounts of the transfers, which the
reader keeps in a list, are finitely many, and so are the workers of the pool and the
endpoints agents list. Inputs have their types
(`StartsAssumption`, `SourcesAssumption`).

**Only model-checked.** Liveness (`HealthTurns*`, `EveryRequestEnds`,
`SaleIsWithdrawn`, `RecoveryIsForgiven`, `IndexCatchesUp`, `EveryRequestAnswered`)
rests on fairness and ENABLED. Every invariant and every action property of the
passing runs, and the refinement of the ledger, is a theorem.

## 6. Abstractions a reader should know

* The wall clock steps back in `VerdictStore`, not in `VerifyService`, whose TTLs
  it would stretch by as much.
* `AssessmentPipeline` gives an agent one endpoint at a time, and the samples of
  those it has left count on, as `engine.py:220` reads the whole history. A probe
  tells the truth about the endpoint at one moment; a timeout that mistakes it is
  the matter of `EventLoop`. The
  sweep's `soldCount` is taken to be the `salesCount` of the record. Processing of
  delayed replies is in `Upstream`. `SiblingsMeet` excepts rows that somebody who
  read another owner has written since, as the code lets the last writer win.
* In `EventLoop` the loop's own steps take no time against the 4 s of a probe, and a
  tick waits for them; it has requests about KYA only, those about others only
  take workers or the loop as these do. Timed-out probes still occupy the gate.
* The explorer lists newest first, in pages by offset, and forgets nothing.
* A process that can start no more threads is not modelled: the `RuntimeError` of
  `probe_endpoints()`'s executor would pass for an upstream failure, a 502.
* Names are the ids they resolve to; a search finds an agent iff it is listed.
* The payment middleware is external: it answers 402 or lets the request through
  with a settled payment (`app.py:370-371`).
* `max_safe_usd` is rounded half-even on exact decimals; the code rounds floats, so
  a tie may differ in the fourth decimal.
* A refused primary endpoint never reaches the engine through `assess()` (it raises
  first); the engine's own handling of it is modelled all the same, and other
  endpoints do reach it.
* Caller and oracle read one clock; a caller's clock that is behind prolongs the
  TTL by as much. Signatures and digests bind what they are computed of. A death
  inside `record()` appears as an answer 500 before the restart; for the caller
  both are an error of which nothing is kept.
* Evidence is what the engine tells apart, never text: `test_named`, `templated`,
  `described` and the scan results are given as findings.

## 7. What is not modelled

Text matching (`content.py`, fleet naming templates, persona sentences), address
checks (`guard_url`), page and badge rendering, the demos: no state and no
ordering. `full_audit()` only formats what other parts return; `audit()` of the
reference caller only prints. `history()` and `operators()` of the store format
rows. The state hash is a digest that is stored and reported but decides nothing.
How `/verify` finds an identifier in a body or form is parsing without state; for
`/audit`, where two parsers must agree, it is modelled. The classification of a
probe's answer (`_classify`) is an input: its results are the engine's evidence.
The sweep's discovery of ids and its report read and print.

## 8. Plan

1. Probe classification over the redirect and the two methods, against the order of
   its ranks.
2. An abstract specification of the owner index, the last version anybody read of each
   agent, and a proof that assessments and sweep implement it.
