-------------------------- MODULE SettlementPaging --------------------------
(***************************************************************************)
(* oracle/settlement.py: what a wallet was paid on chain, read from the    *)
(* explorer one page at a time while transfers keep arriving.  The         *)
(* explorer lists the newest transfer first, so each arrival pushes every  *)
(* older one down, possibly onto the page that is asked for next.  It may  *)
(* also answer 200 without a list, which reads as the end of one.          *)
(***************************************************************************)
EXTENDS Integers, Sequences, FiniteSets, FiniteSetsExt

CONSTANTS
    TOKENS,        \* how many contracts are in _TOKENS (3)
    LIMIT,         \* transfers on a page (100)
    MAX_PAGES,     \* pages asked for, per token (5)
    Senders,       \* addresses that send to, or receive from, the wallet
    Amounts,       \* amounts moved; 0 is what _to_float cannot read
    Transfers,     \* the transfers that may happen
    MaxTransfers   \* bound: transfers the chain ever holds

Tokens == 1..TOKENS

ASSUME PagingAssumption ==
    /\ TOKENS \in Nat \ {0} /\ LIMIT \in Nat \ {0} /\ MAX_PAGES \in Nat \ {0}
    /\ Amounts \subseteq Nat /\ IsFiniteSet(Amounts)
    /\ Transfers \subseteq [from : Senders, inbound : BOOLEAN, amount : Amounts]
    /\ MaxTransfers \in Nat

VARIABLES
    transfers,   \* the chain: per token, oldest first
    outcome,     \* "reading", "read", "none" (None returned), or "raised"
    token,       \* the contract being read
    page,        \* the page to ask for next
    payers,      \* total per sender; 0: not among the keys
    amounts,     \* how often each amount was appended
    began,       \* history: transfers of a token when its first page was read
    seen,        \* history: which transfers of a token were counted
    reach        \* history: pages of a token that were shown or might be yet

chain == transfers
reader == <<outcome, token, page, payers, amounts, began, seen, reach>>
vars == <<chain, reader>>

(* Mutant of Counts: what the wallet sends counts as well.                 *)
CountsBothWays(tx) == tx.amount > 0

(* The filter of the loop: inbound, with a sender and a positive amount.   *)
Counts(tx) == tx.inbound /\ tx.amount > 0

-----------------------------------------------------------------------------
(* The explorer's answer: the positions on page p of token t.              *)

Newest(t, p) == Len(transfers[t]) - (p - 1) * LIMIT
Oldest(t, p) == IF Newest(t, p) > LIMIT THEN Newest(t, p) - LIMIT + 1 ELSE 1
PageOf(t, p) == Oldest(t, p)..Newest(t, p)

(* Mutant of LastPage: one page more than max_pages is asked for.          *)
LastPageLate(t, p) == Newest(t, p) < LIMIT \/ p = MAX_PAGES + 1

LastPage(t, p) == Newest(t, p) < LIMIT \/ p = MAX_PAGES

Unread == -1   \* no page of the token read yet

Counted(t, p) == {k \in PageOf(t, p) : Counts(transfers[t][k])}

(* Mutant of Appended: the amount is appended outside the filter.          *)
AppendedUnfiltered(t, p) == PageOf(t, p)

Appended(t, p) == {k \in PageOf(t, p) : Counts(transfers[t][k])}

-----------------------------------------------------------------------------
Init ==
    /\ transfers = [t \in Tokens |-> <<>>]
    /\ outcome = "reading" /\ token = 1 /\ page = 1
    /\ payers = [s \in Senders |-> 0]
    /\ amounts = [a \in Amounts |-> 0]
    /\ began = [t \in Tokens |-> Unread]
    /\ seen = [t \in Tokens |-> {}]
    /\ reach = [t \in Tokens |-> MAX_PAGES]

(* The chain moves on while the reader waits.                              *)
Transferred(t, tx) ==
    /\ MapThenSumSet(LAMBDA u : Len(transfers[u]), Tokens) < MaxTransfers
    /\ transfers' = [transfers EXCEPT ![t] = Append(@, tx)]
    /\ UNCHANGED reader

Begun ==
    IF began[token] = Unread THEN [began EXCEPT ![token] = Len(transfers[token])] ELSE began

Tally ==
    LET txs == transfers[token] IN
    /\ payers' = [s \in Senders |-> payers[s]
           + MapThenSumSet(LAMBDA k : txs[k].amount,
                 {k \in Counted(token, page) : txs[k].from = s})]
    /\ amounts' = [a \in Amounts |-> amounts[a]
           + Cardinality({k \in Appended(token, page) : txs[k].amount = a})]
    /\ began' = Begun
    /\ seen' = [seen EXCEPT ![token] = @ \cup Counted(token, page)]

(* Mutant of NextToken: the page is not reset for the next contract.       *)
NextTokenSamePage ==
    /\ token' = token + 1
    /\ outcome' = IF token = TOKENS THEN "read" ELSE outcome
    /\ UNCHANGED page

NextToken ==
    /\ token' = token + 1
    /\ page' = 1
    /\ outcome' = IF token = TOKENS THEN "read" ELSE outcome

NextPage ==
    /\ page' = page + 1
    /\ UNCHANGED <<outcome, token>>

(* One request: a short page, or the last one allowed, ends the token.     *)
ReadPage ==
    /\ outcome = "reading" /\ token \in Tokens
    /\ Tally
    /\ IF LastPage(token, page) THEN NextToken ELSE NextPage
    /\ UNCHANGED <<chain, reach>>

(* A 200 whose data is missing, empty or of another shape, an error in the *)
(* body included, is no transfer at all: it ends the token, not the call.  *)
ReadNoList ==
    /\ outcome = "reading" /\ token \in Tokens
    /\ began' = Begun
    /\ reach' = [reach EXCEPT ![token] = page - 1]
    /\ NextToken
    /\ UNCHANGED <<chain, payers, amounts, seen>>

(* An HTTP error, or a body that is no JSON, on any page: all is given up. *)
Fail ==
    /\ outcome = "reading"
    /\ outcome' = "none"
    /\ UNCHANGED <<chain, token, page, payers, amounts, began, seen, reach>>

(* JSON that is no object, or a list of something else: AttributeError,    *)
(* which fetch_settlements() lets out.                                     *)
Raise ==
    /\ outcome = "reading"
    /\ outcome' = "raised"
    /\ UNCHANGED <<chain, token, page, payers, amounts, began, seen, reach>>

Next ==
    \/ \E t \in Tokens, tx \in Transfers : Transferred(t, tx)
    \/ ReadPage \/ ReadNoList
    \/ Fail \/ Raise

Spec == Init /\ [][Next]_vars

-----------------------------------------------------------------------------
TypeOK ==
    /\ transfers \in [Tokens -> Seq(Transfers)]
    /\ outcome \in {"reading", "read", "none", "raised"}
    /\ token \in 1..TOKENS + 1 /\ (token \in Tokens \/ outcome # "reading")
    /\ page \in 1..MAX_PAGES
    /\ payers \in [Senders -> Nat]
    /\ amounts \in [Amounts -> Nat]
    /\ began \in [Tokens -> Nat \cup {Unread}]
    /\ seen \in [Tokens -> SUBSET Nat]
    /\ reach \in [Tokens -> 0..MAX_PAGES]

Finished(t) == t \in Tokens /\ t < token

(* A transfer that was there when the reader began with its token, and is  *)
(* not among the counted ones, lies beyond the first so many pages.        *)
MissedBeyond(t, pages) ==
    \A k \in 1..began[t] :
        Counts(transfers[t][k]) => k \in seen[t] \/ k + pages * LIMIT <= Len(transfers[t])

(* However the list shifts under the reader, it misses nothing of the      *)
(* pages it was shown of a token: what is missed had that many pages of    *)
(* newer transfers before it.  Where no answer came without a list, those  *)
(* are all the pages it may ask for (settlement.py:85-104).                *)
MissedIsOutOfReach == \A t \in Tokens : Finished(t) => MissedBeyond(t, reach[t])

(* Who is counted as a payer has paid: sent the wallet an amount, seen by  *)
(* the reader.  distinct_payers never counts an address it did not.        *)
PayersHavePaid ==
    \A s \in Senders : payers[s] > 0 =>
        \E t \in Tokens : \E k \in 1..Len(transfers[t]) :
            LET tx == transfers[t][k] IN
                tx.from = s /\ tx.inbound /\ tx.amount > 0

(* A transfer pushed onto the next page is counted twice: tx_count exceeds *)
(* the transfers seen by at most the arrivals since the reader began, and  *)
(* is exact when nothing arrives.                                          *)
OvercountIsArrivals ==
    MapThenSumSet(LAMBDA a : amounts[a], Amounts)
      - MapThenSumSet(LAMBDA t : Cardinality(seen[t]), Tokens)
    <= MapThenSumSet(LAMBDA t : IF began[t] = Unread THEN 0
                                ELSE Len(transfers[t]) - began[t], Tokens)

=============================================================================
