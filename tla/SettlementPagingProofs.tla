----------------------- MODULE SettlementPagingProofs -----------------------
(***************************************************************************)
(* What fetch_settlements() can miss or count twice, for any number of     *)
(* tokens, any page size, any number of pages and any transfers arriving   *)
(* meanwhile.                                                              *)
(***************************************************************************)
EXTENDS SettlementPaging, Sums, TLAPS

(* How far down the list page p begins.                                    *)
Skipped(p) == (p - 1) * LIMIT

LEMMA LimitNat == LIMIT \in Nat \ {0} /\ MAX_PAGES \in Nat \ {0} /\ TOKENS \in Nat \ {0}
BY PagingAssumption

LEMMA SkippedNat == ASSUME NEW p \in Nat \ {0} PROVE Skipped(p) \in Nat
<1>1. LIMIT \in Nat BY LimitNat
<1>2. p - 1 \in Nat OBVIOUS
<1>3. \A m, n \in Nat : m * n \in Nat OBVIOUS
<1> QED BY <1>1, <1>2, <1>3 DEF Skipped

LEMMA SkippedFirst == Skipped(1) = 0
<1>1. LIMIT \in Nat BY LimitNat
<1>2. \A n \in Nat : (1 - 1) * n = 0 OBVIOUS
<1> QED BY <1>1, <1>2 DEF Skipped

LEMMA SkippedNext == ASSUME NEW p \in Nat \ {0}
                     PROVE  /\ Skipped(p + 1) = Skipped(p) + LIMIT
                            /\ p * LIMIT = Skipped(p) + LIMIT
<1>1. LIMIT \in Nat BY LimitNat
<1>2. \A n \in Nat : (p + 1 - 1) * n = (p - 1) * n + n OBVIOUS
<1>3. \A n \in Nat : p * n = (p - 1) * n + n OBVIOUS
<1> QED BY <1>1, <1>2, <1>3 DEF Skipped

(* A position at or above the bottom of a page is on it, or below it.      *)
LEMMA OnPageOrBelow ==
    ASSUME NEW n \in Nat, NEW s \in Nat, NEW k \in 1..n, k <= n - s
    PROVE  \/ k \in (IF n - s > LIMIT THEN n - s - LIMIT + 1 ELSE 1)..(n - s)
           \/ n - s > LIMIT /\ k <= n - s - LIMIT
BY LimitNat

-----------------------------------------------------------------------------
(* The part of the state the paging moves.                                 *)
PagingTyped ==
    /\ transfers \in [Tokens -> Seq(Transfers)]
    /\ token \in Nat \ {0} /\ page \in 1..MAX_PAGES
    /\ began \in [Tokens -> Nat \cup {Unread}]
    /\ seen \in [Tokens -> SUBSET Nat]
    /\ reach \in [Tokens -> 0..MAX_PAGES]

(* A token is begun when its first page is read, and in its turn.          *)
BegunInTurn ==
    \A t \in Tokens :
        /\ began[t] <= Len(transfers[t])
        /\ t > token => began[t] = Unread
        /\ t = token /\ page > 1 => began[t] # Unread
        /\ t = token /\ page = 1 => began[t] = Unread

(* Of the token being read, what is not counted lies below the pages read. *)
UncountedBelow ==
    token \in Tokens =>
        \A k \in 1..began[token] :
            Counts(transfers[token][k]) =>
                k \in seen[token] \/ k <= Len(transfers[token]) - Skipped(page)

(* Only an answer without a list cuts a token short, and ends it.          *)
UncutYet == \A t \in Tokens : t >= token => reach[t] = MAX_PAGES

PagingInv == PagingTyped /\ BegunInTurn /\ UncountedBelow /\ UncutYet /\ MissedIsOutOfReach

LEMMA PagingInit == Init => PagingInv
<1> SUFFICES ASSUME Init PROVE PagingInv
    OBVIOUS
<1>1. PagingTyped
  <2>1. \A t \in Tokens : transfers[t] = <<>> BY DEF Init
  <2>2. transfers \in [Tokens -> Seq(Transfers)] BY DEF Init
  <2>3. page \in 1..MAX_PAGES /\ MAX_PAGES \in 0..MAX_PAGES BY LimitNat DEF Init
  <2> QED BY <2>2, <2>3 DEF Init, PagingTyped
<1>2. BegunInTurn
  BY DEF Init, BegunInTurn, Unread
<1>3. UncountedBelow
  BY DEF Init, UncountedBelow, Unread
<1>4. UncutYet /\ MissedIsOutOfReach
  BY DEF Init, UncutYet, MissedIsOutOfReach, Finished, Tokens
<1> QED BY <1>1, <1>2, <1>3, <1>4 DEF PagingInv

(* A list only grows at its end, so a position keeps its transfer.         *)
LEMMA ChainGrows ==
    ASSUME PagingTyped, NEW u \in Tokens, NEW tx \in Transfers, Transferred(u, tx)
    PROVE  /\ transfers' \in [Tokens -> Seq(Transfers)]
           /\ \A t \in Tokens :
                 /\ Len(transfers[t]) \in Nat /\ Len(transfers'[t]) \in Nat
                 /\ Len(transfers'[t]) >= Len(transfers[t])
                 /\ \A k \in 1..Len(transfers[t]) : transfers'[t][k] = transfers[t][k]
<1>1. transfers' = [transfers EXCEPT ![u] = Append(transfers[u], tx)]
  BY DEF Transferred
<1>2. transfers \in [Tokens -> Seq(Transfers)] BY DEF PagingTyped
<1>3. transfers[u] \in Seq(Transfers) BY <1>2
<1>4. Append(transfers[u], tx) \in Seq(Transfers) BY <1>3
<1>5. /\ Len(Append(transfers[u], tx)) = Len(transfers[u]) + 1
      /\ \A k \in 1..Len(transfers[u]) : Append(transfers[u], tx)[k] = transfers[u][k]
  BY <1>3
<1>6. \A t \in Tokens : Len(transfers[t]) \in Nat BY <1>2
<1>7. \A t \in Tokens : transfers'[t] = IF t = u THEN Append(transfers[u], tx) ELSE transfers[t]
  BY <1>1, <1>2
<1>8. transfers' \in [Tokens -> Seq(Transfers)] BY <1>1, <1>2, <1>4
<1>9. ASSUME NEW t \in Tokens
      PROVE  /\ Len(transfers'[t]) \in Nat
             /\ Len(transfers'[t]) >= Len(transfers[t])
             /\ \A k \in 1..Len(transfers[t]) : transfers'[t][k] = transfers[t][k]
  <2>1. CASE t = u
    <3> DEFINE grown == Append(transfers[u], tx)
    <3>1. transfers'[t] = grown BY <2>1, <1>7
    <3>2. Len(grown) = Len(transfers[t]) + 1 BY <2>1, <1>5
    <3>3. \A k \in 1..Len(transfers[t]) : grown[k] = transfers[t][k] BY <2>1, <1>5
    <3>4. Len(transfers[t]) \in Nat BY <1>6
    <3> HIDE DEF grown
    <3> QED BY <3>1, <3>2, <3>3, <3>4
  <2>2. CASE t # u BY <2>2, <1>6, <1>7
  <2> QED BY <2>1, <2>2
<1> QED BY <1>6, <1>8, <1>9

LEMMA ReachNat ==
    ASSUME PagingTyped, NEW t \in Tokens
    PROVE  reach[t] \in Nat /\ reach[t] * LIMIT \in Nat
<1>1. reach[t] \in Nat /\ LIMIT \in Nat BY LimitNat DEF PagingTyped
<1>2. \A m, n \in Nat : m * n \in Nat OBVIOUS
<1> QED BY <1>1, <1>2

LEMMA TransferredKeeps ==
    ASSUME PagingInv, NEW u \in Tokens, NEW tx \in Transfers, Transferred(u, tx)
    PROVE  PagingInv'
<1>1. PagingTyped /\ BegunInTurn /\ UncountedBelow /\ UncutYet /\ MissedIsOutOfReach
  BY DEF PagingInv
<1>2. /\ token' = token /\ page' = page /\ began' = began /\ seen' = seen /\ reach' = reach
  BY DEF Transferred, reader
<1>3. /\ transfers' \in [Tokens -> Seq(Transfers)]
      /\ \A t \in Tokens :
            /\ Len(transfers[t]) \in Nat /\ Len(transfers'[t]) \in Nat
            /\ Len(transfers'[t]) >= Len(transfers[t])
            /\ \A k \in 1..Len(transfers[t]) : transfers'[t][k] = transfers[t][k]
  BY <1>1, ChainGrows
<1>4. \A t \in Tokens : began[t] \in Int BY <1>1 DEF PagingTyped, Unread
<1>5. PagingTyped' BY <1>1, <1>2, <1>3 DEF PagingTyped
<1>6. BegunInTurn' BY <1>1, <1>2, <1>3, <1>4 DEF BegunInTurn
<1>7. \A t \in Tokens : \A k \in 1..began[t] :
        k \in 1..Len(transfers[t]) /\ transfers'[t][k] = transfers[t][k]
  BY <1>1, <1>3, <1>4 DEF BegunInTurn
<1>8. UncountedBelow'
  <2>1. Skipped(page) \in Nat BY <1>1, SkippedNat DEF PagingTyped
  <2>2. Skipped(page)' = Skipped(page) BY <1>2 DEF Skipped
  <2> SUFFICES ASSUME token \in Tokens, NEW k \in 1..began[token], Counts(transfers'[token][k])
               PROVE  k \in seen[token] \/ k <= Len(transfers'[token]) - Skipped(page)
    BY <1>2, <2>2 DEF UncountedBelow
  <2>3. Counts(transfers[token][k]) BY <1>7
  <2>4. k \in seen[token] \/ k <= Len(transfers[token]) - Skipped(page)
    BY <1>1, <2>3 DEF UncountedBelow
  <2>5. k \in Int BY <1>4
  <2> QED BY <2>1, <2>4, <2>5, <1>3
<1>9. MissedIsOutOfReach'
  <2> SUFFICES ASSUME NEW t \in Tokens, t < token, NEW k \in 1..began[t],
                      Counts(transfers'[t][k])
               PROVE  k \in seen[t] \/ k + reach[t] * LIMIT <= Len(transfers'[t])
    BY <1>2 DEF MissedIsOutOfReach, Finished, MissedBeyond
  <2> DEFINE shown == reach[t] * LIMIT
  <2>1. shown \in Nat BY <1>1, ReachNat
  <2>2. Counts(transfers[t][k]) BY <1>7
  <2>3. k \in seen[t] \/ k + shown <= Len(transfers[t])
    BY <1>1, <2>2 DEF MissedIsOutOfReach, Finished, MissedBeyond
  <2>4. k \in Int BY <1>4
  <2> HIDE DEF shown
  <2>5. k \in seen[t] \/ k + shown <= Len(transfers'[t]) BY <2>1, <2>3, <2>4, <1>3
  <2> QED BY <2>5 DEF shown
<1>10. UncutYet' BY <1>1, <1>2 DEF UncutYet
<1> QED BY <1>5, <1>6, <1>8, <1>9, <1>10 DEF PagingInv

LEMMA ReadPageKeeps == ASSUME PagingInv, ReadPage PROVE PagingInv'
<1>1. PagingTyped /\ BegunInTurn /\ UncountedBelow /\ UncutYet /\ MissedIsOutOfReach
  BY DEF PagingInv
<1>2. token \in Tokens /\ transfers' = transfers BY DEF ReadPage, chain
<1> DEFINE n == Len(transfers[token])
           s == Skipped(page)
           onPage == PageOf(token, page)
           opened == IF began[token] = Unread THEN n ELSE began[token]
<1>3. n \in Nat /\ s \in Nat /\ transfers[token] \in Seq(Transfers)
  <2>1. transfers[token] \in Seq(Transfers) BY <1>1, <1>2 DEF PagingTyped
  <2>2. page \in Nat \ {0} BY <1>1, LimitNat DEF PagingTyped
  <2> QED BY <2>1, <2>2, SkippedNat
<1>4. /\ began' = IF began[token] = Unread THEN [began EXCEPT ![token] = n] ELSE began
      /\ seen' = [seen EXCEPT ![token] = seen[token] \cup {k \in onPage : Counts(transfers[token][k])}]
      /\ reach' = reach
  BY DEF ReadPage, Tally, Counted, Begun
<1>5. onPage = (IF n - s > LIMIT THEN n - s - LIMIT + 1 ELSE 1)..(n - s)
  BY DEF PageOf, Oldest, Newest, Skipped
<1>6. LastPage(token, page) <=> n - s < LIMIT \/ page = MAX_PAGES
  BY DEF LastPage, Newest, Skipped
<1>7. \/ LastPage(token, page) /\ token' = token + 1 /\ page' = 1
      \/ ~LastPage(token, page) /\ token' = token /\ page' = page + 1
  BY DEF ReadPage, NextToken, NextPage
<1>8. /\ token \in Nat \ {0} /\ page \in 1..MAX_PAGES /\ page \in Nat \ {0}
      /\ began \in [Tokens -> Nat \cup {Unread}] /\ seen \in [Tokens -> SUBSET Nat]
      /\ LIMIT \in Nat \ {0} /\ MAX_PAGES \in Nat \ {0}
  BY <1>1, LimitNat DEF PagingTyped
<1> DEFINE counted == {k \in onPage : Counts(transfers[token][k])}
<1>9. \A t \in Tokens : /\ began'[t] = IF t = token THEN opened ELSE began[t]
                        /\ seen'[t] = IF t = token THEN seen[token] \cup counted ELSE seen[t]
  <2> HIDE DEF counted, n
  <2>1. seen' = [seen EXCEPT ![token] = seen[token] \cup counted] BY <1>4 DEF counted
  <2>2. \A t \in Tokens : seen'[t] = IF t = token THEN seen[token] \cup counted ELSE seen[t]
    BY <2>1, <1>8
  <2>3. \A t \in Tokens : began'[t] = IF t = token THEN opened ELSE began[t]
    BY <1>4, <1>8
  <2> QED BY <2>2, <2>3
<1>10. opened \in Nat /\ opened <= n /\ opened # Unread
  <2> HIDE DEF n
  <2>1. began[token] <= n BY <1>1, <1>2 DEF BegunInTurn, n
  <2>2. began[token] \in Nat \cup {Unread} BY <1>2, <1>8
  <2> QED BY <1>3, <2>1, <2>2 DEF Unread
<1>11. onPage \subseteq Nat
  BY <1>3, <1>5, <1>8
<1>12. PagingTyped'
  <2>1. began' \in [Tokens -> Nat \cup {Unread}]
    <3> HIDE DEF n
    <3> QED BY <1>3, <1>4, <1>8
  <2>2. seen' \in [Tokens -> SUBSET Nat]
    <3>1. counted \subseteq Nat BY <1>11
    <3> HIDE DEF counted
    <3>2. seen' = [seen EXCEPT ![token] = seen[token] \cup counted] BY <1>4 DEF counted
    <3>3. seen[token] \cup counted \in SUBSET Nat BY <1>2, <1>8, <3>1
    <3> QED BY <1>8, <3>2, <3>3
  <2>3. token' \in Nat \ {0} /\ page' \in 1..MAX_PAGES
    <3> HIDE DEF n, s
    <3> QED BY <1>6, <1>7, <1>8
  <2>4. /\ transfers' \in [Tokens -> Seq(Transfers)]
        /\ reach' \in [Tokens -> 0..MAX_PAGES]
    BY <1>1, <1>2, <1>4 DEF PagingTyped
  <2> QED BY <2>1, <2>2, <2>3, <2>4 DEF PagingTyped
<1>13. \A k \in 1..opened : Counts(transfers[token][k]) =>
          k \in seen'[token] \/ (n - s > LIMIT /\ k <= n - s - LIMIT)
  <2> SUFFICES ASSUME NEW k \in 1..opened, Counts(transfers[token][k])
               PROVE  k \in seen'[token] \/ (n - s > LIMIT /\ k <= n - s - LIMIT)
    OBVIOUS
  <2>1. k \in 1..n BY <1>3, <1>10
  <2>2. k \in seen[token] \/ k <= n - s
    <3>1. CASE began[token] = Unread
      <4>1. page = 1
        <5>1. ~(page > 1) BY <3>1, <1>1, <1>2 DEF BegunInTurn
        <5> QED BY <5>1, <1>8
      <4>2. s = 0 BY <4>1, SkippedFirst
      <4> HIDE DEF n, s
      <4> QED BY <2>1, <4>2, <1>3
    <3>2. CASE began[token] # Unread
      <4>1. k \in 1..began[token] BY <3>2
      <4> QED BY <4>1, <1>1, <1>2 DEF UncountedBelow
    <3> QED BY <3>1, <3>2
  <2>3. CASE k \in seen[token] BY <2>3, <1>2, <1>9
  <2>4. CASE k <= n - s
    <3> HIDE DEF n, s
    <3>1. \/ k \in (IF n - s > LIMIT THEN n - s - LIMIT + 1 ELSE 1)..(n - s)
          \/ n - s > LIMIT /\ k <= n - s - LIMIT
      BY <2>1, <2>4, <1>3, OnPageOrBelow
    <3>2. CASE k \in onPage
      <4>1. k \in counted BY <3>2
      <4> QED BY <4>1, <1>2, <1>9
    <3> QED BY <3>1, <3>2, <1>5
  <2> QED BY <2>2, <2>3, <2>4
<1>14. BegunInTurn'
  <2> SUFFICES ASSUME NEW t \in Tokens
               PROVE  /\ began'[t] <= Len(transfers[t])
                      /\ t > token' => began'[t] = Unread
                      /\ t = token' /\ page' > 1 => began'[t] # Unread
                      /\ t = token' /\ page' = 1 => began'[t] = Unread
    BY <1>2 DEF BegunInTurn
  <2>1. began'[t] <= Len(transfers[t])
    <3>1. CASE t = token BY <3>1, <1>9, <1>10
    <3>2. CASE t # token BY <3>2, <1>1, <1>9 DEF BegunInTurn
    <3> QED BY <3>1, <3>2
  <2>2. t \in Nat BY DEF Tokens
  <2>3. t > token => began'[t] = Unread
    <3> SUFFICES ASSUME t > token PROVE began'[t] = Unread OBVIOUS
    <3>1. t # token BY <2>2, <1>8
    <3>2. began'[t] = began[t] BY <3>1, <1>9
    <3> QED BY <3>2, <1>1 DEF BegunInTurn
  <2>4. began'[token] # Unread BY <1>2, <1>9, <1>10
  <2> HIDE DEF n, s
  <2> QED BY <2>1, <2>2, <2>3, <2>4, <1>7, <1>8
<1>15. UncountedBelow'
  <2> SUFFICES ASSUME token' \in Tokens, NEW k \in 1..began'[token'],
                      Counts(transfers[token'][k])
               PROVE  k \in seen'[token'] \/ k <= Len(transfers[token']) - Skipped(page)'
    BY <1>2 DEF UncountedBelow
  <2>1. CASE token' = token + 1
    <3>1. token' \in Nat /\ token' > token BY <2>1, <1>8
    <3>2. began[token'] = Unread BY <3>1, <1>1 DEF BegunInTurn
    <3>3. token' # token BY <3>1, <1>8
    <3>4. began'[token'] = began[token'] BY <3>3, <1>9
    <3>5. 1..began'[token'] = {} BY <3>2, <3>4 DEF Unread
    <3> QED BY <3>5
  <2>2. CASE token' = token /\ page' = page + 1
    <3>1. Skipped(page)' = s + LIMIT
      <4>1. Skipped(page)' = Skipped(page + 1) BY <2>2 DEF Skipped
      <4> QED BY <4>1, <1>8, SkippedNext
    <3>2. k \in 1..opened BY <2>2, <1>2, <1>9
    <3>3. k \in seen'[token] \/ k <= n - s - LIMIT BY <3>2, <2>2, <1>13
    <3> HIDE DEF n, s, opened
    <3>4. n - s - LIMIT = n - (s + LIMIT) BY <1>3, <1>8
    <3> QED BY <3>1, <3>3, <3>4, <2>2 DEF n
  <2> QED BY <2>1, <2>2, <1>7
<1>16. MissedIsOutOfReach'
  <2> SUFFICES ASSUME NEW t \in Tokens, t < token', NEW k \in 1..began'[t],
                      Counts(transfers[t][k])
               PROVE  k \in seen'[t] \/ k + reach[t] * LIMIT <= Len(transfers[t])
    BY <1>2, <1>4 DEF MissedIsOutOfReach, Finished, MissedBeyond
  <2>1. t \in Nat BY DEF Tokens
  <2>2. CASE t < token
    <3>1. t # token BY <2>1, <2>2, <1>8
    <3>2. began'[t] = began[t] /\ seen'[t] = seen[t] BY <3>1, <1>9
    <3> QED BY <3>2, <2>2, <1>1 DEF MissedIsOutOfReach, Finished, MissedBeyond
  <2>3. CASE ~(t < token)
    <3>1. t = token /\ LastPage(token, page)
      <4> HIDE DEF n, s
      <4> QED BY <2>1, <2>3, <1>7, <1>8
    <3>2. k \in 1..opened BY <3>1, <1>2, <1>9
    <3>3. k \in seen'[token] \/ (n - s > LIMIT /\ k <= n - s - LIMIT)
      BY <3>1, <3>2, <1>13
    <3>4. CASE k \in seen'[token] BY <3>1, <3>4
    <3>5. CASE n - s > LIMIT /\ k <= n - s - LIMIT
      <4>1. page = MAX_PAGES
        <5> HIDE DEF n, s
        <5> QED BY <3>1, <3>5, <1>3, <1>6, <1>8
      <4>2. reach[t] = MAX_PAGES BY <3>1, <1>1, <1>8 DEF UncutYet
      <4>3. MAX_PAGES * LIMIT = s + LIMIT BY <4>1, <1>8, SkippedNext
      <4>4. k \in Nat BY <3>2, <1>10
      <4> DEFINE all == MAX_PAGES * LIMIT
      <4> HIDE DEF n, s, all
      <4>5. all = s + LIMIT BY <4>3 DEF all
      <4>6. k + all <= n BY <4>4, <4>5, <3>5, <1>3, <1>8
      <4> QED BY <4>2, <4>6, <3>1 DEF all, n
    <3> QED BY <3>3, <3>4, <3>5
  <2> QED BY <2>2, <2>3
<1>17. UncutYet'
  <2> HIDE DEF n, s
  <2> QED BY <1>1, <1>4, <1>7, <1>8 DEF UncutYet, Tokens
<1> QED BY <1>12, <1>14, <1>15, <1>16, <1>17 DEF PagingInv

(* An answer without a list: of what was there, all that is not counted    *)
(* lies below the pages that were shown.                                   *)
LEMMA ReadNoListKeeps == ASSUME PagingInv, ReadNoList PROVE PagingInv'
<1>1. PagingTyped /\ BegunInTurn /\ UncountedBelow /\ UncutYet /\ MissedIsOutOfReach
  BY DEF PagingInv
<1>2. /\ token \in Tokens /\ transfers' = transfers /\ seen' = seen
      /\ token' = token + 1 /\ page' = 1
  BY DEF ReadNoList, NextToken, chain
<1> DEFINE n == Len(transfers[token])
           s == Skipped(page)
           opened == IF began[token] = Unread THEN n ELSE began[token]
<1>3. n \in Nat /\ s \in Nat
  <2>1. transfers[token] \in Seq(Transfers) BY <1>1, <1>2 DEF PagingTyped
  <2>2. page \in Nat \ {0} BY <1>1, LimitNat DEF PagingTyped
  <2> QED BY <2>1, <2>2, SkippedNat
<1>4. /\ began' = IF began[token] = Unread THEN [began EXCEPT ![token] = n] ELSE began
      /\ reach' = [reach EXCEPT ![token] = page - 1]
  BY DEF ReadNoList, Begun
<1>5. /\ token \in Nat \ {0} /\ page \in 1..MAX_PAGES /\ page \in Nat \ {0}
      /\ began \in [Tokens -> Nat \cup {Unread}] /\ reach \in [Tokens -> 0..MAX_PAGES]
      /\ MAX_PAGES \in Nat \ {0} /\ page - 1 \in 0..MAX_PAGES
  BY <1>1, LimitNat DEF PagingTyped
<1>6. \A t \in Tokens : /\ began'[t] = IF t = token THEN opened ELSE began[t]
                        /\ reach'[t] = IF t = token THEN page - 1 ELSE reach[t]
  <2> HIDE DEF n
  <2>1. \A t \in Tokens : began'[t] = IF t = token THEN opened ELSE began[t]
    BY <1>4, <1>5
  <2>2. \A t \in Tokens : reach'[t] = IF t = token THEN page - 1 ELSE reach[t]
    BY <1>4, <1>5
  <2> QED BY <2>1, <2>2
<1>7. opened \in Nat /\ opened <= n /\ opened # Unread
  <2> HIDE DEF n
  <2>1. began[token] <= n BY <1>1, <1>2 DEF BegunInTurn, n
  <2>2. began[token] \in Nat \cup {Unread} BY <1>2, <1>5
  <2> QED BY <1>3, <2>1, <2>2 DEF Unread
<1>8. \A t \in Tokens : t \in Nat BY DEF Tokens
<1>9. PagingTyped'
  <2>1. began' \in [Tokens -> Nat \cup {Unread}]
    <3> HIDE DEF n
    <3> QED BY <1>3, <1>4, <1>5
  <2>2. reach' \in [Tokens -> 0..MAX_PAGES] BY <1>4, <1>5
  <2>3. /\ token' \in Nat \ {0} /\ page' \in 1..MAX_PAGES
        /\ transfers' \in [Tokens -> Seq(Transfers)] /\ seen' \in [Tokens -> SUBSET Nat]
    BY <1>1, <1>2, <1>5 DEF PagingTyped
  <2> QED BY <2>1, <2>2, <2>3 DEF PagingTyped
<1>10. BegunInTurn'
  <2> SUFFICES ASSUME NEW t \in Tokens
               PROVE  /\ began'[t] <= Len(transfers[t])
                      /\ t >= token' => began'[t] = Unread
    BY <1>2, <1>8 DEF BegunInTurn
  <2>1. CASE t = token BY <2>1, <1>2, <1>5, <1>6, <1>7
  <2>2. CASE t # token
    <3>1. began'[t] = began[t] BY <2>2, <1>6
    <3> QED BY <3>1, <1>1, <1>2, <1>5, <1>8 DEF BegunInTurn
  <2> QED BY <2>1, <2>2
<1>11. UncountedBelow'
  <2> SUFFICES ASSUME token' \in Tokens PROVE 1..began'[token'] = {}
    BY DEF UncountedBelow
  <2>1. began'[token'] = Unread BY <1>2, <1>5, <1>6, <1>1 DEF BegunInTurn
  <2> QED BY <2>1 DEF Unread
<1>12. UncutYet'
  BY <1>1, <1>2, <1>5, <1>6, <1>8 DEF UncutYet
<1>13. MissedIsOutOfReach'
  <2> SUFFICES ASSUME NEW t \in Tokens, t < token', NEW k \in 1..began'[t],
                      Counts(transfers[t][k])
               PROVE  k \in seen[t] \/ k + reach'[t] * LIMIT <= Len(transfers[t])
    BY <1>2 DEF MissedIsOutOfReach, Finished, MissedBeyond
  <2>1. CASE t # token
    <3>1. t < token BY <2>1, <1>2, <1>5, <1>8
    <3>2. began'[t] = began[t] /\ reach'[t] = reach[t] BY <2>1, <1>6
    <3> QED BY <3>1, <3>2, <1>1 DEF MissedIsOutOfReach, Finished, MissedBeyond
  <2>2. CASE t = token
    <3>1. k \in 1..opened /\ reach'[t] * LIMIT = s BY <2>2, <1>6 DEF Skipped
    <3>2. k \in seen[token] \/ k <= n - s
      <4>1. CASE began[token] = Unread
        <5>1. page = 1
          <6>1. ~(page > 1) BY <4>1, <1>1, <1>2 DEF BegunInTurn
          <6> QED BY <6>1, <1>5
        <5>2. s = 0 BY <5>1, SkippedFirst
        <5> HIDE DEF n, s
        <5> QED BY <3>1, <5>2, <1>3, <1>7
      <4>2. CASE began[token] # Unread
        <5>1. k \in 1..began[token] BY <3>1, <4>2
        <5> QED BY <5>1, <2>2, <1>1, <1>2 DEF UncountedBelow
      <4> QED BY <4>1, <4>2
    <3>3. k \in Nat BY <3>1, <1>7
    <3>4. k <= n - s => k + s <= n
      <4> HIDE DEF n, s
      <4> QED BY <3>3, <1>3
    <3> HIDE DEF s
    <3> QED BY <2>2, <3>1, <3>2, <3>4
  <2> QED BY <2>1, <2>2
<1> QED BY <1>9, <1>10, <1>11, <1>12, <1>13 DEF PagingInv

LEMMA PagingHolds == Spec => []PagingInv
<1>1. Init => PagingInv BY PagingInit
<1>2. PagingInv /\ [Next]_vars => PagingInv'
  <2> SUFFICES ASSUME PagingInv, [Next]_vars PROVE PagingInv' OBVIOUS
  <2>1. ASSUME NEW u \in Tokens, NEW tx \in Transfers, Transferred(u, tx) PROVE PagingInv'
    BY <2>1, TransferredKeeps
  <2>2. CASE ReadPage BY <2>2, ReadPageKeeps
  <2>3. CASE ReadNoList BY <2>3, ReadNoListKeeps
  <2>4. CASE UNCHANGED <<transfers, token, page, began, seen, reach>>
    BY <2>4 DEF PagingInv, PagingTyped, BegunInTurn, UncountedBelow, UncutYet,
                MissedIsOutOfReach, MissedBeyond, Finished, Skipped
  <2>5. CASE Fail \/ Raise BY <2>4, <2>5 DEF Fail, Raise, chain
  <2>6. CASE UNCHANGED vars BY <2>4, <2>6 DEF vars, chain, reader
  <2> QED BY <2>1, <2>2, <2>3, <2>5, <2>6 DEF Next
<1> QED BY <1>1, <1>2, PTL DEF Spec

(* Whatever moves the list meanwhile, nothing that was there when the       *)
(* reader began with a token is missed, except what lay below every page   *)
(* it was shown, or might have asked for (settlement.py:85-104).           *)
THEOREM OnlyUnreachedIsMissed == Spec => []MissedIsOutOfReach
<1>1. PagingInv => MissedIsOutOfReach BY DEF PagingInv
<1> QED BY <1>1, PagingHolds, PTL

-----------------------------------------------------------------------------
(* What the reader has tallied, next to what it has seen.                  *)
TallyTyped ==
    /\ outcome \in {"reading", "read", "none", "raised"}
    /\ token \in 1..TOKENS + 1 /\ (token \in Tokens \/ outcome # "reading")
    /\ payers \in [Senders -> Nat]
    /\ amounts \in [Amounts -> Nat]

(* What is seen is on the chain, and nothing before the token is begun.    *)
SeenOnChain ==
    \A t \in Tokens : /\ seen[t] \subseteq 1..Len(transfers[t])
                      /\ began[t] = Unread => seen[t] = {}

(* tx_count, the transfers seen, and the arrivals since each token began.  *)
TxCount == SumFunctionOnSet(amounts, Amounts)

SeenOf == [t \in Tokens |-> Cardinality(seen[t])]
ArrivedAt == [t \in Tokens |-> IF began[t] = Unread THEN 0
                              ELSE Len(transfers[t]) - began[t]]

(* The transfers seen that the pages still to come will show again.        *)
ToComeAgain == {k \in seen[token] : k <= Len(transfers[token]) - Skipped(page)}
Again == IF token \in Tokens THEN Cardinality(ToComeAgain) ELSE 0

(* Whatever is or will be counted twice was pushed down by an arrival.     *)
TwiceIsPushed ==
    TxCount - SumFunctionOnSet(SeenOf, Tokens) + Again
        <= SumFunctionOnSet(ArrivedAt, Tokens)

TallyInv == PagingInv /\ TallyTyped /\ SeenOnChain /\ PayersHavePaid /\ TwiceIsPushed

LEMMA TokensFinite == IsFiniteSet(Tokens) /\ Tokens \subseteq Nat \ {0}
BY LimitNat, FS_Interval DEF Tokens

(* The three sums are numbers, and so are their terms.                     *)
LEMMA TallyNumbers ==
    ASSUME PagingTyped, BegunInTurn, TallyTyped, SeenOnChain
    PROVE  /\ \A a \in Amounts : amounts[a] \in Nat
           /\ \A t \in Tokens : /\ IsFiniteSet(seen[t])
                                /\ SeenOf[t] = Cardinality(seen[t]) /\ SeenOf[t] \in Nat
                                /\ Len(transfers[t]) \in Nat /\ ArrivedAt[t] \in Nat
           /\ TxCount \in Nat
           /\ SumFunctionOnSet(SeenOf, Tokens) \in Nat
           /\ SumFunctionOnSet(ArrivedAt, Tokens) \in Nat
           /\ Again \in Nat
<1>1. \A a \in Amounts : amounts[a] \in Nat
  BY DEF TallyTyped
<1>2. \A t \in Tokens : Len(transfers[t]) \in Nat
  BY DEF PagingTyped
<1>3. ASSUME NEW t \in Tokens
      PROVE  IsFiniteSet(seen[t]) /\ Cardinality(seen[t]) \in Nat
  <2>1. IsFiniteSet(1..Len(transfers[t]))
    BY <1>2, FS_Interval
  <2>2. seen[t] \subseteq 1..Len(transfers[t])
    BY DEF SeenOnChain
  <2> QED
    BY <2>1, <2>2, FS_Subset, FS_CardinalityType
<1>4. \A t \in Tokens : SeenOf[t] = Cardinality(seen[t]) /\ SeenOf[t] \in Nat
  BY <1>3 DEF SeenOf
<1>5. ASSUME NEW t \in Tokens PROVE ArrivedAt[t] \in Nat
  <2>1. began[t] \in Nat \cup {Unread} /\ began[t] <= Len(transfers[t])
    BY DEF PagingTyped, BegunInTurn
  <2> QED
    BY <1>2, <2>1 DEF ArrivedAt
<1>6. TxCount \in Nat
  BY <1>1, SumNat, PagingAssumption DEF TxCount
<1>7. SumFunctionOnSet(SeenOf, Tokens) \in Nat
  <2>1. \A t \in Tokens : SeenOf[t] \in Nat
    BY <1>4
  <2> QED
    BY <2>1, SumNat, TokensFinite
<1>8. SumFunctionOnSet(ArrivedAt, Tokens) \in Nat
  BY <1>5, SumNat, TokensFinite
<1>9. Again \in Nat
  <2>1. CASE token \in Tokens
    <3>1. ToComeAgain \subseteq seen[token]
      BY DEF ToComeAgain
    <3>2. Cardinality(ToComeAgain) \in Nat
      BY <1>3, <2>1, <3>1, FS_Subset, FS_CardinalityType
    <3> QED
      BY <2>1, <3>2 DEF Again
  <2>2. CASE token \notin Tokens
    BY <2>2 DEF Again
  <2> QED
    BY <2>1, <2>2
<1> QED
  BY <1>1, <1>2, <1>3, <1>4, <1>5, <1>6, <1>7, <1>8, <1>9

LEMMA TallyInit == Init => TallyInv
<1> SUFFICES ASSUME Init PROVE TallyInv
  OBVIOUS
<1>1. PagingInv
  BY PagingInit
<1>2. TallyTyped
  BY LimitNat DEF Init, TallyTyped, Tokens
<1>3. SeenOnChain /\ PayersHavePaid
  BY DEF Init, SeenOnChain, PayersHavePaid
<1>4. TxCount = 0
  BY SumZero, PagingAssumption DEF Init, TxCount
<1>5. SumFunctionOnSet(SeenOf, Tokens) = 0
  <2>1. \A t \in Tokens : SeenOf[t] = 0
    BY FS_EmptySet DEF Init, SeenOf
  <2> QED
    BY <2>1, SumZero, TokensFinite
<1>6. SumFunctionOnSet(ArrivedAt, Tokens) = 0
  <2>1. \A t \in Tokens : ArrivedAt[t] = 0
    BY DEF Init, ArrivedAt
  <2> QED
    BY <2>1, SumZero, TokensFinite
<1>7. Again = 0
  <2>1. token \in Tokens => ToComeAgain = {}
    BY DEF Init, ToComeAgain
  <2> QED
    BY <2>1, FS_EmptySet DEF Again
<1>8. TwiceIsPushed
  BY <1>4, <1>5, <1>6, <1>7 DEF TwiceIsPushed
<1> QED
  BY <1>1, <1>2, <1>3, <1>8 DEF TallyInv

(* An arrival pushes at most one transfer that is seen onto the pages to   *)
(* come, and only at a token that is begun, where it is counted.           *)
LEMMA TransferredTallies ==
    ASSUME TallyInv, NEW u \in Tokens, NEW tx \in Transfers, Transferred(u, tx)
    PROVE  TallyInv'
<1>1. /\ PagingInv /\ TallyTyped /\ SeenOnChain /\ PayersHavePaid /\ TwiceIsPushed
      /\ PagingTyped /\ BegunInTurn
  BY DEF TallyInv, PagingInv
<1>2. /\ UNCHANGED <<outcome, token, page, payers, amounts, began, seen, reach>>
      /\ transfers' = [transfers EXCEPT ![u] = Append(@, tx)]
  BY DEF Transferred, reader
<1>3. PagingInv'
  BY <1>1, TransferredKeeps
<1>4. /\ \A t \in Tokens :
            /\ Len(transfers[t]) \in Nat /\ Len(transfers'[t]) \in Nat
            /\ Len(transfers'[t]) >= Len(transfers[t])
            /\ \A k \in 1..Len(transfers[t]) : transfers'[t][k] = transfers[t][k]
  BY <1>1, ChainGrows
<1>5. /\ Len(transfers'[u]) = Len(transfers[u]) + 1
      /\ \A t \in Tokens : t # u => Len(transfers'[t]) = Len(transfers[t])
  <2>1. transfers \in [Tokens -> Seq(Transfers)] /\ transfers[u] \in Seq(Transfers)
    BY <1>1 DEF PagingTyped
  <2>2. /\ transfers'[u] = Append(transfers[u], tx)
        /\ \A t \in Tokens : t # u => transfers'[t] = transfers[t]
    BY <1>2, <2>1
  <2> QED
    BY <2>1, <2>2
<1>6. TallyTyped'
  BY <1>1, <1>2 DEF TallyTyped
<1>7. SeenOnChain'
  <2>1. ASSUME NEW t \in Tokens, NEW k \in seen[t] PROVE k \in 1..Len(transfers'[t])
    BY <1>1, <1>4, <2>1 DEF SeenOnChain
  <2> QED
    BY <1>1, <1>2, <2>1 DEF SeenOnChain
<1>8. PayersHavePaid'
  <2>1. ASSUME NEW s \in Senders, payers[s] > 0
        PROVE  \E t \in Tokens : \E k \in 1..Len(transfers'[t]) :
                  /\ transfers'[t][k].from = s /\ transfers'[t][k].inbound
                  /\ transfers'[t][k].amount > 0
    <3>1. PICK t \in Tokens : \E k \in 1..Len(transfers[t]) :
             /\ transfers[t][k].from = s /\ transfers[t][k].inbound
             /\ transfers[t][k].amount > 0
      BY <1>1, <2>1 DEF PayersHavePaid
    <3>2. \A k \in 1..Len(transfers[t]) : /\ k \in 1..Len(transfers'[t])
                                         /\ transfers'[t][k] = transfers[t][k]
      BY <1>4
    <3> QED
      BY <3>1, <3>2
  <2> QED
    BY <1>2, <2>1 DEF PayersHavePaid
<1>9. TwiceIsPushed'
  <2>1. /\ TxCount \in Nat /\ Again \in Nat
        /\ SumFunctionOnSet(SeenOf, Tokens) \in Nat
        /\ SumFunctionOnSet(ArrivedAt, Tokens) \in Nat
        /\ \A t \in Tokens : ArrivedAt[t] \in Nat /\ IsFiniteSet(seen[t])
    BY <1>1, TallyNumbers
  <2>2. TxCount' = TxCount /\ SumFunctionOnSet(SeenOf, Tokens)' = SumFunctionOnSet(SeenOf, Tokens)
    BY <1>2 DEF TxCount, SeenOf
  <2> DEFINE more == IF began[u] = Unread THEN 0 ELSE 1
             now == [t \in Tokens |-> IF began[t] = Unread THEN 0
                                     ELSE Len(transfers'[t]) - began[t]]
  <2>3. ArrivedAt' = now
    BY <1>2 DEF ArrivedAt
  <2>4. /\ \A t \in Tokens : ArrivedAt[t] \in Int /\ now[t] \in Int
        /\ now[u] = ArrivedAt[u] + more
        /\ \A t \in Tokens \ {u} : ArrivedAt[t] = now[t]
    <3>1. \A t \in Tokens : began[t] \in Int /\ (began[t] = Unread \/ began[t] \in Nat)
      BY <1>1 DEF PagingTyped, Unread
    <3>2. \A t \in Tokens : now[t] \in Int
      BY <1>4, <3>1
    <3>3. now[u] = ArrivedAt[u] + more
      <4>1. /\ now[u] = IF began[u] = Unread THEN 0 ELSE Len(transfers'[u]) - began[u]
            /\ ArrivedAt[u] = IF began[u] = Unread THEN 0 ELSE Len(transfers[u]) - began[u]
            /\ Len(transfers'[u]) = Len(transfers[u]) + 1
        BY <1>5 DEF ArrivedAt
      <4> HIDE DEF now
      <4> QED
        BY <1>4, <3>1, <4>1
    <3>4. \A t \in Tokens \ {u} : ArrivedAt[t] = now[t]
      <4> SUFFICES ASSUME NEW t \in Tokens \ {u} PROVE ArrivedAt[t] = now[t]
        OBVIOUS
      <4>1. Len(transfers'[t]) = Len(transfers[t])
        BY <1>5
      <4> QED
        BY <4>1 DEF ArrivedAt
    <3> QED
      BY <2>1, <3>2, <3>3, <3>4
  <2> HIDE DEF now
  <2>5. SumFunctionOnSet(now, Tokens) = SumFunctionOnSet(ArrivedAt, Tokens) - ArrivedAt[u] + now[u]
    <3> DEFINE before == ArrivedAt
    <3>1. /\ \A t \in Tokens : before[t] \in Int /\ now[t] \in Int
          /\ \A t \in Tokens \ {u} : before[t] = now[t]
      BY <2>4
    <3>2. IsFiniteSet(Tokens)
      BY TokensFinite
    <3> HIDE DEF more, before
    <3>3. SumFunctionOnSet(now, Tokens) = SumFunctionOnSet(before, Tokens) - before[u] + now[u]
      BY <3>1, <3>2, SumMoved
    <3> QED
      BY <3>3 DEF before
  <2>6. Again' <= Again + more /\ Again' \in Int
    <3>1. CASE token \notin Tokens
      BY <1>2, <2>1, <3>1 DEF Again
    <3>2. CASE token \in Tokens
      <4> DEFINE top == Len(transfers'[token]) - Skipped(page)
                 next == {k \in seen[token] : k <= top}
      <4>1. Again' = Cardinality(next) /\ Again = Cardinality(ToComeAgain)
        <5>1. Skipped(page)' = Skipped(page)
          BY <1>2 DEF Skipped
        <5> QED
          BY <1>2, <3>2, <5>1 DEF Again, ToComeAgain
      <4>2. Skipped(page) \in Nat
        BY <1>1, SkippedNat DEF PagingTyped
      <4>3. IsFiniteSet(ToComeAgain) /\ IsFiniteSet(next) /\ Cardinality(next) \in Nat
        BY <2>1, <3>2, FS_Subset, FS_CardinalityType DEF ToComeAgain
      <4>4. CASE token # u \/ began[u] = Unread
        <5>1. next = ToComeAgain
          <6>1. CASE token # u
            <7>1. Len(transfers'[token]) = Len(transfers[token])
              BY <1>5, <3>2, <6>1
            <7> QED
              BY <7>1 DEF ToComeAgain
          <6>2. CASE token = u
            <7>1. seen[token] = {}
              BY <1>1, <4>4, <6>2 DEF SeenOnChain
            <7> QED
              BY <7>1 DEF ToComeAgain
          <6> QED
            BY <6>1, <6>2
        <5> HIDE DEF next
        <5> QED
          BY <2>1, <4>1, <5>1
      <4>5. CASE token = u /\ began[u] # Unread
        <5>1. next \subseteq ToComeAgain \cup {top}
          <6> SUFFICES ASSUME NEW k \in seen[token], k <= top, k # top
                       PROVE  k <= Len(transfers[token]) - Skipped(page)
            BY DEF ToComeAgain
          <6>1. k \in Nat /\ Len(transfers[token]) \in Nat
            BY <1>1, <1>4, <3>2 DEF SeenOnChain
          <6>2. top = Len(transfers[token]) + 1 - Skipped(page)
            <7>1. Len(transfers'[token]) = Len(transfers[token]) + 1
              BY <1>5, <4>5
            <7> QED
              BY <4>2, <6>1, <7>1
          <6> HIDE DEF top
          <6> QED
            BY <4>2, <6>1, <6>2
        <5> HIDE DEF next, top
        <5>2. /\ IsFiniteSet(ToComeAgain \cup {top})
              /\ Cardinality(ToComeAgain \cup {top}) <= Cardinality(ToComeAgain) + 1
          <6> DEFINE again == ToComeAgain
          <6>1. IsFiniteSet(again)
            BY <4>3
          <6>2. Cardinality(again) \in Nat
            BY <6>1, FS_CardinalityType
          <6> HIDE DEF again
          <6>3. /\ IsFiniteSet(again \cup {top})
                /\ \/ Cardinality(again \cup {top}) = Cardinality(again)
                   \/ Cardinality(again \cup {top}) = Cardinality(again) + 1
            BY <6>1, FS_AddElement
          <6> QED
            BY <6>2, <6>3 DEF again
        <5>3. Cardinality(next) <= Cardinality(ToComeAgain \cup {top})
          BY <5>1, <5>2, FS_Subset
        <5>4. Cardinality(ToComeAgain \cup {top}) \in Nat
          BY <5>2, FS_CardinalityType
        <5> QED
          BY <2>1, <4>1, <4>3, <4>5, <5>2, <5>3, <5>4
      <4> QED
        BY <4>4, <4>5
    <3> QED
      BY <3>1, <3>2
  <2>7. TxCount - SumFunctionOnSet(SeenOf, Tokens) + Again <= SumFunctionOnSet(ArrivedAt, Tokens)
    BY <1>1 DEF TwiceIsPushed
  <2>8. SumFunctionOnSet(now, Tokens) = SumFunctionOnSet(ArrivedAt, Tokens) + more
    BY <2>1, <2>4, <2>5
  <2>9. more \in Nat
    OBVIOUS
  <2> HIDE DEF more
  <2>10. TxCount - SumFunctionOnSet(SeenOf, Tokens) + Again' <= SumFunctionOnSet(now, Tokens)
    BY <2>1, <2>6, <2>7, <2>8, <2>9
  <2> QED
    BY <2>2, <2>3, <2>10 DEF TwiceIsPushed
<1> QED
  BY <1>3, <1>6, <1>7, <1>8, <1>9 DEF TallyInv

(* What ReadPage finds on the page it asks for.                            *)
LEMMA PageCounted ==
    ASSUME PagingTyped, token \in Tokens
    PROVE  /\ Len(transfers[token]) \in Nat /\ Skipped(page) \in Nat
           /\ Skipped(page + 1) = Skipped(page) + LIMIT
           /\ IsFiniteSet(Counted(token, page)) /\ Cardinality(Counted(token, page)) \in Nat
           /\ Counted(token, page) = Appended(token, page)
           /\ \A k \in Counted(token, page) :
                 /\ k \in 1..Len(transfers[token])
                 /\ k <= Len(transfers[token]) - Skipped(page)
                 /\ ~ LastPage(token, page) => ~ k <= Len(transfers[token]) - (Skipped(page) + LIMIT)
                 /\ Counts(transfers[token][k])
                 /\ transfers[token][k].amount \in Amounts /\ transfers[token][k].amount \in Nat
<1> DEFINE n == Len(transfers[token])
           s == Skipped(page)
<1>1. transfers[token] \in Seq(Transfers) /\ page \in Nat \ {0}
  BY LimitNat DEF PagingTyped
<1>2. n \in Nat /\ s \in Nat /\ LIMIT \in Nat \ {0} /\ Skipped(page + 1) = s + LIMIT
  <2>1. n \in Nat
    BY <1>1
  <2>2. s \in Nat
    BY <1>1, SkippedNat
  <2>3. Skipped(page + 1) = s + LIMIT
    BY <1>1, SkippedNext
  <2> HIDE DEF n, s
  <2> QED
    BY <2>1, <2>2, <2>3, LimitNat
<1>3. PageOf(token, page) = (IF n - s > LIMIT THEN n - s - LIMIT + 1 ELSE 1)..(n - s)
  BY DEF PageOf, Oldest, Newest, Skipped
<1>4. ~ LastPage(token, page) => n - s >= LIMIT
  <2>1. ~ LastPage(token, page) => ~ (n - s < LIMIT)
    BY DEF LastPage, Newest, Skipped
  <2> HIDE DEF n, s
  <2> QED
    BY <1>2, <2>1
<1>5. ASSUME NEW k \in Counted(token, page)
      PROVE  /\ k \in 1..n /\ k <= n - s
             /\ ~ LastPage(token, page) => ~ k <= n - (s + LIMIT)
             /\ Counts(transfers[token][k])
             /\ transfers[token][k].amount \in Amounts /\ transfers[token][k].amount \in Nat
  <2>1. k \in PageOf(token, page) /\ Counts(transfers[token][k])
    BY DEF Counted
  <2>2. k \in 1..n /\ k <= n - s /\ (n - s >= LIMIT => ~ k <= n - (s + LIMIT))
    <3> HIDE DEF n, s
    <3> QED
      BY <1>2, <1>3, <2>1
  <2>3. transfers[token][k] \in Transfers
    BY <1>1, <2>2
  <2> QED
    BY <1>4, <2>1, <2>2, <2>3, PagingAssumption
<1>6. IsFiniteSet(Counted(token, page)) /\ Cardinality(Counted(token, page)) \in Nat
  <2>1. Counted(token, page) \subseteq 1..n
    BY <1>5
  <2>2. IsFiniteSet(1..n)
    <3> HIDE DEF n
    <3>1. n \in Int
      BY <1>2
    <3> QED
      BY <3>1, FS_Interval
  <2> QED
    BY <2>1, <2>2, FS_Subset, FS_CardinalityType
<1> QED
  BY <1>2, <1>5, <1>6 DEF Counted, Appended

(* The transfers a sender is credited with on a page are what it has sent. *)
LEMMA CreditedIsSum ==
    ASSUME PagingTyped, token \in Tokens, NEW s
    PROVE  LET Of == {k \in Counted(token, page) : transfers[token][k].from = s}
               credit == MapThenSumSet(LAMBDA k : transfers[token][k].amount, Of)
           IN  credit \in Nat /\ (Of = {} => credit = 0)
<1> DEFINE Of == {k \in Counted(token, page) : transfers[token][k].from = s}
           credit == MapThenSumSet(LAMBDA k : transfers[token][k].amount, Of)
           sent == [k \in Of |-> transfers[token][k].amount]
<1>1. credit = SumFunctionOnSet(sent, Of)
  BY DEF SumFunctionOnSet, FoldFunctionOnSet, MapThenSumSet, MapThenFoldSet
<1>2. IsFiniteSet(Of)
  <2>1. IsFiniteSet(Counted(token, page)) /\ Of \subseteq Counted(token, page)
    BY PageCounted
  <2> HIDE DEF Of
  <2> QED
    BY <2>1, FS_Subset
<1>3. \A k \in Of : sent[k] \in Nat
  BY PageCounted
<1>4. Of = {} => \A k \in Of : sent[k] = 0
  OBVIOUS
<1> HIDE DEF Of, sent
<1>5. SumFunctionOnSet(sent, Of) \in Nat
  BY <1>2, <1>3, SumNat
<1>6. Of = {} => SumFunctionOnSet(sent, Of) = 0
  BY <1>2, <1>4, SumZero
<1> QED
  BY <1>1, <1>5, <1>6 DEF Of

(* A page adds to tx_count what it counts; of that, what was seen before   *)
(* is what it takes off the transfers still to come again.                 *)
LEMMA ReadPageTallies == ASSUME TallyInv, ReadPage PROVE TallyInv'
<1>1. /\ PagingInv /\ TallyTyped /\ SeenOnChain /\ PayersHavePaid /\ TwiceIsPushed
      /\ PagingTyped /\ BegunInTurn
  BY DEF TallyInv, PagingInv
<1>2. outcome = "reading" /\ token \in Tokens /\ transfers' = transfers
  BY DEF ReadPage, chain
<1> DEFINE n == Len(transfers[token])
           s == Skipped(page)
           P == Counted(token, page)
           old == seen[token]
           Of(x) == {k \in P : transfers[token][k].from = x}
           credit(x) == MapThenSumSet(LAMBDA k : transfers[token][k].amount, Of(x))
<1>3. /\ n \in Nat /\ s \in Nat /\ Skipped(page + 1) = s + LIMIT
      /\ IsFiniteSet(P) /\ Cardinality(P) \in Nat /\ P = Appended(token, page)
      /\ \A k \in P : /\ k \in 1..n /\ k <= n - s
                      /\ ~ LastPage(token, page) => ~ k <= n - (s + LIMIT)
                      /\ Counts(transfers[token][k])
                      /\ transfers[token][k].amount \in Amounts
  BY <1>1, <1>2, PageCounted
<1>4. PagingInv'
  BY <1>1, ReadPageKeeps
<1>5. /\ payers' = [x \in Senders |-> payers[x] + credit(x)]
      /\ amounts' = [a \in Amounts |-> amounts[a]
                        + Cardinality({k \in P : transfers[token][k].amount = a})]
      /\ began' = IF began[token] = Unread THEN [began EXCEPT ![token] = n] ELSE began
      /\ seen' = [seen EXCEPT ![token] = old \cup P]
  <2>1. P = Appended(token, page)
    BY <1>3
  <2> QED
    BY <2>1 DEF ReadPage, Tally, Begun
<1>6. \/ /\ LastPage(token, page) /\ token' = token + 1 /\ page' = 1
         /\ outcome' = IF token = TOKENS THEN "read" ELSE outcome
      \/ /\ ~ LastPage(token, page) /\ token' = token /\ page' = page + 1
         /\ outcome' = outcome
  BY DEF ReadPage, NextToken, NextPage
<1>7. \A x \in Senders : credit(x) \in Nat /\ (Of(x) = {} => credit(x) = 0)
  BY <1>1, <1>2, CreditedIsSum
<1>8. TallyTyped'
  <2>1. payers' \in [Senders -> Nat]
    <3>1. \A x \in Senders : payers[x] \in Nat /\ credit(x) \in Nat
      BY <1>1, <1>7 DEF TallyTyped
    <3> HIDE DEF credit
    <3> QED
      BY <1>5, <3>1
  <2>2. amounts' \in [Amounts -> Nat]
    <3> DEFINE Kind(a) == {k \in P : transfers[token][k].amount = a}
    <3>1. \A a \in Amounts : Kind(a) \subseteq P
      OBVIOUS
    <3>2. amounts' = [a \in Amounts |-> amounts[a] + Cardinality(Kind(a))]
      BY <1>5
    <3> HIDE DEF Kind, P
    <3>3. \A a \in Amounts : Cardinality(Kind(a)) \in Nat
      BY <1>3, <3>1, FS_Subset, FS_CardinalityType
    <3>4. \A a \in Amounts : amounts[a] \in Nat
      BY <1>1 DEF TallyTyped
    <3> QED
      BY <3>2, <3>3, <3>4
  <2>3. /\ outcome' \in {"reading", "read", "none", "raised"}
        /\ token' \in 1..TOKENS + 1 /\ (token' \in Tokens \/ outcome' # "reading")
    <3>1. token \in 1..TOKENS /\ TOKENS \in Nat
      BY <1>2, LimitNat DEF Tokens
    <3> QED
      BY <1>1, <1>2, <1>6, <3>1 DEF TallyTyped, Tokens
  <2> QED
    BY <2>1, <2>2, <2>3 DEF TallyTyped
<1>9. /\ \A t \in Tokens : seen'[t] = IF t = token THEN old \cup P ELSE seen[t]
      /\ \A t \in Tokens : began'[t] = IF t = token /\ began[token] = Unread THEN n ELSE began[t]
  <2>1. began \in [Tokens -> Nat \cup {Unread}] /\ seen \in [Tokens -> SUBSET Nat]
    BY <1>1 DEF PagingTyped
  <2> HIDE DEF n, P, old
  <2>2. \A t \in Tokens : seen'[t] = IF t = token THEN old \cup P ELSE seen[t]
    BY <1>5, <2>1
  <2>3. \A t \in Tokens : began'[t] = IF t = token /\ began[token] = Unread THEN n ELSE began[t]
    BY <1>5, <2>1
  <2> QED
    BY <2>2, <2>3
<1>10. SeenOnChain'
  <2> SUFFICES ASSUME NEW t \in Tokens
               PROVE  /\ seen'[t] \subseteq 1..Len(transfers[t])
                      /\ began'[t] = Unread => seen'[t] = {}
    BY <1>2 DEF SeenOnChain
  <2>1. seen[t] \subseteq 1..Len(transfers[t]) /\ (began[t] = Unread => seen[t] = {})
    BY <1>1 DEF SeenOnChain
  <2>2. CASE t # token
    <3>1. seen'[t] = seen[t] /\ began'[t] = began[t]
      BY <1>9, <2>2
    <3> QED
      BY <2>1, <3>1
  <2>3. CASE t = token
    <3>1. seen'[t] = old \cup P /\ P \subseteq 1..n
      BY <1>3, <1>9, <2>3
    <3>2. began'[t] # Unread
      BY <1>3, <1>9, <2>3 DEF Unread
    <3> HIDE DEF P
    <3> QED
      BY <2>1, <2>3, <3>1, <3>2
  <2> QED
    BY <2>2, <2>3
<1>11. PayersHavePaid'
  <2> SUFFICES ASSUME NEW x \in Senders, payers'[x] > 0
               PROVE  \E t \in Tokens : \E k \in 1..Len(transfers[t]) :
                         /\ transfers[t][k].from = x /\ transfers[t][k].inbound
                         /\ transfers[t][k].amount > 0
    BY <1>2 DEF PayersHavePaid
  <2>1. CASE payers[x] > 0
    BY <1>1, <2>1 DEF PayersHavePaid
  <2>2. CASE ~ payers[x] > 0
    <3>1. Of(x) # {}
      <4>1. payers'[x] = payers[x] + credit(x) /\ payers[x] \in Nat
        BY <1>1, <1>5 DEF TallyTyped
      <4>2. Of(x) = {} => credit(x) = 0
        BY <1>7
      <4> HIDE DEF Of, credit
      <4> QED
        BY <2>2, <4>1, <4>2
    <3>2. PICK k \in Of(x) : TRUE
      BY <3>1
    <3>3. k \in P /\ transfers[token][k].from = x
      BY <3>2
    <3>4. k \in 1..n /\ Counts(transfers[token][k])
      <4> HIDE DEF P
      <4> QED
        BY <1>3, <3>3
    <3> QED
      BY <1>2, <3>3, <3>4 DEF Counts
  <2> QED
    BY <2>1, <2>2
<1>12. TwiceIsPushed'
  <2>1. /\ TxCount \in Nat /\ Again \in Nat
        /\ SumFunctionOnSet(SeenOf, Tokens) \in Nat
        /\ SumFunctionOnSet(ArrivedAt, Tokens) \in Nat
        /\ \A t \in Tokens : /\ ArrivedAt[t] \in Nat /\ IsFiniteSet(seen[t])
                             /\ SeenOf[t] = Cardinality(seen[t]) /\ SeenOf[t] \in Nat
    BY <1>1, TallyNumbers
  <2>2. TxCount' = TxCount + Cardinality(P)
    <3> DEFINE kind == [k \in P |-> transfers[token][k].amount]
               before == amounts
               after == amounts'
               of == [a \in Amounts |-> {k \in P : transfers[token][k].amount = a}]
    <3>1. \A k \in P : kind[k] \in Amounts
      BY <1>3
    <3>2. \A a \in Amounts : /\ of[a] = {k \in P : transfers[token][k].amount = a}
                             /\ \A k : k \in of[a] <=> k \in P /\ kind[k] = a
      OBVIOUS
    <3>3. \A a \in Amounts : before[a] \in Int
      BY <1>1 DEF TallyTyped
    <3> HIDE DEF kind, of, P
    <3>4. \A a \in Amounts : /\ before[a] \in Int
                             /\ after[a] = before[a] + Cardinality(of[a])
                             /\ \A k : k \in of[a] <=> k \in P /\ kind[k] = a
      BY <1>5, <3>2, <3>3
    <3>5. IsFiniteSet(Amounts) /\ IsFiniteSet(P)
      BY <1>3, PagingAssumption
    <3> HIDE DEF before, after
    <3>6. SumFunctionOnSet(after, Amounts) = SumFunctionOnSet(before, Amounts) + Cardinality(P)
      BY <3>1, <3>4, <3>5, SumTallied
    <3> QED
      BY <3>6 DEF before, after, TxCount
  <2>3. SumFunctionOnSet(SeenOf, Tokens)'
          = SumFunctionOnSet(SeenOf, Tokens) + Cardinality(P) - Cardinality(old \cap P)
    <3> DEFINE before == SeenOf
               after == [t \in Tokens |-> Cardinality(seen'[t])]
    <3>1. SeenOf' = after
      BY DEF SeenOf
    <3>2. /\ IsFiniteSet(old \cup P) /\ Cardinality(old \cup P) \in Nat
          /\ Cardinality(old \cap P) \in Nat
          /\ Cardinality(old \cup P) = Cardinality(old) + Cardinality(P) - Cardinality(old \cap P)
      <4>1. IsFiniteSet(old) /\ IsFiniteSet(P)
        BY <1>2, <1>3, <2>1
      <4> HIDE DEF old, P
      <4> QED
        BY <4>1, FS_Union, FS_Intersection, FS_CardinalityType
    <3> HIDE DEF P
    <3>3. /\ before[token] = Cardinality(old) /\ before[token] \in Nat
          /\ after[token] = Cardinality(old \cup P)
      BY <1>2, <1>9, <2>1
    <3>4. \A t \in Tokens \ {token} : before[t] = after[t]
      BY <1>9, <2>1
    <3>5. \A t \in Tokens : before[t] \in Int
      BY <2>1
    <3> HIDE DEF before, after
    <3>6. \A t \in Tokens : before[t] \in Int /\ after[t] \in Int
      BY <3>2, <3>3, <3>4, <3>5
    <3>7. IsFiniteSet(Tokens)
      BY TokensFinite
    <3>8. SumFunctionOnSet(after, Tokens)
            = SumFunctionOnSet(before, Tokens) - before[token] + after[token]
      BY <1>2, <3>4, <3>6, <3>7, SumMoved
    <3>9. SumFunctionOnSet(before, Tokens) \in Int
      BY <2>1 DEF before
    <3>10. SumFunctionOnSet(after, Tokens)
             = SumFunctionOnSet(before, Tokens) + Cardinality(P) - Cardinality(old \cap P)
      BY <1>3, <3>2, <3>3, <3>8, <3>9
    <3> QED
      BY <3>1, <3>10 DEF before
  <2>4. SumFunctionOnSet(ArrivedAt, Tokens)' = SumFunctionOnSet(ArrivedAt, Tokens)
    <3> DEFINE before == ArrivedAt
               after == ArrivedAt'
    <3>1. \A t \in Tokens : before[t] = after[t]
      <4> SUFFICES ASSUME NEW t \in Tokens PROVE ArrivedAt[t] = ArrivedAt'[t]
        OBVIOUS
      <4>1. /\ ArrivedAt[t] = IF began[t] = Unread THEN 0 ELSE Len(transfers[t]) - began[t]
            /\ ArrivedAt'[t] = IF began'[t] = Unread THEN 0 ELSE Len(transfers[t]) - began'[t]
        BY <1>2 DEF ArrivedAt
      <4>2. CASE t = token /\ began[token] = Unread
        <5>1. began'[t] = n /\ n # Unread /\ Len(transfers[t]) = n
          BY <1>3, <1>9, <4>2 DEF Unread
        <5> HIDE DEF n
        <5> QED
          BY <1>3, <4>1, <4>2, <5>1
      <4>3. CASE ~ (t = token /\ began[token] = Unread)
        BY <1>9, <4>1, <4>3
      <4> QED
        BY <4>2, <4>3
    <3> HIDE DEF before, after
    <3>2. SumFunctionOnSet(before, Tokens) = SumFunctionOnSet(after, Tokens)
      BY <3>1, SumSame
    <3> QED
      BY <3>2 DEF before, after
  <2>5. Again' \in Nat /\ Again' + Cardinality(old \cap P) <= Again
    <3> DEFINE all == ToComeAgain
               next == {k \in old : k <= n - (s + LIMIT)}
               both == old \cap P
    <3>1. Again = Cardinality(all) /\ all = {k \in old : k <= n - s}
      BY <1>2 DEF Again, ToComeAgain
    <3>2. IsFiniteSet(all) /\ old \subseteq Nat
      <4>1. IsFiniteSet(old) /\ old \subseteq 1..n
        BY <1>1, <1>2, <2>1 DEF SeenOnChain
      <4>2. all \subseteq old
        BY <3>1
      <4> HIDE DEF all, old, n
      <4>3. IsFiniteSet(all)
        BY <4>1, <4>2, FS_Subset
      <4> QED
        BY <4>1, <4>3
    <3>3. both \subseteq all
      <4> HIDE DEF P, all
      <4> QED
        BY <1>3, <3>1
    <3>4. IsFiniteSet(both) /\ Cardinality(both) \in Nat /\ Cardinality(both) <= Cardinality(all)
      <4> HIDE DEF both, all
      <4> QED
        BY <3>2, <3>3, FS_Subset, FS_CardinalityType
    <3>5. CASE LastPage(token, page)
      <4>1. token' = token + 1 /\ page' = 1
        BY <1>6, <3>5
      <4>2. Again' = 0
        <5>1. CASE token' \notin Tokens
          BY <5>1 DEF Again
        <5>2. CASE token' \in Tokens
          <6>1. token' > token /\ token' # token
            BY <1>2, <4>1 DEF Tokens
          <6>2. began[token'] = Unread
            BY <1>1, <5>2, <6>1 DEF BegunInTurn
          <6>3. seen[token'] = {}
            BY <1>1, <5>2, <6>2 DEF SeenOnChain
          <6>4. seen'[token'] = seen[token']
            BY <1>9, <5>2, <6>1
          <6>5. ToComeAgain' = {}
            BY <6>3, <6>4 DEF ToComeAgain
          <6> QED
            BY <5>2, <6>5, FS_EmptySet DEF Again
        <5> QED
          BY <5>1, <5>2
      <4> HIDE DEF all, both
      <4> QED
        BY <2>1, <3>1, <3>4, <4>2 DEF both
    <3>6. CASE ~ LastPage(token, page)
      <4>1. token' = token /\ page' = page + 1
        BY <1>6, <3>6
      <4>2. Again' = Cardinality(next)
        <5>1. Skipped(page)' = s + LIMIT
          BY <1>3, <4>1 DEF Skipped
        <5>2. seen'[token] = old \cup P
          BY <1>2, <1>9
        <5>3. ToComeAgain' = {k \in old \cup P : k <= n - (s + LIMIT)}
          BY <1>2, <4>1, <5>1, <5>2 DEF ToComeAgain
        <5>4. {k \in old \cup P : k <= n - (s + LIMIT)} = next
          <6> HIDE DEF P, old
          <6> QED
            BY <1>3, <3>6
        <5> HIDE DEF next
        <5> QED
          BY <1>2, <4>1, <5>3, <5>4 DEF Again
      <4>3. next \subseteq all /\ next \cap both = {}
        <5>1. LIMIT \in Nat
          BY LimitNat
        <5>2. next \subseteq all
          <6> SUFFICES ASSUME NEW k \in old, k <= n - (s + LIMIT) PROVE k <= n - s
            BY <3>1
          <6>1. k \in Nat
            BY <3>2
          <6> HIDE DEF n, s
          <6> QED
            BY <1>3, <5>1, <6>1
        <5>3. next \cap both = {}
          <6> HIDE DEF n, s, P
          <6> QED
            BY <1>3, <3>6
        <5> QED
          BY <5>2, <5>3
      <4> HIDE DEF next, all, both
      <4>4. IsFiniteSet(next) /\ Cardinality(next) \in Nat
        BY <3>2, <4>3, FS_Subset, FS_CardinalityType
      <4>5. next \cup both \subseteq all
        BY <3>3, <4>3
      <4>6. Cardinality(next \cup both) = Cardinality(next) + Cardinality(both)
        <5>1. Cardinality(next \cup both)
                = Cardinality(next) + Cardinality(both) - Cardinality(next \cap both)
          BY <3>4, <4>4, FS_Union
        <5>2. Cardinality(next \cap both) = 0
          BY <4>3, FS_EmptySet
        <5> QED
          BY <3>4, <4>4, <5>1, <5>2
      <4>7. Cardinality(next \cup both) <= Cardinality(all)
        BY <3>2, <4>5, FS_Subset
      <4> QED
        BY <3>1, <3>4, <4>2, <4>4, <4>6, <4>7 DEF both
    <3> QED
      BY <3>5, <3>6
  <2>6. TxCount - SumFunctionOnSet(SeenOf, Tokens) + Again <= SumFunctionOnSet(ArrivedAt, Tokens)
    BY <1>1 DEF TwiceIsPushed
  <2>7. Cardinality(old \cap P) \in Nat
    <3>1. IsFiniteSet(old)
      BY <1>2, <2>1
    <3> HIDE DEF old, P
    <3> QED
      BY <3>1, FS_Intersection, FS_CardinalityType
  <2> HIDE DEF old, P
  <2>8. TxCount' - SumFunctionOnSet(SeenOf, Tokens)' + Again' <= SumFunctionOnSet(ArrivedAt, Tokens)
    BY <1>3, <2>1, <2>2, <2>3, <2>5, <2>6, <2>7
  <2> QED
    BY <2>4, <2>8 DEF TwiceIsPushed
<1> QED
  BY <1>4, <1>8, <1>10, <1>11, <1>12 DEF TallyInv

(* An answer without a list adds nothing to tx_count, and of the token it  *)
(* ends nothing comes again.                                               *)
LEMMA ReadNoListTallies == ASSUME TallyInv, ReadNoList PROVE TallyInv'
<1>1. /\ PagingInv /\ TallyTyped /\ SeenOnChain /\ PayersHavePaid /\ TwiceIsPushed
      /\ PagingTyped /\ BegunInTurn
  BY DEF TallyInv, PagingInv
<1> DEFINE n == Len(transfers[token])
<1>2. /\ outcome = "reading" /\ token \in Tokens
      /\ token' = token + 1 /\ page' = 1
      /\ outcome' = IF token = TOKENS THEN "read" ELSE outcome
      /\ began' = IF began[token] = Unread THEN [began EXCEPT ![token] = n] ELSE began
      /\ transfers' = transfers /\ payers' = payers /\ amounts' = amounts /\ seen' = seen
  BY DEF ReadNoList, NextToken, Begun, chain
<1>3. PagingInv'
  BY <1>1, ReadNoListKeeps
<1>4. n \in Nat /\ n # Unread
  BY <1>1, <1>2 DEF PagingTyped, Unread
<1>5. \A t \in Tokens : began'[t] = IF t = token /\ began[token] = Unread THEN n ELSE began[t]
  <2>1. began \in [Tokens -> Nat \cup {Unread}]
    BY <1>1 DEF PagingTyped
  <2> HIDE DEF n
  <2> QED
    BY <1>2, <2>1
<1>6. TallyTyped'
  <2>1. token \in 1..TOKENS /\ TOKENS \in Nat
    BY <1>2, LimitNat DEF Tokens
  <2> QED
    BY <1>1, <1>2, <2>1 DEF TallyTyped, Tokens
<1>7. SeenOnChain'
  <2> HIDE DEF n
  <2> QED
    BY <1>1, <1>2, <1>4, <1>5 DEF SeenOnChain
<1>8. PayersHavePaid'
  BY <1>1, <1>2 DEF PayersHavePaid
<1>9. TwiceIsPushed'
  <2>1. /\ TxCount \in Nat /\ Again \in Nat
        /\ SumFunctionOnSet(SeenOf, Tokens) \in Nat
        /\ SumFunctionOnSet(ArrivedAt, Tokens) \in Nat
    BY <1>1, TallyNumbers
  <2>2. TxCount' = TxCount /\ SumFunctionOnSet(SeenOf, Tokens)' = SumFunctionOnSet(SeenOf, Tokens)
    BY <1>2 DEF TxCount, SeenOf
  <2>3. SumFunctionOnSet(ArrivedAt, Tokens)' = SumFunctionOnSet(ArrivedAt, Tokens)
    <3> DEFINE before == ArrivedAt
               after == ArrivedAt'
    <3>1. \A t \in Tokens : before[t] = after[t]
      <4> SUFFICES ASSUME NEW t \in Tokens PROVE ArrivedAt[t] = ArrivedAt'[t]
        OBVIOUS
      <4>1. /\ ArrivedAt[t] = IF began[t] = Unread THEN 0 ELSE Len(transfers[t]) - began[t]
            /\ ArrivedAt'[t] = IF began'[t] = Unread THEN 0 ELSE Len(transfers[t]) - began'[t]
        BY <1>2 DEF ArrivedAt
      <4>2. CASE t = token /\ began[token] = Unread
        <5>1. began'[t] = n /\ n # Unread /\ Len(transfers[t]) = n
          BY <1>4, <1>5, <4>2
        <5> HIDE DEF n
        <5> QED
          BY <1>4, <4>1, <4>2, <5>1
      <4>3. CASE ~ (t = token /\ began[token] = Unread)
        BY <1>5, <4>1, <4>3
      <4> QED
        BY <4>2, <4>3
    <3> HIDE DEF before, after
    <3>2. SumFunctionOnSet(before, Tokens) = SumFunctionOnSet(after, Tokens)
      BY <3>1, SumSame
    <3> QED
      BY <3>2 DEF before, after
  <2>4. Again' = 0
    <3>1. CASE token' \notin Tokens
      BY <3>1 DEF Again
    <3>2. CASE token' \in Tokens
      <4>1. token' > token
        BY <1>2 DEF Tokens
      <4>2. seen[token'] = {}
        BY <1>1, <3>2, <4>1 DEF BegunInTurn, SeenOnChain
      <4>3. ToComeAgain' = {}
        BY <1>2, <4>2 DEF ToComeAgain
      <4> QED
        BY <3>2, <4>3, FS_EmptySet DEF Again
    <3> QED
      BY <3>1, <3>2
  <2>5. TxCount - SumFunctionOnSet(SeenOf, Tokens) + Again <= SumFunctionOnSet(ArrivedAt, Tokens)
    BY <1>1 DEF TwiceIsPushed
  <2>6. TxCount' - SumFunctionOnSet(SeenOf, Tokens)' + Again' <= SumFunctionOnSet(ArrivedAt, Tokens)
    BY <2>1, <2>2, <2>4, <2>5
  <2> QED
    BY <2>3, <2>6 DEF TwiceIsPushed
<1> QED
  BY <1>3, <1>6, <1>7, <1>8, <1>9 DEF TallyInv

LEMMA TallyHolds == Spec => []TallyInv
<1>1. Init => TallyInv
  BY TallyInit
<1>2. TallyInv /\ [Next]_vars => TallyInv'
  <2> SUFFICES ASSUME TallyInv, [Next]_vars PROVE TallyInv'
    OBVIOUS
  <2>1. ASSUME NEW u \in Tokens, NEW tx \in Transfers, Transferred(u, tx) PROVE TallyInv'
    BY <2>1, TransferredTallies
  <2>2. CASE ReadPage
    BY <2>2, ReadPageTallies
  <2>3. CASE ReadNoList
    BY <2>3, ReadNoListTallies
  <2>4. ASSUME UNCHANGED <<transfers, token, page, payers, amounts, began, seen, reach>>,
               outcome' \in {"none", "raised", outcome}
        PROVE  TallyInv'
    <3>1. PagingInv'
      BY <2>4 DEF TallyInv, PagingInv, PagingTyped, BegunInTurn, UncountedBelow, UncutYet,
                  MissedIsOutOfReach, MissedBeyond, Finished, Skipped
    <3>2. TallyTyped' /\ SeenOnChain' /\ PayersHavePaid'
      BY <2>4 DEF TallyInv, TallyTyped, SeenOnChain, PayersHavePaid
    <3>3. TwiceIsPushed'
      BY <2>4 DEF TallyInv, TwiceIsPushed, TxCount, SeenOf, ArrivedAt, Again, ToComeAgain, Skipped
    <3> QED
      BY <3>1, <3>2, <3>3 DEF TallyInv
  <2>5. CASE Fail \/ Raise
    BY <2>4, <2>5 DEF Fail, Raise, chain
  <2>6. CASE UNCHANGED vars
    BY <2>4, <2>6 DEF vars, chain, reader
  <2> QED
    BY <2>1, <2>2, <2>3, <2>5, <2>6 DEF Next
<1> QED
  BY <1>1, <1>2, PTL DEF Spec

(* The reader of fetch_settlements() keeps its counters in their domains:  *)
(* no page past the last one (settlement.py:87), and no token read after   *)
(* the last one (settlement.py:85).                                        *)
THEOREM PagingIsTyped == Spec => []TypeOK
<1>1. TallyInv => TypeOK
  BY DEF TallyInv, PagingInv, PagingTyped, TallyTyped, TypeOK
<1> QED
  BY <1>1, TallyHolds, PTL

(* distinct_payers (settlement.py:109) never counts an address that did    *)
(* not send the wallet an amount, whatever the pages showed twice.         *)
THEOREM PayersPaid == Spec => []PayersHavePaid
<1>1. TallyInv => PayersHavePaid
  BY DEF TallyInv
<1> QED
  BY <1>1, TallyHolds, PTL

(* tx_count (settlement.py:112) exceeds the transfers the reader has seen  *)
(* by no more than arrived since it began with each token.                 *)
THEOREM TwiceCountedArrived == Spec => []OvercountIsArrivals
<1>1. TallyInv => OvercountIsArrivals
  <2> SUFFICES ASSUME TallyInv PROVE OvercountIsArrivals
    OBVIOUS
  <2>1. /\ TxCount \in Nat /\ Again \in Nat
        /\ SumFunctionOnSet(SeenOf, Tokens) \in Nat
        /\ SumFunctionOnSet(ArrivedAt, Tokens) \in Nat
    BY TallyNumbers DEF TallyInv, PagingInv
  <2>2. TxCount - SumFunctionOnSet(SeenOf, Tokens) + Again <= SumFunctionOnSet(ArrivedAt, Tokens)
    BY DEF TallyInv, TwiceIsPushed
  <2>3. TxCount - SumFunctionOnSet(SeenOf, Tokens) <= SumFunctionOnSet(ArrivedAt, Tokens)
    BY <2>1, <2>2
  <2> DEFINE Listed(a) == amounts[a]
             Had(t) == Cardinality(seen[t])
             Came(t) == IF began[t] = Unread THEN 0 ELSE Len(transfers[t]) - began[t]
  <2>4. MapThenSumSet(Listed, Amounts) = TxCount
    <3>1. TallyTyped
      BY DEF TallyInv
    <3>2. amounts = [a \in Amounts |-> Listed(a)]
      BY <3>1 DEF TallyTyped
    <3>3. MapThenSumSet(Listed, Amounts) = SumFunctionOnSet([a \in Amounts |-> Listed(a)], Amounts)
      BY DEF SumFunctionOnSet, FoldFunctionOnSet, MapThenSumSet, MapThenFoldSet
    <3> HIDE DEF Listed
    <3> QED
      BY <3>2, <3>3 DEF TxCount
  <2>5. MapThenSumSet(Had, Tokens) = SumFunctionOnSet(SeenOf, Tokens)
    BY DEF SeenOf, SumFunctionOnSet, FoldFunctionOnSet, MapThenSumSet, MapThenFoldSet
  <2>6. MapThenSumSet(Came, Tokens) = SumFunctionOnSet(ArrivedAt, Tokens)
    BY DEF ArrivedAt, SumFunctionOnSet, FoldFunctionOnSet, MapThenSumSet, MapThenFoldSet
  <2> QED
    BY <2>3, <2>4, <2>5, <2>6 DEF OvercountIsArrivals
<1> QED
  BY <1>1, TallyHolds, PTL
=============================================================================
