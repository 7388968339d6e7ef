--------------------------------- MODULE Sums ---------------------------------
(***************************************************************************)
(* What a sum over a finite set of whole numbers is, whatever order the    *)
(* fold of the library takes the terms in.  The models count with          *)
(* MapThenSumSet() and SumFunctionOnSet(); both evaluate the same          *)
(* recursive function.                                                     *)
(*                                                                         *)
(* Every induction here is over the subsets of one finite set, put as:     *)
(* there is no smallest set for which the statement is false.              *)
(***************************************************************************)
EXTENDS Integers, FiniteSets, FiniteSetsExt, Functions, FiniteSetTheorems, TLAPS

(* A family of finite sets that is not empty has a smallest member.        *)
LEMMA SmallestMember ==
  ASSUME NEW S, IsFiniteSet(S), NEW F, F \subseteq SUBSET S, F # {}
  PROVE  \E T \in F : \A U \in F : U \subseteq T => U = T
<1>1. F \subseteq FiniteSubsetsOf(S)
  BY FS_Subset DEF FiniteSubsetsOf
<1>2. PICK T \in F : \A U \in F : ~(<<U, T>> \in StrictSubsetOrdering(S))
  BY <1>1, FS_StrictSubsetOrderingWellFounded, WFMin
<1>3. ASSUME NEW U \in F, U \subseteq T, U # T  PROVE FALSE
  BY <1>1, <1>2, <1>3 DEF StrictSubsetOrdering, FiniteSubsetsOf
<1> QED
  BY <1>3

(* The recursive function SumFunctionOnSet() evaluates.                    *)
First(T) == CHOOSE x \in T : TRUE

Evaluates(f, S, g) ==
  g = [T \in SUBSET S |-> IF T = {} THEN 0 ELSE f[First(T)] + g[T \ {First(T)}]]

LEMMA SumUnfolded ==
  ASSUME NEW f, NEW S
  PROVE  SumFunctionOnSet(f, S) = (CHOOSE g : Evaluates(f, S, g))[S]
BY DEF SumFunctionOnSet, FoldFunctionOnSet, MapThenFoldSet, Evaluates, First

LEMMA FirstIn == ASSUME NEW T, T # {} PROVE First(T) \in T
BY DEF First

(* There is one: it is built up by the size of the sets.                   *)
LEMMA EvaluatorExists ==
  ASSUME NEW S, IsFiniteSet(S), NEW f, \A x \in S : f[x] \in Int
  PROVE  \E g \in [SUBSET S -> Int] : Evaluates(f, S, g)
<1> DEFINE Upto(n) == {T \in SUBSET S : Cardinality(T) <= n}
           Good(n, g) == /\ g \in [Upto(n) -> Int]
                         /\ \A T \in Upto(n) :
                               g[T] = IF T = {} THEN 0 ELSE f[First(T)] + g[T \ {First(T)}]
           Bad == {n \in Nat : ~ \E g : Good(n, g)}
<1>1. \A T \in SUBSET S : /\ IsFiniteSet(T) /\ Cardinality(T) \in Nat
                          /\ Cardinality(T) = 0 <=> T = {}
                          /\ \A x \in T : Cardinality(T \ {x}) = Cardinality(T) - 1
  BY FS_Subset, FS_CardinalityType, FS_EmptySet, FS_RemoveElement
<1>2. ASSUME NEW n \in Nat, n # 0, NEW g, Good(n - 1, g)
      PROVE  \E k : Good(n, k)
  <2> DEFINE k == [T \in Upto(n) |-> IF T = {} THEN 0 ELSE f[First(T)] + g[T \ {First(T)}]]
  <2>1. ASSUME NEW T \in Upto(n), T # {}
        PROVE  /\ T \ {First(T)} \in Upto(n - 1) /\ T \ {First(T)} \in Upto(n)
               /\ First(T) \in S /\ f[First(T)] \in Int
               /\ g[T \ {First(T)}] \in Int
    <3>1. First(T) \in T
      BY <2>1, FirstIn
    <3>2. T \ {First(T)} \in Upto(n - 1) /\ T \ {First(T)} \in Upto(n)
      BY <3>1, <1>1
    <3> QED
      BY <3>1, <3>2, <1>2
  <2>2. k \in [Upto(n) -> Int]
    <3>1. ASSUME NEW T \in Upto(n)
          PROVE  (IF T = {} THEN 0 ELSE f[First(T)] + g[T \ {First(T)}]) \in Int
      <4>1. CASE T = {}
        BY <4>1
      <4>2. CASE T # {}
        <5>1. f[First(T)] \in Int /\ g[T \ {First(T)}] \in Int
          BY <2>1, <4>2
        <5> QED
          BY <4>2, <5>1
      <4> QED
        BY <4>1, <4>2
    <3> HIDE DEF Upto
    <3> QED
      BY <3>1
  <2>3. \A T \in Upto(n - 1) : k[T] = g[T]
    BY <1>1, <1>2
  <2>4. \A T \in Upto(n) : k[T] = IF T = {} THEN 0 ELSE f[First(T)] + k[T \ {First(T)}]
    <3> SUFFICES ASSUME NEW T \in Upto(n), T # {}
                 PROVE  k[T] = f[First(T)] + k[T \ {First(T)}]
      OBVIOUS
    <3>1. k[T] = f[First(T)] + g[T \ {First(T)}]
      OBVIOUS
    <3> HIDE DEF k
    <3> QED
      BY <3>1, <2>1, <2>3
  <2> HIDE DEF k
  <2> QED
    BY <2>2, <2>4
<1>3. \E g : Good(0, g)
  <2> DEFINE k == [T \in Upto(0) |-> 0]
  <2>1. \A T \in Upto(0) : T = {}
    BY <1>1
  <2>2. Good(0, k)
    BY <2>1
  <2> HIDE DEF k
  <2> QED
    BY <2>2
<1>4. Bad = {}
  <2> SUFFICES ASSUME Bad # {} PROVE FALSE
    OBVIOUS
  <2> HIDE DEF Good
  <2>1. PICK n \in Bad : \A m \in Bad : ~(<<m, n>> \in OpToRel(<, Nat))
    <3>1. Bad \subseteq Nat
      OBVIOUS
    <3> HIDE DEF Bad
    <3> QED
      BY <3>1, NatLessThanWellFounded, WFMin
  <2>2. \A m \in Bad : m \in Nat /\ ~(m < n)
    BY <2>1 DEF OpToRel
  <2>3. n # 0 /\ n \in Nat
    BY <1>3
  <2>4. n - 1 \in Nat /\ n - 1 < n
    BY <2>3
  <2>5. PICK g : Good(n - 1, g)
    BY <2>2, <2>4
  <2> QED
    BY <2>3, <2>5, <1>2
<1>5. Cardinality(S) \in Nat /\ Upto(Cardinality(S)) = SUBSET S
  BY FS_CardinalityType, FS_Subset
<1> HIDE DEF Good
<1>6. PICK g : Good(Cardinality(S), g)
  BY <1>4, <1>5
<1>7. /\ g \in [SUBSET S -> Int]
      /\ \A T \in SUBSET S : g[T] = IF T = {} THEN 0 ELSE f[First(T)] + g[T \ {First(T)}]
  BY <1>5, <1>6 DEF Good
<1> QED
  BY <1>7 DEF Evaluates

(* And no more than one, on whatever larger set it is evaluated.           *)
LEMMA EvaluatorUnique ==
  ASSUME NEW S, IsFiniteSet(S), NEW R \in SUBSET S, NEW f, NEW g, NEW h,
         Evaluates(f, S, g), Evaluates(f, R, h)
  PROVE  \A T \in SUBSET R : g[T] = h[T]
<1> DEFINE Bad == {T \in SUBSET R : g[T] # h[T]}
<1> SUFFICES ASSUME Bad # {} PROVE FALSE
  OBVIOUS
<1>1. PICK T \in Bad : \A U \in Bad : U \subseteq T => U = T
  <2>1. IsFiniteSet(R)
    BY FS_Subset
  <2>2. Bad \subseteq SUBSET R
    OBVIOUS
  <2> HIDE DEF Bad
  <2> QED
    BY <2>1, <2>2, SmallestMember
<1>2. T \in SUBSET R /\ T \in SUBSET S
  OBVIOUS
<1>3. /\ g[T] = IF T = {} THEN 0 ELSE f[First(T)] + g[T \ {First(T)}]
      /\ h[T] = IF T = {} THEN 0 ELSE f[First(T)] + h[T \ {First(T)}]
  BY <1>2 DEF Evaluates
<1>4. T # {}
  BY <1>3
<1>5. First(T) \in T
  BY <1>4, FirstIn
<1>6. g[T \ {First(T)}] = h[T \ {First(T)}]
  BY <1>1, <1>2, <1>5
<1> QED
  BY <1>3, <1>4, <1>6

LEMMA SumFirst ==
  ASSUME NEW S, IsFiniteSet(S), NEW f, \A x \in S : f[x] \in Int
  PROVE  /\ SumFunctionOnSet(f, S) \in Int
         /\ S = {} => SumFunctionOnSet(f, S) = 0
         /\ S # {} => SumFunctionOnSet(f, S)
                        = f[First(S)] + SumFunctionOnSet(f, S \ {First(S)})
<1> DEFINE R == S \ {First(S)}
           g == CHOOSE k : Evaluates(f, S, k)
           h == CHOOSE k : Evaluates(f, R, k)
<1>1. PICK k \in [SUBSET S -> Int] : Evaluates(f, S, k)
  BY EvaluatorExists
<1>2. Evaluates(f, S, g)
  BY <1>1
<1>3. Evaluates(f, R, h)
  <2>1. IsFiniteSet(R) /\ \A x \in R : f[x] \in Int
    BY FS_RemoveElement
  <2> HIDE DEF R
  <2>2. \E j : Evaluates(f, R, j)
    BY <2>1, EvaluatorExists
  <2> QED
    BY <2>2
<1>4. SumFunctionOnSet(f, S) = g[S] /\ SumFunctionOnSet(f, R) = h[R]
  BY SumUnfolded
<1> HIDE DEF g, h
<1>5. \A T \in SUBSET S : g[T] = k[T]
  BY <1>1, <1>2, EvaluatorUnique
<1>6. g[R] = h[R]
  <2>1. R \in SUBSET S
    OBVIOUS
  <2> HIDE DEF R
  <2> QED
    BY <2>1, <1>2, <1>3, EvaluatorUnique
<1>7. g[S] = IF S = {} THEN 0 ELSE f[First(S)] + g[R]
  BY <1>2 DEF Evaluates
<1>8. g[S] \in Int
  BY <1>1, <1>5
<1> QED
  BY <1>4, <1>6, <1>7, <1>8

(* The sum does not depend on the order the terms are taken in.            *)
LEMMA SumSplit ==
  ASSUME NEW S, IsFiniteSet(S), NEW f, \A x \in S : f[x] \in Int, NEW x \in S
  PROVE  SumFunctionOnSet(f, S) = f[x] + SumFunctionOnSet(f, S \ {x})
<1> DEFINE Sum(T) == SumFunctionOnSet(f, T)
           Bad == {T \in SUBSET S : \E y \in T : Sum(T) # f[y] + Sum(T \ {y})}
<1>1. \A T \in SUBSET S : /\ IsFiniteSet(T) /\ Sum(T) \in Int
                          /\ T # {} => Sum(T) = f[First(T)] + Sum(T \ {First(T)})
  <2>1. ASSUME NEW T \in SUBSET S PROVE IsFiniteSet(T) /\ \A y \in T : f[y] \in Int
    BY FS_Subset
  <2> QED
    BY <2>1, SumFirst
<1> HIDE DEF Sum
<1> SUFFICES ASSUME Bad # {} PROVE FALSE
  BY DEF Sum
<1>2. PICK T \in Bad : \A U \in Bad : U \subseteq T => U = T
  <2>1. Bad \subseteq SUBSET S
    OBVIOUS
  <2> HIDE DEF Bad
  <2> QED
    BY <2>1, SmallestMember
<1>3. PICK y \in T : Sum(T) # f[y] + Sum(T \ {y})
  OBVIOUS
<1> DEFINE c == First(T)
<1>4. c \in T /\ T \in SUBSET S /\ f[c] \in Int /\ f[y] \in Int
  BY <1>3, FirstIn
<1>5. Sum(T) = f[c] + Sum(T \ {c})
  BY <1>1, <1>3, <1>4
<1> HIDE DEF c
<1>6. c # y
  BY <1>3, <1>5
<1>7. /\ T \ {c} \in SUBSET S /\ T \ {c} \notin Bad /\ y \in T \ {c}
      /\ T \ {y} \in SUBSET S /\ T \ {y} \notin Bad /\ c \in T \ {y}
  BY <1>2, <1>3, <1>4, <1>6
<1>8. Sum(T \ {c}) = f[y] + Sum((T \ {c}) \ {y})
  BY <1>7
<1>9. Sum(T \ {y}) = f[c] + Sum((T \ {y}) \ {c})
  BY <1>7
<1>10. /\ (T \ {c}) \ {y} = (T \ {y}) \ {c}
       /\ Sum((T \ {y}) \ {c}) \in Int /\ Sum(T \ {y}) \in Int /\ Sum(T) \in Int
  <2>1. (T \ {y}) \ {c} \in SUBSET S
    BY <1>4
  <2> QED
    BY <2>1, <1>1, <1>4, <1>7
<1> DEFINE rest == Sum((T \ {y}) \ {c})
<1>11. Sum((T \ {c}) \ {y}) = rest /\ rest \in Int
  BY <1>10
<1>12. Sum(T \ {c}) = f[y] + rest /\ Sum(T \ {y}) = f[c] + rest
  BY <1>8, <1>9, <1>11
<1> HIDE DEF rest
<1>13. \A i, j, k \in Int : i + (j + k) = j + (i + k)
  OBVIOUS
<1>14. Sum(T) = f[c] + (f[y] + rest) /\ f[y] + Sum(T \ {y}) = f[y] + (f[c] + rest)
  BY <1>5, <1>12
<1> QED
  BY <1>3, <1>4, <1>11, <1>13, <1>14

-----------------------------------------------------------------------------
(* Sums of naturals.                                                       *)

LEMMA SumNat ==
  ASSUME NEW S, IsFiniteSet(S), NEW f, \A x \in S : f[x] \in Nat
  PROVE  SumFunctionOnSet(f, S) \in Nat
<1> DEFINE Bad == {T \in SUBSET S : SumFunctionOnSet(f, T) \notin Nat}
<1> SUFFICES ASSUME Bad # {} PROVE FALSE
  OBVIOUS
<1>1. PICK T \in Bad : \A U \in Bad : U \subseteq T => U = T
  <2>1. Bad \subseteq SUBSET S
    OBVIOUS
  <2> HIDE DEF Bad
  <2> QED
    BY <2>1, SmallestMember
<1>2. T \in SUBSET S /\ IsFiniteSet(T) /\ \A x \in T : f[x] \in Int
  BY FS_Subset
<1>3. T # {}
  <2>1. T = {} => SumFunctionOnSet(f, T) = 0
    BY <1>2, SumFirst
  <2> QED
    BY <2>1
<1>4. First(T) \in T /\ f[First(T)] \in Nat
  BY <1>2, <1>3, FirstIn
<1>5. SumFunctionOnSet(f, T \ {First(T)}) \in Nat
  BY <1>1, <1>2, <1>4
<1>6. SumFunctionOnSet(f, T) = f[First(T)] + SumFunctionOnSet(f, T \ {First(T)})
  BY <1>2, <1>3, SumFirst
<1> QED
  BY <1>4, <1>5, <1>6

(* No term is more than the sum.                                           *)
LEMMA TermInSum ==
  ASSUME NEW S, IsFiniteSet(S), NEW f, \A x \in S : f[x] \in Nat, NEW x \in S
  PROVE  f[x] <= SumFunctionOnSet(f, S)
<1>1. SumFunctionOnSet(f, S) = f[x] + SumFunctionOnSet(f, S \ {x})
  BY SumSplit
<1>2. SumFunctionOnSet(f, S \ {x}) \in Nat
  BY FS_RemoveElement, SumNat
<1> QED
  BY <1>1, <1>2

(* Where nothing is added up, the sum is 0.                                *)
LEMMA SumZero ==
  ASSUME NEW S, IsFiniteSet(S), NEW f, \A x \in S : f[x] = 0
  PROVE  SumFunctionOnSet(f, S) = 0
<1> DEFINE Bad == {T \in SUBSET S : SumFunctionOnSet(f, T) # 0}
<1> SUFFICES ASSUME Bad # {} PROVE FALSE
  OBVIOUS
<1>1. PICK T \in Bad : \A U \in Bad : U \subseteq T => U = T
  <2>1. Bad \subseteq SUBSET S
    OBVIOUS
  <2> HIDE DEF Bad
  <2> QED
    BY <2>1, SmallestMember
<1>2. T \in SUBSET S /\ IsFiniteSet(T) /\ \A x \in T : f[x] \in Int
  BY FS_Subset
<1>3. T # {}
  <2>1. T = {} => SumFunctionOnSet(f, T) = 0
    BY <1>2, SumFirst
  <2> QED
    BY <2>1
<1>4. First(T) \in T /\ f[First(T)] = 0
  BY <1>2, <1>3, FirstIn
<1>5. SumFunctionOnSet(f, T \ {First(T)}) = 0
  BY <1>1, <1>2, <1>4
<1>6. SumFunctionOnSet(f, T) = f[First(T)] + SumFunctionOnSet(f, T \ {First(T)})
  BY <1>2, <1>3, SumFirst
<1> QED
  BY <1>4, <1>5, <1>6

(* The sum depends on the terms only.                                      *)
LEMMA SumSame ==
  ASSUME NEW S, NEW f, NEW g, \A x \in S : f[x] = g[x]
  PROVE  SumFunctionOnSet(f, S) = SumFunctionOnSet(g, S)
<1>1. ASSUME NEW k
      PROVE  Evaluates(f, S, k) <=> Evaluates(g, S, k)
  <2>1. ASSUME NEW T \in SUBSET S
        PROVE  (IF T = {} THEN 0 ELSE f[First(T)] + k[T \ {First(T)}])
                 = (IF T = {} THEN 0 ELSE g[First(T)] + k[T \ {First(T)}])
    BY FirstIn
  <2> QED
    BY <2>1 DEF Evaluates
<1>2. (CHOOSE k : Evaluates(f, S, k)) = (CHOOSE k : Evaluates(g, S, k))
  BY <1>1
<1> QED
  BY <1>2, SumUnfolded

(* When one term changes, the sum changes by as much.                      *)
LEMMA SumMoved ==
  ASSUME NEW S, IsFiniteSet(S), NEW x \in S, NEW f, NEW g,
         \A y \in S : f[y] \in Int /\ g[y] \in Int,
         \A y \in S \ {x} : f[y] = g[y]
  PROVE  SumFunctionOnSet(g, S) = SumFunctionOnSet(f, S) - f[x] + g[x]
<1>1. /\ SumFunctionOnSet(f, S) = f[x] + SumFunctionOnSet(f, S \ {x})
      /\ SumFunctionOnSet(g, S) = g[x] + SumFunctionOnSet(g, S \ {x})
  BY SumSplit
<1>2. SumFunctionOnSet(f, S \ {x}) = SumFunctionOnSet(g, S \ {x})
  BY SumSame
<1>3. SumFunctionOnSet(g, S \ {x}) \in Int
  BY FS_RemoveElement, SumFirst
<1> QED
  BY <1>1, <1>2, <1>3

(* No term grows, so the sum does not.                                     *)
LEMMA SumMonotone ==
  ASSUME NEW S, IsFiniteSet(S), NEW f, NEW g,
         \A x \in S : f[x] \in Int /\ g[x] \in Int /\ f[x] <= g[x]
  PROVE  SumFunctionOnSet(f, S) <= SumFunctionOnSet(g, S)
<1> DEFINE Bad == {T \in SUBSET S : ~(SumFunctionOnSet(f, T) <= SumFunctionOnSet(g, T))}
<1> SUFFICES ASSUME Bad # {} PROVE FALSE
  OBVIOUS
<1>1. PICK T \in Bad : \A U \in Bad : U \subseteq T => U = T
  <2>1. Bad \subseteq SUBSET S
    OBVIOUS
  <2> HIDE DEF Bad
  <2> QED
    BY <2>1, SmallestMember
<1>2. T \in SUBSET S /\ IsFiniteSet(T) /\ \A x \in T : f[x] \in Int /\ g[x] \in Int
  BY FS_Subset
<1>3. T # {}
  <2>1. T = {} => SumFunctionOnSet(f, T) = 0 /\ SumFunctionOnSet(g, T) = 0
    BY <1>2, SumFirst
  <2> QED
    BY <2>1
<1> DEFINE c == First(T)
           R == T \ {c}
<1>4. c \in T /\ f[c] <= g[c] /\ f[c] \in Int /\ g[c] \in Int
  BY <1>2, <1>3, FirstIn
<1>5. SumFunctionOnSet(f, R) <= SumFunctionOnSet(g, R)
  BY <1>1, <1>2, <1>4
<1>6. /\ SumFunctionOnSet(f, T) = f[c] + SumFunctionOnSet(f, R)
      /\ SumFunctionOnSet(g, T) = g[c] + SumFunctionOnSet(g, R)
  BY <1>2, <1>3, SumFirst
<1>7. IsFiniteSet(R) /\ \A x \in R : f[x] \in Int /\ g[x] \in Int
  BY <1>2, FS_RemoveElement
<1> HIDE DEF c, R
<1>8. SumFunctionOnSet(f, R) \in Int /\ SumFunctionOnSet(g, R) \in Int
  BY <1>7, SumFirst
<1> QED
  BY <1>4, <1>5, <1>6, <1>8

(* Counting the members of P by their kind adds one for each of them.      *)
LEMMA SumTallied ==
  ASSUME NEW S, IsFiniteSet(S), NEW P, IsFiniteSet(P), NEW kind, \A k \in P : kind[k] \in S,
         NEW f, NEW g, NEW of,
         \A x \in S : /\ f[x] \in Int
                      /\ g[x] = f[x] + Cardinality(of[x])
                      /\ \A k : k \in of[x] <=> k \in P /\ kind[k] = x
  PROVE  SumFunctionOnSet(g, S) = SumFunctionOnSet(f, S) + Cardinality(P)
<1> DEFINE Of(Q, x) == {k \in Q : kind[k] = x}
           G(Q) == [x \in S |-> f[x] + Cardinality(Of(Q, x))]
           Sum(Q) == SumFunctionOnSet(G(Q), S)
           Bad == {Q \in SUBSET P : Sum(Q) # SumFunctionOnSet(f, S) + Cardinality(Q)}
<1>1. \A Q \in SUBSET P : /\ IsFiniteSet(Q) /\ Cardinality(Q) \in Nat
                          /\ \A x \in S : IsFiniteSet(Of(Q, x)) /\ Cardinality(Of(Q, x)) \in Nat
  <2>1. ASSUME NEW Q \in SUBSET P PROVE IsFiniteSet(Q) /\ Cardinality(Q) \in Nat
    BY FS_Subset, FS_CardinalityType
  <2>2. ASSUME NEW Q \in SUBSET P, NEW x \in S PROVE Of(Q, x) \in SUBSET P
    OBVIOUS
  <2> HIDE DEF Of
  <2> QED
    BY <2>1, <2>2
<1>2. Bad = {}
  <2> SUFFICES ASSUME Bad # {} PROVE FALSE
    OBVIOUS
  <2>1. PICK Q \in Bad : \A U \in Bad : U \subseteq Q => U = Q
    <3>1. Bad \subseteq SUBSET P
      OBVIOUS
    <3> HIDE DEF Bad
    <3> QED
      BY <3>1, SmallestMember
  <2>2. Q \in SUBSET P /\ Sum(Q) # SumFunctionOnSet(f, S) + Cardinality(Q)
    OBVIOUS
  <2>3. Q # {}
    <3> SUFFICES ASSUME Q = {} PROVE FALSE
      OBVIOUS
    <3>1. \A x \in S : Of(Q, x) = {}
      OBVIOUS
    <3>2. \A x \in S : G(Q)[x] = f[x]
      <4>1. \A x \in S : G(Q)[x] = f[x] + Cardinality(Of(Q, x))
        OBVIOUS
      <4>2. \A x \in S : f[x] \in Int
        OBVIOUS
      <4> HIDE DEF G, Of
      <4>3. \A x \in S : Cardinality(Of(Q, x)) = 0
        BY <3>1, FS_EmptySet
      <4> QED
        BY <4>1, <4>2, <4>3
    <3> HIDE DEF G
    <3>3. Sum(Q) = SumFunctionOnSet(f, S)
      BY <3>2, SumSame
    <3>4. SumFunctionOnSet(f, S) \in Int
      BY SumFirst
    <3> QED
      BY <2>2, <3>3, <3>4, FS_EmptySet
  <2>4. PICK p \in Q : TRUE
    BY <2>3
  <2> DEFINE R == Q \ {p}
             y == kind[p]
  <2>5. R \in SUBSET P /\ R \subseteq Q /\ R # Q /\ R \notin Bad /\ y \in S
    BY <2>1, <2>2, <2>4
  <2>6. Sum(R) = SumFunctionOnSet(f, S) + Cardinality(R)
    BY <2>5
  <2>7. Of(Q, y) \ {p} = Of(R, y) /\ p \in Of(Q, y)
    BY <2>4
  <2>8. \A x \in S \ {y} : Of(Q, x) = Of(R, x)
    OBVIOUS
  <2>9. /\ Cardinality(R) = Cardinality(Q) - 1
        /\ Cardinality(Of(R, y)) = Cardinality(Of(Q, y)) - 1
    <3>1. Cardinality(R) = Cardinality(Q) - 1
      BY <1>1, <2>2, <2>4, FS_RemoveElement
    <3>2. IsFiniteSet(Of(Q, y))
      BY <1>1, <2>2, <2>5
    <3> HIDE DEF Of, R, y
    <3>3. Cardinality(Of(Q, y) \ {p}) = Cardinality(Of(Q, y)) - 1
      BY <2>7, <3>2, FS_RemoveElement
    <3> QED
      BY <2>7, <3>1, <3>3
  <2> HIDE DEF Of, R, y
  <2>10. /\ \A x \in S : G(Q)[x] \in Int /\ G(R)[x] \in Int
         /\ \A x \in S \ {y} : G(R)[x] = G(Q)[x]
         /\ G(Q)[y] = G(R)[y] + 1
    <3>1. \A x \in S : /\ G(Q)[x] = f[x] + Cardinality(Of(Q, x))
                      /\ G(R)[x] = f[x] + Cardinality(Of(R, x))
                      /\ f[x] \in Int
                      /\ Cardinality(Of(Q, x)) \in Nat /\ Cardinality(Of(R, x)) \in Nat
      BY <1>1, <2>2, <2>5
    <3> HIDE DEF G
    <3> QED
      BY <3>1, <2>5, <2>8, <2>9
  <2>11. Sum(Q) = Sum(R) - G(R)[y] + G(Q)[y] /\ Sum(R) \in Int /\ G(R)[y] \in Int
    <3> DEFINE before == G(R)
               after == G(Q)
    <3> HIDE DEF G
    <3>1. /\ \A x \in S : before[x] \in Int /\ after[x] \in Int
          /\ \A x \in S \ {y} : before[x] = after[x]
      BY <2>10
    <3> HIDE DEF before, after
    <3>2. SumFunctionOnSet(before, S) \in Int
      BY <3>1, SumFirst
    <3>3. y \in S
      BY <2>5
    <3>4. SumFunctionOnSet(after, S) = SumFunctionOnSet(before, S) - before[y] + after[y]
      BY <3>1, <3>3, SumMoved
    <3> QED
      BY <3>1, <3>2, <3>3, <3>4 DEF before, after
  <2>12. SumFunctionOnSet(f, S) \in Int /\ Cardinality(Q) \in Nat
    BY <1>1, <2>2, SumFirst
  <2> HIDE DEF Sum, G
  <2> QED
    BY <2>2, <2>6, <2>9, <2>10, <2>11, <2>12
<1>3. \A x \in S : g[x] = G(P)[x]
  <2>1. \A x \in S : of[x] = Of(P, x)
    OBVIOUS
  <2>2. \A x \in S : G(P)[x] = f[x] + Cardinality(Of(P, x))
    OBVIOUS
  <2> HIDE DEF Of, G
  <2> QED
    BY <2>1, <2>2
<1>4. SumFunctionOnSet(g, S) = Sum(P)
  <2> HIDE DEF G
  <2> QED
    BY <1>3, SumSame
<1> QED
  BY <1>2, <1>4
=============================================================================
