-------------------------- MODULE StatisticsProofs --------------------------
(***************************************************************************)
(* Proofs about Verdicts, for any meetings, targets and levels, and about  *)
(* Holm, for every family of p-values.                                     *)
(*                                                                         *)
(* The verdicts are one step each, so what has to be shown is arithmetic   *)
(* about the sums they are taken from.  A sum is a fold over a set; what   *)
(* it is follows by induction over the subsets of its domain, whichever    *)
(* member the fold takes next.  That tied meetings are silent and when a   *)
(* level is out of reach are counted on the outcomes of the sign test:     *)
(* what comes out on a part of the meetings leaves the rest free.          *)
(*                                                                         *)
(* Holm's loop keeps an invariant.  A test's bar is what Holm multiplies   *)
(* its p-value up to: the p-value times the number of tests not before it  *)
(* in the sorted order.  The loop takes the tests in the sorted order, and *)
(* an adjusted p-value is at most alpha exactly if no bar up to and        *)
(* including the test's own is above it.  That the closed test decides the *)
(* same is then a fact about the order alone: the first test of a set is   *)
(* the one whose p-value decides for the set.                              *)
(***************************************************************************)
EXTENDS Integers, FiniteSets, SequenceFacts, Verdicts, Holm, FiniteSetTheorems

-----------------------------------------------------------------------------
(* Counting.                                                               *)

\* The values of a function on a finite set are finitely many.
LEMMA FewValues ==
  ASSUME NEW S, IsFiniteSet(S), NEW v
  PROVE  IsFiniteSet({ v[c] : c \in S })
<1> DEFINE V == { v[c] : c \in S }
           f == [c \in S |-> v[c]]
<1>1. f \in Surjection(S, V)
  BY DEF Surjection
<1> HIDE DEF V, f
<1>2. IsFiniteSet(V)
  BY <1>1, FS_Surjection
<1> QED BY <1>2 DEF V

-----------------------------------------------------------------------------
(* Sums over a finite set.                                                 *)

\* The member that a fold over a set takes out next.
Picked(s) == CHOOSE x \in s : TRUE

\* A set of subsets of D that holds each one from which it holds all that are
\* one member smaller holds all of them.
LEMMA EverySubset ==
  ASSUME NEW D, IsFiniteSet(D), NEW Q,
         \A s \in SUBSET D : (\A x \in s : s \ {x} \in Q) => s \in Q
  PROVE  \A s \in SUBSET D : s \in Q
<1> DEFINE Bad == { n \in Nat : \E s \in SUBSET D : Cardinality(s) = n /\ s \notin Q }
<1>1. ASSUME NEW n \in Bad, \A m \in Bad : n <= m PROVE FALSE
  <2>1. PICK s \in SUBSET D : Cardinality(s) = n /\ s \notin Q
    OBVIOUS
  <2>2. PICK x \in s : s \ {x} \notin Q
    BY <2>1
  <2>3. IsFiniteSet(s) /\ s \ {x} \in SUBSET D
    BY FS_Subset
  <2>4. Cardinality(s \ {x}) = n - 1 /\ n - 1 \in Nat
    <3>1. Cardinality(s \ {x}) = Cardinality(s) - 1 /\ IsFiniteSet(s \ {x})
      BY <2>3, FS_RemoveElement
    <3> QED BY <2>1, <2>3, <3>1, FS_CardinalityType
  <2>5. n - 1 \in Bad
    BY <2>2, <2>3, <2>4
  <2> QED BY <1>1, <2>4, <2>5
<1>2. Bad = {}
  <2>1. Bad \in SUBSET Nat
    OBVIOUS
  <2> HIDE DEF Bad
  <2> QED BY <1>1, <2>1, LeastNatural
<1>3. ASSUME NEW s \in SUBSET D PROVE Cardinality(s) \in Nat
  BY FS_Subset, FS_CardinalityType
<1> QED BY <1>2, <1>3

\* A set of subsets of D that grows by every member picked is all of them.
LEMMA AllSubsets ==
  ASSUME NEW D, IsFiniteSet(D), NEW Q, {} \in Q,
         \A s \in SUBSET D : s # {} /\ s \ {Picked(s)} \in Q => s \in Q
  PROVE  \A s \in SUBSET D : s \in Q
<1>1. ASSUME NEW s \in SUBSET D, \A x \in s : s \ {x} \in Q PROVE s \in Q
  <2>1. CASE s = {}
    BY <2>1
  <2>2. CASE s # {}
    <3>1. Picked(s) \in s
      BY <2>2 DEF Picked
    <3> QED BY <1>1, <2>2, <3>1
  <2> QED BY <2>1, <2>2
<1> QED BY <1>1, EverySubset

\* What a fold for a sum or for a product does with the next value.
Joined(mul, x, y) == IF mul THEN x * y ELSE x + y
Unit(mul) == IF mul THEN 1 ELSE 0

FoldsOn(mul, h, f, S) ==
  \A s \in S :
    h[s] = IF s = {} THEN Unit(mul) ELSE Joined(mul, f[Picked(s)], h[s \ {Picked(s)}])

\* h satisfies the recursion of SumFunction for f, on every subset of D.
SumsOn(h, f, D) ==
  \A s \in SUBSET D : h[s] = IF s = {} THEN 0 ELSE f[Picked(s)] + h[s \ {Picked(s)}]

\* h satisfies the recursion of the product of f.
ProductsOn(h, f, D) ==
  \A s \in SUBSET D : h[s] = IF s = {} THEN 1 ELSE f[Picked(s)] * h[s \ {Picked(s)}]

Smaller(D, n) == { s \in SUBSET D : Cardinality(s) < n }

FoldsBelow(mul, h, f, S) == h = [s \in S |-> h[s]] /\ FoldsOn(mul, h, f, S)

LEMMA FoldsExist ==
  ASSUME NEW D, IsFiniteSet(D), NEW f, NEW mul
  PROVE  \E h : FoldsBelow(mul, h, f, SUBSET D)
<1> DEFINE N == Cardinality(D) + 1
           T == { n \in 1 .. N : \E h : FoldsBelow(mul, h, f, Smaller(D, n)) }
<1>1. N \in Nat /\ N >= 1
  BY FS_CardinalityType
<1>2. ASSUME NEW s \in SUBSET D
      PROVE  IsFiniteSet(s) /\ Cardinality(s) \in Nat /\ Cardinality(s) <= Cardinality(D)
  BY FS_Subset, FS_CardinalityType
<1>3. 1 \in T
  <2>1. Smaller(D, 1) = {{}}
    <3>1. \A s \in SUBSET D : Cardinality(s) < 1 <=> s = {}
      BY <1>2, FS_EmptySet
    <3> QED BY <3>1 DEF Smaller
  <2> DEFINE g == [s \in {{}} |-> Unit(mul)]
  <2>2. g = [s \in {{}} |-> g[s]] /\ g[{}] = Unit(mul)
    OBVIOUS
  <2> HIDE DEF g
  <2>3. FoldsBelow(mul, g, f, Smaller(D, 1))
    BY <2>1, <2>2 DEF FoldsBelow, FoldsOn
  <2> QED BY <1>1, <2>3
<1>4. ASSUME NEW n \in 2 .. N, n - 1 \in T PROVE n \in T
  <2>1. PICK h : FoldsBelow(mul, h, f, Smaller(D, n - 1))
    BY <1>4
  <2> DEFINE v(s) == IF s = {} THEN Unit(mul)
                     ELSE Joined(mul, f[Picked(s)], h[s \ {Picked(s)}])
             g == [s \in Smaller(D, n) |-> v(s)]
  <2>2. \A s \in Smaller(D, n - 1) : s \in Smaller(D, n) /\ g[s] = h[s]
    <3>1. \A s \in Smaller(D, n - 1) : s \in Smaller(D, n)
      BY <1>2 DEF Smaller
    <3> QED BY <2>1, <3>1 DEF FoldsBelow, FoldsOn
  <2>3. ASSUME NEW s \in Smaller(D, n), s # {}
        PROVE  s \ {Picked(s)} \in Smaller(D, n - 1)
    <3> DEFINE x == Picked(s)
    <3>1. x \in s /\ s \in SUBSET D /\ Cardinality(s) < n
      BY <2>3 DEF Picked, Smaller
    <3> HIDE DEF x
    <3>2. Cardinality(s \ {x}) = Cardinality(s) - 1 /\ s \ {x} \in SUBSET D
      BY <1>2, <3>1, FS_RemoveElement
    <3>3. Cardinality(s \ {x}) < n - 1
      BY <1>2, <3>1, <3>2
    <3> QED BY <3>2, <3>3 DEF Smaller, x
  <2>4. \A s \in Smaller(D, n) : g[s] = IF s = {} THEN Unit(mul)
                           ELSE Joined(mul, f[Picked(s)], g[s \ {Picked(s)}])
    BY <2>2, <2>3
  <2>5. g = [s \in Smaller(D, n) |-> g[s]]
    OBVIOUS
  <2> HIDE DEF g
  <2>6. FoldsBelow(mul, g, f, Smaller(D, n))
    BY <2>4, <2>5 DEF FoldsBelow, FoldsOn
  <2> QED BY <2>6
<1>5. N \in T
  <2>1. \A n \in 1 .. N : n \in T
    <3> HIDE DEF T, N
    <3> QED BY <1>1, <1>3, <1>4, AllReached
  <2> QED BY <1>1, <2>1
<1>6. Smaller(D, N) = SUBSET D
  BY <1>2 DEF Smaller
<1> QED BY <1>5, <1>6

\* If there is such a function, the one that the fold chooses is one.
LEMMA SumChosen ==
  ASSUME NEW D, NEW f, DOMAIN f = D,
         NEW g, g = [s \in SUBSET D |-> g[s]], SumsOn(g, f, D)
  PROVE  \E h : SumsOn(h, f, D) /\ SumFunction(f) = h[D]
<1> DEFINE h == CHOOSE iter : iter = [s \in SUBSET D |->
                   IF s = {} THEN 0
                   ELSE f[CHOOSE x \in s : TRUE] + iter[s \ {CHOOSE x \in s : TRUE}]]
<1>1. SumFunction(f) = h[D]
  BY DEF SumFunction, SumFunctionOnSet, FoldFunctionOnSet, MapThenFoldSet
<1>2. g = [s \in SUBSET D |->
                   IF s = {} THEN 0
                   ELSE f[CHOOSE x \in s : TRUE] + g[s \ {CHOOSE x \in s : TRUE}]]
  BY DEF SumsOn, Picked
<1>3. h = [s \in SUBSET D |->
                   IF s = {} THEN 0
                   ELSE f[CHOOSE x \in s : TRUE] + h[s \ {CHOOSE x \in s : TRUE}]]
  BY <1>2
<1> HIDE DEF h
<1>4. SumsOn(h, f, D)
  BY <1>3 DEF SumsOn, Picked
<1> QED BY <1>1, <1>4

\* SumFunction is the value at its domain of such a function.
LEMMA SumUnfolds ==
  ASSUME NEW D, IsFiniteSet(D), NEW f, DOMAIN f = D
  PROVE  \E h : SumsOn(h, f, D) /\ SumFunction(f) = h[D]
<1>1. PICK g : FoldsBelow(FALSE, g, f, SUBSET D)
  BY FoldsExist
<1>2. g = [s \in SUBSET D |-> g[s]] /\ SumsOn(g, f, D)
  BY <1>1 DEF FoldsBelow, FoldsOn, SumsOn, Joined, Unit
<1> QED BY <1>2, SumChosen

\* Integers sum up to an integer, natural numbers to one.
LEMMA SumIsInt ==
  ASSUME NEW D, IsFiniteSet(D), NEW f \in [D -> Int]
  PROVE  SumFunction(f) \in Int /\ ((\A x \in D : f[x] >= 0) => SumFunction(f) >= 0)
<1>1. PICK h : SumsOn(h, f, D) /\ SumFunction(f) = h[D]
  BY SumUnfolds
<1> DEFINE Q == { s \in SUBSET D : /\ h[s] \in Int
                                   /\ (\A x \in D : f[x] >= 0) => h[s] >= 0 }
<1>2. {} \in Q
  <2>1. h[{}] = 0
    BY <1>1 DEF SumsOn
  <2> QED BY <2>1
<1>3. ASSUME NEW s \in SUBSET D, s # {}, s \ {Picked(s)} \in Q PROVE s \in Q
  <2>1. Picked(s) \in D /\ h[s] = f[Picked(s)] + h[s \ {Picked(s)}]
    BY <1>1, <1>3 DEF SumsOn, Picked
  <2>2. f[Picked(s)] \in Int
    BY <2>1
  <2> QED BY <1>3, <2>1, <2>2
<1>4. D \in Q
  <2> HIDE DEF Q
  <2> QED BY <1>2, <1>3, AllSubsets
<1> QED BY <1>1, <1>4

\* The sum of sums.
AddUp(D, f, g, e) ==
  /\ IsFiniteSet(D) /\ f \in [D -> Int] /\ g \in [D -> Int] /\ e \in [D -> Int]
  /\ \A x \in D : e[x] = f[x] + g[x]

LEMMA SumOfSums ==
  ASSUME NEW D, NEW f, NEW g, NEW e, AddUp(D, f, g, e)
  PROVE  SumFunction(e) = SumFunction(f) + SumFunction(g)
<1> USE DEF AddUp
<1> DOMAIN f = D /\ DOMAIN g = D /\ DOMAIN e = D
  OBVIOUS
<1>1. PICK h : SumsOn(h, f, D) /\ SumFunction(f) = h[D]
  BY SumUnfolds
<1>2. PICK k : SumsOn(k, g, D) /\ SumFunction(g) = k[D]
  BY SumUnfolds
<1>3. PICK j : SumsOn(j, e, D) /\ SumFunction(e) = j[D]
  BY SumUnfolds
<1> DEFINE Q == { s \in SUBSET D : h[s] \in Int /\ k[s] \in Int /\ j[s] = h[s] + k[s] }
<1>4. {} \in Q
  <2>1. h[{}] = 0 /\ k[{}] = 0 /\ j[{}] = 0
    BY <1>1, <1>2, <1>3 DEF SumsOn
  <2> QED BY <2>1
<1>5. ASSUME NEW s \in SUBSET D, s # {}, s \ {Picked(s)} \in Q PROVE s \in Q
  <2> DEFINE x == Picked(s)  r == s \ {x}
  <2>1. x \in D
    BY <1>5 DEF Picked
  <2>2. h[s] = f[x] + h[r] /\ k[s] = g[x] + k[r] /\ j[s] = e[x] + j[r]
    BY <1>1, <1>2, <1>3, <1>5 DEF SumsOn
  <2>3. h[r] \in Int /\ k[r] \in Int /\ j[r] = h[r] + k[r]
    BY <1>5
  <2> HIDE DEF x, r
  <2>4. f[x] \in Int /\ g[x] \in Int /\ e[x] = f[x] + g[x]
    BY <2>1
  <2> QED BY <2>2, <2>3, <2>4
<1>6. D \in Q
  <2> HIDE DEF Q
  <2> QED BY <1>4, <1>5, AllSubsets
<1> QED BY <1>1, <1>2, <1>3, <1>6

\* Smaller numbers have a smaller sum.
Below(D, f, g) ==
  /\ IsFiniteSet(D) /\ f \in [D -> Int] /\ g \in [D -> Int]
  /\ \A x \in D : f[x] <= g[x]

LEMMA SumOfLess ==
  ASSUME NEW D, NEW f, NEW g, Below(D, f, g)
  PROVE  /\ SumFunction(f) \in Int /\ SumFunction(g) \in Int
         /\ SumFunction(f) <= SumFunction(g)
<1> DEFINE e == [x \in D |-> g[x] - f[x]]
<1>1. /\ IsFiniteSet(D) /\ f \in [D -> Int] /\ g \in [D -> Int] /\ e \in [D -> Int]
      /\ \A x \in D : g[x] = f[x] + e[x] /\ e[x] >= 0
  BY DEF Below
<1> HIDE DEF e
<1>2. AddUp(D, f, e, g)
  BY <1>1 DEF AddUp
<1>3. SumFunction(g) = SumFunction(f) + SumFunction(e)
  BY <1>2, SumOfSums
<1>4. SumFunction(f) \in Int /\ SumFunction(e) \in Int /\ SumFunction(e) >= 0
  BY <1>1, SumIsInt
<1> QED BY <1>3, <1>4

\* A sum can be taken in any order.
LEMMA AnyOrder ==
  ASSUME NEW D, IsFiniteSet(D), NEW f \in [D -> Int], NEW h, SumsOn(h, f, D)
  PROVE  \A s \in SUBSET D : h[s] \in Int /\ \A x \in s : h[s] = f[x] + h[s \ {x}]
<1>1. \A s \in SUBSET D : h[s] \in Int
  <2> DEFINE I == { s \in SUBSET D : h[s] \in Int }
  <2>1. {} \in I
    <3>1. h[{}] = 0
      BY DEF SumsOn
    <3> QED BY <3>1
  <2>2. ASSUME NEW s \in SUBSET D, s # {}, s \ {Picked(s)} \in I PROVE s \in I
    <3>1. Picked(s) \in D /\ h[s] = f[Picked(s)] + h[s \ {Picked(s)}]
      BY <2>2 DEF SumsOn, Picked
    <3>2. f[Picked(s)] \in Int
      BY <3>1
    <3> QED BY <2>2, <3>1, <3>2
  <2>3. \A s \in SUBSET D : s \in I
    <3> HIDE DEF I
    <3> QED BY <2>1, <2>2, AllSubsets
  <2> QED BY <2>3
<1> DEFINE Q == { s \in SUBSET D : \A x \in s : h[s] = f[x] + h[s \ {x}] }
<1>2. ASSUME NEW s \in SUBSET D, \A x \in s : s \ {x} \in Q PROVE s \in Q
  <2>1. CASE s = {}
    BY <2>1
  <2>2. CASE s # {}
    <3> DEFINE y == Picked(s)
    <3>1. y \in s /\ y \in D
      BY <2>2 DEF Picked
    <3>2. h[s] = f[y] + h[s \ {y}]
      BY <2>2 DEF SumsOn
    <3> HIDE DEF y
    <3>3. h[s \ {y}] \in Int /\ f[y] \in Int
      BY <1>1, <3>1
    <3>4. ASSUME NEW x \in s, x # y PROVE h[s] = f[x] + h[s \ {x}]
      <4> DEFINE r == (s \ {y}) \ {x}
      <4>1. x \in s \ {y} /\ y \in s \ {x} /\ r = (s \ {x}) \ {y} /\ x \in D
        BY <3>1, <3>4
      <4>2. h[s \ {y}] = f[x] + h[r]
        BY <1>2, <3>1, <4>1
      <4>3. h[s \ {x}] = f[y] + h[r]
        BY <1>2, <4>1
      <4>4. h[r] \in Int
        BY <1>1
      <4> HIDE DEF r
      <4>5. f[x] \in Int
        BY <4>1
      <4> QED BY <3>2, <3>3, <4>2, <4>3, <4>4, <4>5
    <3>5. \A x \in s : h[s] = f[x] + h[s \ {x}]
      BY <3>2, <3>4
    <3> QED BY <3>5
  <2> QED BY <2>1, <2>2
<1>3. \A s \in SUBSET D : s \in Q
  <2> HIDE DEF Q
  <2> QED BY <1>2, EverySubset
<1> QED BY <1>1, <1>3

\* Zeros add nothing.
Padded(D, E, f, g) ==
  /\ IsFiniteSet(E) /\ D \in SUBSET E /\ f \in [D -> Int] /\ g \in [E -> Int]
  /\ \A x \in E : g[x] = IF x \in D THEN f[x] ELSE 0

LEMMA ZerosSilent ==
  ASSUME NEW D, NEW E, NEW f, NEW g, Padded(D, E, f, g)
  PROVE  SumFunction(f) = SumFunction(g)
<1>1. /\ IsFiniteSet(D) /\ IsFiniteSet(E) /\ D \in SUBSET E
      /\ f \in [D -> Int] /\ g \in [E -> Int] /\ DOMAIN f = D /\ DOMAIN g = E
  BY FS_Subset DEF Padded
<1>2. PICK h : SumsOn(h, f, D) /\ SumFunction(f) = h[D]
  BY <1>1, SumUnfolds
<1>3. PICK j : SumsOn(j, g, E) /\ SumFunction(g) = j[E]
  BY <1>1, SumUnfolds
<1>4. \A s \in SUBSET D : h[s] \in Int /\ \A x \in s : h[s] = f[x] + h[s \ {x}]
  BY <1>1, <1>2, AnyOrder
<1> DEFINE Q == { s \in SUBSET E : j[s] = h[s \cap D] }
<1>5. {} \in Q
  <2>1. {} \cap D = {} /\ h[{}] = 0 /\ j[{}] = 0
    BY <1>2, <1>3 DEF SumsOn
  <2> QED BY <2>1
<1>6. ASSUME NEW s \in SUBSET E, s # {}, s \ {Picked(s)} \in Q PROVE s \in Q
  <2> DEFINE x == Picked(s)
  <2>1. x \in s /\ x \in E
    BY <1>6 DEF Picked
  <2>2. j[s] = g[x] + h[(s \ {x}) \cap D]
    BY <1>3, <1>6 DEF SumsOn
  <2> HIDE DEF x
  <2>3. CASE x \in D
    <3>1. (s \ {x}) \cap D = (s \cap D) \ {x} /\ x \in s \cap D /\ s \cap D \in SUBSET D
      BY <2>1, <2>3
    <3>2. h[s \cap D] = f[x] + h[(s \ {x}) \cap D]
      BY <1>4, <3>1
    <3>3. g[x] = f[x]
      BY <2>1, <2>3 DEF Padded
    <3> QED BY <2>2, <3>2, <3>3
  <2>4. CASE x \notin D
    <3>1. (s \ {x}) \cap D = s \cap D /\ s \cap D \in SUBSET D
      BY <2>4
    <3>2. g[x] = 0
      BY <2>1, <2>4 DEF Padded
    <3>3. h[s \cap D] \in Int
      BY <1>4, <3>1
    <3>4. j[s] = h[s \cap D]
      BY <2>2, <3>1, <3>2, <3>3
    <3> QED BY <3>4
  <2> QED BY <2>3, <2>4
<1>7. E \in Q
  <2> HIDE DEF Q
  <2> QED BY <1>1, <1>5, <1>6, AllSubsets
<1>8. E \cap D = D
  BY <1>1
<1> QED BY <1>2, <1>3, <1>7, <1>8

\* The sum of one number as often as there are members.
LEMMA SumOfSame ==
  ASSUME NEW D, IsFiniteSet(D), NEW c \in Int, NEW e, DOMAIN e = D,
         \A x \in D : e[x] = c
  PROVE  SumFunction(e) = Cardinality(D) * c
<1>1. PICK h : SumsOn(h, e, D) /\ SumFunction(e) = h[D]
  BY SumUnfolds
<1> DEFINE Q == { s \in SUBSET D : h[s] = Cardinality(s) * c }
<1>2. {} \in Q
  BY <1>1, FS_EmptySet DEF SumsOn
<1>3. ASSUME NEW s \in SUBSET D, s # {}, s \ {Picked(s)} \in Q PROVE s \in Q
  <2> DEFINE x == Picked(s)  r == s \ {x}
  <2>1. x \in s /\ x \in D
    BY <1>3 DEF Picked
  <2>2. h[s] = e[x] + h[r] /\ h[r] = Cardinality(r) * c
    BY <1>1, <1>3 DEF SumsOn
  <2> HIDE DEF x
  <2>3. IsFiniteSet(s) /\ Cardinality(s) \in Nat /\ Cardinality(r) = Cardinality(s) - 1
    BY <2>1, FS_Subset, FS_CardinalityType, FS_RemoveElement
  <2> HIDE DEF r
  <2> DEFINE n == Cardinality(s)
  <2>4. h[s] = c + (n - 1) * c /\ n \in Nat
    BY <2>1, <2>2, <2>3
  <2> HIDE DEF n
  <2>5. c + (n - 1) * c = n * c
    BY <2>4
  <2> QED BY <2>4, <2>5 DEF n
<1>4. D \in Q
  <2> HIDE DEF Q
  <2> QED BY <1>2, <1>3, AllSubsets
<1> QED BY <1>1, <1>4

-----------------------------------------------------------------------------
(* The sign permutation test.                                              *)

\* The outcome u with the meetings in which s is -1 turned round.
Turn(D, s, u) == [id \in D |-> u[id] * s[id]]

Turned(s, d) == [id \in DOMAIN d |-> s[id] * d[id]]

LEMMA TurnTwice ==
  ASSUME NEW D, NEW s \in [D -> {1, -1}], NEW u \in [D -> {1, -1}]
  PROVE  /\ Turn(D, s, u) \in [D -> {1, -1}]
         /\ Turn(D, s, Turn(D, s, u)) = u
<1>1. ASSUME NEW id \in D
      PROVE  u[id] * s[id] \in {1, -1} /\ (u[id] * s[id]) * s[id] = u[id]
  <2>1. u[id] \in {1, -1} /\ s[id] \in {1, -1}
    OBVIOUS
  <2> QED BY <2>1
<1> QED BY <1>1 DEF Turn

\* A set has as many outcomes as subsets.
LEMMA FlipsCounted ==
  ASSUME NEW d, IsFiniteSet(DOMAIN d)
  PROVE  IsFiniteSet(Flips(d)) /\ Cardinality(Flips(d)) = 2 ^ Cardinality(DOMAIN d)
<1> DEFINE D == DOMAIN d
           g == [X \in SUBSET D |-> [id \in D |-> IF id \in X THEN 1 ELSE -1]]
<1>1. g \in [SUBSET D -> Flips(d)]
  BY DEF Flips
<1>2. ASSUME NEW X \in SUBSET D, NEW Y \in SUBSET D, g[X] = g[Y] PROVE X = Y
  <2>1. \A id \in D : g[X][id] = g[Y][id]
    BY <1>2
  <2>2. \A id \in D : id \in X <=> id \in Y
    BY <2>1
  <2> QED BY <2>2
<1>3. ASSUME NEW s \in Flips(d) PROVE \E X \in SUBSET D : g[X] = s
  <2> DEFINE X == { id \in D : s[id] = 1 }
  <2>1. s \in [D -> {1, -1}]
    BY DEF Flips
  <2>2. g[X] = s
    BY <2>1
  <2> QED BY <2>2
<1>4. g \in Bijection(SUBSET D, Flips(d))
  BY <1>1, <1>2, <1>3 DEF Bijection, Injection, Surjection, IsInjective
<1> HIDE DEF g
<1>5. IsFiniteSet(SUBSET D) /\ Cardinality(SUBSET D) = 2 ^ Cardinality(D)
  BY FS_SUBSET
<1> QED BY <1>4, <1>5, FS_Bijection DEF ExistsBijection

\* How far apart an outcome puts the detectors.
LEMMA NetIsNat ==
  ASSUME NEW d, IsFiniteSet(DOMAIN d), NEW s, \A id \in DOMAIN d : s[id] * d[id] \in Int
  PROVE  Net(s, d) \in Nat
<1> DEFINE D == DOMAIN d
           f == [id \in D |-> s[id] * d[id]]
<1>1. f \in [D -> Int]
  OBVIOUS
<1>2. SumFunction(f) \in Int
  <2> HIDE DEF f
  <2> QED BY <1>1, SumIsInt
<1> QED BY <1>2 DEF Net, Abs

\* What an outcome is in data that were turned round is the turned outcome in
\* the data as they were.
LEMMA NetOfTurned ==
  ASSUME NEW D, NEW d \in [D -> Int], NEW s \in [D -> {1, -1}], NEW u \in [D -> {1, -1}]
  PROVE  /\ Net(u, Turned(s, d)) = Net(Turn(D, s, u), d)
         /\ Observed(Turned(s, d)) = Net(s, d)
         /\ Flips(Turned(s, d)) = [D -> {1, -1}]
<1>1. DOMAIN Turned(s, d) = D /\ DOMAIN d = D
  BY DEF Turned
<1>2. ASSUME NEW id \in D
      PROVE  /\ u[id] * Turned(s, d)[id] = Turn(D, s, u)[id] * d[id]
             /\ 1 * Turned(s, d)[id] = s[id] * d[id]
  <2>1. /\ Turned(s, d)[id] = s[id] * d[id] /\ Turn(D, s, u)[id] = u[id] * s[id]
        /\ u[id] \in Int /\ s[id] \in Int /\ d[id] \in Int
    BY DEF Turned, Turn
  <2> DEFINE x == u[id]  y == s[id]  z == d[id]
  <2> HIDE DEF x, y, z
  <2>2. x \in Int /\ y \in Int /\ z \in Int
    BY <2>1 DEF x, y, z
  <2>3. x * (y * z) = (x * y) * z /\ 1 * (y * z) = y * z
    BY <2>2
  <2> QED BY <2>1, <2>3 DEF x, y, z
<1>3. [id \in D |-> u[id] * Turned(s, d)[id]] = [id \in D |-> Turn(D, s, u)[id] * d[id]]
  BY <1>2
<1>4. [id \in D |-> [i \in D |-> 1][id] * Turned(s, d)[id]] = [id \in D |-> s[id] * d[id]]
  BY <1>2
<1> QED BY <1>1, <1>3, <1>4 DEF Net, Observed, Flips

Top(s, d) == { u \in Flips(d) : Net(u, d) >= Net(s, d) }

\* The outcomes at least as far apart as s are as many as the p-value of s
\* counts.
LEMMA TopCounted ==
  ASSUME NEW D, IsFiniteSet(D), NEW d \in [D -> Int], NEW s \in [D -> {1, -1}]
  PROVE  /\ IsFiniteSet(Top(s, d)) /\ IsFiniteSet(AsExtreme(Turned(s, d)))
         /\ Cardinality(Top(s, d)) <= Cardinality(AsExtreme(Turned(s, d)))
<1> DEFINE F == [D -> {1, -1}]
           E == AsExtreme(Turned(s, d))
           g == [u \in Top(s, d) |-> Turn(D, s, u)]
<1>1. DOMAIN d = D /\ Flips(d) = F /\ DOMAIN Turned(s, d) = D /\ Flips(Turned(s, d)) = F
  BY DEF Flips, Turned
<1>2. IsFiniteSet(F)
  BY <1>1, FlipsCounted
<1>3. Top(s, d) \in SUBSET F /\ E \in SUBSET F
  BY <1>1 DEF Top, AsExtreme
<1>4. ASSUME NEW u \in Top(s, d) PROVE g[u] \in E /\ Turn(D, s, g[u]) = u
  <2>1. u \in F /\ Net(u, d) >= Net(s, d)
    BY <1>1 DEF Top
  <2>2. g[u] \in F /\ Turn(D, s, g[u]) = u
    BY <2>1, TurnTwice
  <2>3. Net(g[u], Turned(s, d)) = Net(u, d) /\ Observed(Turned(s, d)) = Net(s, d)
    BY <2>2, NetOfTurned
  <2> QED BY <1>1, <2>1, <2>2, <2>3 DEF AsExtreme
<1>5. g \in Injection(Top(s, d), E)
  <2>1. g \in [Top(s, d) -> E]
    BY <1>4
  <2>2. \A u, v \in Top(s, d) : g[u] = g[v] => u = v
    BY <1>4
  <2> QED BY <2>1, <2>2 DEF Injection, IsInjective
<1>6. IsFiniteSet(E) /\ IsFiniteSet(Top(s, d))
  BY <1>2, <1>3, FS_Subset
<1> HIDE DEF g, E
<1> QED BY <1>5, <1>6, FS_Injection DEF E

Alarms(d) == { s \in Flips(d) : Decision(Turned(s, d)) = "SIGNIFICANT" }

LEMMA SignificantIsSmall ==
  ASSUME NEW d, Decision(d) = "SIGNIFICANT"
  PROVE  PSmall(d)
<1>1. CASE ~Reachable(Informative(d))
  BY <1>1 DEF Decision
<1>2. CASE Reachable(Informative(d)) /\ ~PSmall(d)
  BY <1>2 DEF Decision
<1> QED BY <1>1, <1>2

\* Among the outcomes called significant take one that is the least far apart:
\* all of them are counted by its p-value.
LEMMA AlarmsBounded ==
  ASSUME NEW D, IsFiniteSet(D), NEW d \in [D -> Int],
         input.num \in Nat, input.den \in Nat \ {0}
  PROVE  Cardinality(Alarms(d)) * input.den <= input.num * Cardinality(Flips(d))
<1> DEFINE A == Alarms(d)  F == [D -> {1, -1}]  num == input.num  den == input.den
<1>1. DOMAIN d = D /\ Flips(d) = F /\ A \in SUBSET F
  BY DEF Flips, Alarms
<1>2. IsFiniteSet(F) /\ Cardinality(F) = 2 ^ Cardinality(D)
  BY <1>1, FlipsCounted
<1>3. IsFiniteSet(A) /\ Cardinality(F) \in Nat
  BY <1>1, <1>2, FS_Subset, FS_CardinalityType
<1>4. CASE A = {}
  <2>1. Cardinality(A) = 0
    BY <1>4, FS_EmptySet
  <2> HIDE DEF A, F
  <2>2. num * Cardinality(F) >= 0 /\ 0 * den = 0
    BY <1>3
  <2> QED BY <1>1, <2>1, <2>2 DEF A
<1>5. CASE A # {}
  <2>1. ASSUME NEW s \in A PROVE Net(s, d) \in Nat
    <3>1. s \in F
      BY <1>1
    <3>2. \A id \in D : s[id] * d[id] \in Int
      <4> SUFFICES ASSUME NEW id \in D PROVE s[id] * d[id] \in Int
        OBVIOUS
      <4>1. s[id] \in Int /\ d[id] \in Int
        BY <3>1
      <4> QED BY <4>1
    <3> QED BY <1>1, <3>2, NetIsNat
  <2> DEFINE T == { Net(s, d) : s \in A }
  <2>2. T \in SUBSET Nat /\ T # {}
    BY <1>5, <2>1
  <2>3. PICK x \in T : \A y \in T : x <= y
    <3> HIDE DEF T
    <3> QED BY <2>2, LeastNatural
  <2>4. PICK s \in A : x = Net(s, d)
    OBVIOUS
  <2>5. A \in SUBSET Top(s, d)
    <3>1. ASSUME NEW u \in A PROVE Net(u, d) >= Net(s, d)
      <4>1. Net(u, d) \in T
        OBVIOUS
      <4>2. x <= Net(u, d) /\ x \in Nat /\ Net(u, d) \in Nat
        BY <2>1, <2>2, <2>3, <4>1
      <4> QED BY <2>4, <4>2
    <3> QED BY <1>1, <3>1 DEF Top
  <2> DEFINE E == AsExtreme(Turned(s, d))
  <2>6. /\ IsFiniteSet(Top(s, d)) /\ IsFiniteSet(E)
        /\ Cardinality(Top(s, d)) <= Cardinality(E)
    BY <1>1, TopCounted
  <2>7. Cardinality(A) <= Cardinality(Top(s, d))
    BY <2>5, <2>6, FS_Subset
  <2>8. Cardinality(E) * den <= num * 2 ^ Cardinality(D)
    <3>1. PSmall(Turned(s, d))
      BY SignificantIsSmall DEF Alarms
    <3>2. DOMAIN Turned(s, d) = D
      BY <1>1 DEF Turned
    <3> QED BY <3>1, <3>2 DEF PSmall
  <2> DEFINE a == Cardinality(A)  e == Cardinality(E)  t == Cardinality(Top(s, d))
  <2>9. a \in Nat /\ e \in Nat /\ t \in Nat
    BY <1>3, <2>6, FS_CardinalityType
  <2> HIDE DEF a, e, t
  <2>10. a <= e
    BY <2>6, <2>7, <2>9 DEF a, e, t
  <2>11. a * den <= e * den
    <3> HIDE DEF den
    <3>1. den \in Nat
      BY DEF den
    <3> QED BY <2>9, <2>10, <3>1
  <2>12. e * den <= num * Cardinality(F)
    BY <1>2, <2>8 DEF e
  <2> HIDE DEF A, F, E
  <2>13. a * den \in Int /\ e * den \in Int /\ num * Cardinality(F) \in Int
    BY <1>3, <2>9
  <2>14. a * den <= num * Cardinality(F)
    BY <2>11, <2>12, <2>13
  <2> QED BY <1>1, <2>14 DEF a, A
<1> QED BY <1>4, <1>5

-----------------------------------------------------------------------------
(* The inputs.                                                             *)

\* What is known of the input, and which verdicts it can have.
Asked ==
  /\ input \in Singles \cup Paireds
  /\ Judged => input.kind = "paired"

LEMMA AskedHolds == VSpec => []Asked
<1>1. VInit => Asked
  BY DEF VInit, Asked, Judged
<1>2. Asked /\ [VNext]_vvars => Asked'
  <2> SUFFICES ASSUME Asked, [VNext]_vvars PROVE Asked'
    OBVIOUS
  <2> USE DEF Asked, Judged
  <2>1. CASE Undefined \/ TooFew \/ Fails
    BY <2>1 DEF Undefined, TooFew, Fails
  <2>2. CASE Uniform \/ BelowFloor \/ Meets \/ Straddles
    BY <2>2 DEF Uniform, BelowFloor, Meets, Straddles
  <2>3. CASE RefusePair \/ NothingCommon
    BY <2>3 DEF RefusePair, NothingCommon
  <2>4. CASE Underpowered \/ Significant \/ Inconclusive
    BY <2>4 DEF Underpowered, Significant, Inconclusive, Comparable, Pending
  <2>5. CASE UNCHANGED vvars
    BY <2>5 DEF vvars
  <2> QED BY <2>1, <2>2, <2>3, <2>4, <2>5 DEF VNext
<1> QED BY <1>1, <1>2, PTL DEF VSpec

\* The differences are integers, one for each of finitely many meetings.
LEMMA DiffsAreInts ==
  ASSUME input \in Paireds
  PROVE  IsFiniteSet(Common) /\ Diffs \in [Common -> Int]
<1>1. input.a \in Seq(ClusterBinary) /\ input.b \in Seq(ClusterBinary)
  BY PairedsAssumption
<1>2. ASSUME NEW c \in Seq(ClusterBinary)
      PROVE  /\ IsFiniteSet(Ids(c))
             /\ \A id \in Ids(c) : Of(c, id).k \in Int
  <2>1. Len(c) \in Nat /\ DOMAIN c = 1 .. Len(c) /\ \A i \in DOMAIN c : c[i] \in ClusterBinary
    OBVIOUS
  <2>2. IsFiniteSet(DOMAIN c)
    BY <2>1, FS_Interval
  <2> DEFINE v == [i \in DOMAIN c |-> c[i].id]
  <2>3. IsFiniteSet({ v[i] : i \in DOMAIN c })
    <3> HIDE DEF v
    <3> QED BY <2>2, FewValues
  <2>4. { v[i] : i \in DOMAIN c } = Ids(c)
    BY DEF Ids
  <2>5. ASSUME NEW id \in Ids(c) PROVE Of(c, id).k \in Int
    <3>1. \E i \in DOMAIN c : c[i].id = id
      BY DEF Ids
    <3>2. Of(c, id) \in ClusterBinary
      BY <2>1, <3>1 DEF Of
    <3> QED BY <3>2 DEF ClusterBinary
  <2> QED BY <2>3, <2>4, <2>5
<1>3. IsFiniteSet(Ids(input.a)) /\ Common \in SUBSET Ids(input.a)
      /\ Common \in SUBSET Ids(input.b)
  BY <1>1, <1>2 DEF Common
<1>4. IsFiniteSet(Common)
  BY <1>3, FS_Subset
<1>5. \A id \in Common : Of(input.a, id).k \in Int /\ Of(input.b, id).k \in Int
  BY <1>1, <1>2, <1>3
<1>6. \A id \in Common : Of(input.a, id).k - Of(input.b, id).k \in Int
  BY <1>5
<1> QED BY <1>4, <1>6 DEF Diffs

\* The test keeps its level (verdict_paired and cluster_sign_test): of the ways
\* the meetings could have come out if the detectors were alike, it calls at
\* most alpha significant, however many meetings and flags there are.
THEOREM LevelKept == VSpec => []FalseAlarmsRare
<1>1. Asked => FalseAlarmsRare
  <2> SUFFICES ASSUME Asked, Judged
               PROVE  Cardinality(Alarms(Diffs)) * input.den
                        <= input.num * Cardinality(Flips(Diffs))
    BY DEF FalseAlarmsRare, Alarms, Turned
  <2>1. input \in Paireds
    BY SinglesAssumption DEF Asked
  <2>2. input.num \in Nat /\ input.den \in Nat \ {0}
    BY <2>1, PairedsAssumption DEF IsLevel
  <2> QED BY <2>1, <2>2, DiffsAreInts, AlarmsBounded
<1> QED BY <1>1, AskedHolds, PTL

-----------------------------------------------------------------------------
(* Rounding.                                                               *)

LEMMA ProductChosen ==
  ASSUME NEW D, NEW f, DOMAIN f = D,
         NEW g, g = [s \in SUBSET D |-> g[s]], ProductsOn(g, f, D)
  PROVE  \E h : ProductsOn(h, f, D) /\ FoldFunction(LAMBDA x, y : x * y, 1, f) = h[D]
<1> DEFINE h == CHOOSE iter : iter = [s \in SUBSET D |->
                   IF s = {} THEN 1
                   ELSE f[CHOOSE x \in s : TRUE] * iter[s \ {CHOOSE x \in s : TRUE}]]
<1>1. FoldFunction(LAMBDA x, y : x * y, 1, f) = h[D]
  BY DEF FoldFunction, FoldFunctionOnSet, MapThenFoldSet
<1>2. g = [s \in SUBSET D |->
                   IF s = {} THEN 1
                   ELSE f[CHOOSE x \in s : TRUE] * g[s \ {CHOOSE x \in s : TRUE}]]
  BY DEF ProductsOn, Picked
<1>3. h = [s \in SUBSET D |->
                   IF s = {} THEN 1
                   ELSE f[CHOOSE x \in s : TRUE] * h[s \ {CHOOSE x \in s : TRUE}]]
  BY <1>2
<1> HIDE DEF h
<1>4. ProductsOn(h, f, D)
  BY <1>3 DEF ProductsOn, Picked
<1> QED BY <1>1, <1>4

Multiple(P, n) == \E m \in Nat : P = n * m

\* A product of positive numbers is positive and a multiple of each.
LEMMA ProductIsMultiple ==
  ASSUME NEW D, IsFiniteSet(D), NEW f \in [D -> Nat \ {0}]
  PROVE  LET P == FoldFunction(LAMBDA x, y : x * y, 1, f)
         IN  P \in Nat \ {0} /\ \A x \in D : Multiple(P, f[x])
<1>1. PICK g : FoldsBelow(TRUE, g, f, SUBSET D)
  BY FoldsExist
<1>2. g = [s \in SUBSET D |-> g[s]] /\ ProductsOn(g, f, D)
  BY <1>1 DEF FoldsBelow, FoldsOn, ProductsOn, Joined, Unit
<1>3. DOMAIN f = D
  OBVIOUS
<1>4. PICK h : ProductsOn(h, f, D) /\ FoldFunction(LAMBDA x, y : x * y, 1, f) = h[D]
  BY <1>2, <1>3, ProductChosen
<1> DEFINE Q == { s \in SUBSET D : /\ h[s] \in Nat \ {0}
                                   /\ \A x \in s : Multiple(h[s], f[x]) }
<1>5. {} \in Q
  <2>1. h[{}] = 1
    BY <1>4 DEF ProductsOn
  <2> QED BY <2>1
<1>6. ASSUME NEW s \in SUBSET D, s # {}, s \ {Picked(s)} \in Q PROVE s \in Q
  <2> DEFINE x == Picked(s)  r == s \ {x}
  <2>1. x \in s /\ x \in D
    BY <1>6 DEF Picked
  <2>2. h[s] = f[x] * h[r] /\ h[r] \in Nat \ {0} /\ \A y \in r : Multiple(h[r], f[y])
    BY <1>4, <1>6 DEF ProductsOn
  <2> HIDE DEF x
  <2>3. f[x] \in Nat \ {0}
    BY <2>1
  <2> DEFINE v == f[x]  w == h[r]
  <2>4. v \in Nat \ {0} /\ w \in Nat \ {0} /\ h[s] = v * w
    BY <2>2, <2>3
  <2> HIDE DEF v, w
  <2>5. v * w \in Nat /\ v * w # 0
    BY <2>4
  <2>6. ASSUME NEW y \in s PROVE Multiple(h[s], f[y])
    <3>1. CASE y = x
      BY <2>4, <3>1 DEF Multiple, v
    <3>2. CASE y # x
      <4>1. y \in D /\ f[y] \in Nat
        OBVIOUS
      <4>2. PICK m \in Nat : w = f[y] * m
        BY <2>2, <3>2 DEF Multiple, w
      <4> DEFINE z == f[y]
      <4> HIDE DEF z
      <4>3. z \in Nat /\ w = z * m
        BY <4>1, <4>2 DEF z
      <4>4. v * (z * m) = z * (v * m) /\ v * m \in Nat
        BY <2>4, <4>3
      <4>5. h[s] = z * (v * m)
        BY <2>4, <4>3, <4>4
      <4> QED BY <4>4, <4>5 DEF Multiple, z
    <3> QED BY <3>1, <3>2
  <2> QED BY <2>4, <2>5, <2>6
<1>7. D \in Q
  <2> HIDE DEF Q
  <2> QED BY <1>5, <1>6, AllSubsets
<1> QED BY <1>4, <1>7

\* Two fractions that add up to N round to N, one half down, the other half up.
LEMMA HalvesAddUp ==
  ASSUME NEW a \in Int, NEW b \in Int, NEW d \in Nat \ {0}, NEW N \in Nat,
         a + b = N * d
  PROVE  RoundHalfDown([num |-> a, den |-> d]) + RoundHalfUp([num |-> b, den |-> d]) = N
<1> DEFINE x == d - 2 * a  y == 2 * d
<1>1. x \in Int /\ y \in Nat \ {0}
  OBVIOUS
<1>2. 2 * b + d = x + N * y
  <2> DEFINE P == N * d
  <2>1. N * y = 2 * P /\ P \in Int
    OBVIOUS
  <2> HIDE DEF P
  <2>2. a + b = P
    BY DEF P
  <2>3. 2 * b + d = (d - 2 * a) + 2 * P
    BY <2>1, <2>2
  <2> QED BY <2>1, <2>3
<1>3. RoundHalfDown([num |-> a, den |-> d]) = -(x \div y)
  BY DEF RoundHalfDown
<1>4. RoundHalfUp([num |-> b, den |-> d]) = (x + N * y) \div y
  BY <1>2 DEF RoundHalfUp
<1> HIDE DEF x, y
<1>5. (x + N * y) \div y = (x \div y) + N
  BY <1>1
<1>6. x \div y \in Int
  BY <1>1
<1> QED BY <1>3, <1>4, <1>5, <1>6

\* The meetings with flags are finitely many and their counts natural numbers.
LEMMA MeetingsCounted ==
  ASSUME NEW c \in Seq(Scored)
  PROVE  /\ IsFiniteSet(Nonempty(c)) /\ NInfer(c) \in Nat
         /\ \A i \in DOMAIN c : c[i].k \in Nat /\ c[i].n \in Nat /\ c[i].k <= c[i].n
         /\ \A i \in Nonempty(c) : i \in DOMAIN c /\ c[i].n \in Nat \ {0}
<1>1. Len(c) \in Nat /\ DOMAIN c = 1 .. Len(c) /\ \A i \in DOMAIN c : c[i] \in Scored
  OBVIOUS
<1>2. IsFiniteSet(DOMAIN c)
  BY <1>1, FS_Interval
<1>3. Nonempty(c) \in SUBSET DOMAIN c
  BY DEF Nonempty
<1>4. IsFiniteSet(Nonempty(c)) /\ NInfer(c) \in Nat
  BY <1>2, <1>3, FS_Subset, FS_CardinalityType DEF NInfer
<1>5. \A i \in DOMAIN c : c[i].k \in Nat /\ c[i].n \in Nat /\ c[i].k <= c[i].n
  BY <1>1 DEF Scored
<1>6. \A i \in Nonempty(c) : i \in DOMAIN c /\ c[i].n \in Nat \ {0}
  BY <1>5 DEF Nonempty
<1> QED BY <1>4, <1>5, <1>6

\* The flags of a meeting fit a whole number of times into the common
\* denominator.
LEMMA DenominatorFits ==
  ASSUME NEW c \in Seq(Scored)
  PROVE  /\ CommonDen(c) \in Nat \ {0}
         /\ \A i \in Nonempty(c) : /\ CommonDen(c) \div c[i].n \in Nat
                                   /\ c[i].n * (CommonDen(c) \div c[i].n) = CommonDen(c)
<1> DEFINE f == [i \in Nonempty(c) |-> c[i].n]
           P == FoldFunction(LAMBDA x, y : x * y, 1, f)
<1>1. P = CommonDen(c)
  BY DEF CommonDen
<1>2. f \in [Nonempty(c) -> Nat \ {0}] /\ IsFiniteSet(Nonempty(c))
  BY MeetingsCounted
<1>3. P \in Nat \ {0} /\ \A i \in Nonempty(c) : Multiple(P, f[i])
  <2> HIDE DEF f
  <2> QED BY <1>2, ProductIsMultiple
<1> HIDE DEF P
<1>4. ASSUME NEW i \in Nonempty(c)
      PROVE  P \div c[i].n \in Nat /\ c[i].n * (P \div c[i].n) = P
  <2> DEFINE n == c[i].n
  <2>1. n \in Nat \ {0}
    BY MeetingsCounted
  <2>2. PICK m \in Nat : P = n * m
    BY <1>3 DEF Multiple
  <2> HIDE DEF n
  <2>3. P \div n = m
    BY <1>3, <2>1, <2>2
  <2> QED BY <2>2, <2>3 DEF n
<1> QED BY <1>1, <1>3, <1>4

\* Hits and misses of each meeting are its flags.
Complement(c) == [i \in DOMAIN c |-> [k |-> c[i].n - c[i].k, n |-> c[i].n]]

LEMMA ComplementCounted ==
  ASSUME NEW c \in Seq(Scored)
  PROVE  /\ Complement(c) \in Seq(Scored)
         /\ DOMAIN Complement(c) = DOMAIN c
         /\ Nonempty(Complement(c)) = Nonempty(c)
         /\ NInfer(Complement(c)) = NInfer(c)
         /\ CommonDen(Complement(c)) = CommonDen(c)
         /\ Items(Complement(c)) = Items(c)
         /\ \A i \in DOMAIN c : /\ Complement(c)[i].k = c[i].n - c[i].k
                                /\ Complement(c)[i].n = c[i].n
<1> DEFINE e == Complement(c)
<1>1. /\ DOMAIN e = DOMAIN c
      /\ \A i \in DOMAIN c : e[i].k = c[i].n - c[i].k /\ e[i].n = c[i].n
  BY DEF Complement
<1>2. e \in Seq(Scored)
  <2>1. Len(c) \in Nat /\ DOMAIN c = 1 .. Len(c)
    OBVIOUS
  <2>2. \A i \in DOMAIN c : [k |-> c[i].n - c[i].k, n |-> c[i].n] \in Scored
    BY MeetingsCounted DEF Scored
  <2>3. e \in [1 .. Len(c) -> Scored]
    BY <2>1, <2>2 DEF Complement
  <2> HIDE DEF e
  <2> QED BY <2>1, <2>3
<1>3. Nonempty(e) = Nonempty(c) /\ \A i \in Nonempty(c) : i \in DOMAIN c
  BY <1>1 DEF Nonempty
<1>4. [i \in Nonempty(e) |-> e[i].n] = [i \in Nonempty(c) |-> c[i].n]
  BY <1>1, <1>3
<1> HIDE DEF e
<1>5. NInfer(e) = NInfer(c) /\ CommonDen(e) = CommonDen(c) /\ Items(e) = Items(c)
  BY <1>3, <1>4 DEF NInfer, CommonDen, Items
<1> QED BY <1>1, <1>2, <1>3, <1>5 DEF e

\* Weighted alike, hits and misses add up to the flags.
LEMMA WeightsAddUp ==
  ASSUME NEW c \in Seq(Scored), NEW W \in [Nonempty(c) -> Int]
  PROVE  LET hits   == SumFunction([i \in Nonempty(c) |-> c[i].k * W[i]])
             misses == SumFunction([i \in Nonempty(c) |-> (c[i].n - c[i].k) * W[i]])
             flags  == SumFunction([i \in Nonempty(c) |-> c[i].n * W[i]])
         IN  hits \in Int /\ misses \in Int /\ flags = hits + misses
<1> DEFINE D == Nonempty(c)
           f == [i \in D |-> c[i].k * W[i]]
           g == [i \in D |-> (c[i].n - c[i].k) * W[i]]
           e == [i \in D |-> c[i].n * W[i]]
<1>1. ASSUME NEW i \in D
      PROVE  f[i] \in Int /\ g[i] \in Int /\ e[i] = f[i] + g[i]
  <2> DEFINE k == c[i].k  n == c[i].n  w == W[i]
  <2>1. k \in Int /\ n \in Int /\ w \in Int
    BY MeetingsCounted
  <2>2. f[i] = k * w /\ g[i] = (n - k) * w /\ e[i] = n * w
    OBVIOUS
  <2> HIDE DEF k, n, w, f, g, e
  <2>3. k * w \in Int /\ (n - k) * w \in Int /\ n * w = k * w + (n - k) * w
    BY <2>1
  <2> QED BY <2>2, <2>3
<1>2. f \in [D -> Int] /\ g \in [D -> Int] /\ e \in [D -> Int] /\ IsFiniteSet(D)
  BY <1>1, MeetingsCounted
<1> HIDE DEF f, g, e, D
<1>3. AddUp(D, f, g, e)
  BY <1>1, <1>2 DEF AddUp
<1>4. SumFunction(e) = SumFunction(f) + SumFunction(g)
  BY <1>3, SumOfSums
<1>5. SumFunction(f) \in Int /\ SumFunction(g) \in Int
  BY <1>2, SumIsInt
<1> QED BY <1>4, <1>5 DEF f, g, e, D

LEMMA ProdsAddUp ==
  ASSUME NEW c \in Seq(Scored), NInfer(c) > 0
  PROVE  \E a \in Int, b \in Int, d \in Nat \ {0} :
           /\ Prod(c) = [num |-> a, den |-> d]
           /\ Prod(Complement(c)) = [num |-> b, den |-> d]
           /\ a + b = NInfer(c) * d
<1> DEFINE D == Nonempty(c)  e == Complement(c)  N == NInfer(c)
<1>0. IsFiniteSet(D) /\ N \in Nat /\ N = Cardinality(D)
  BY MeetingsCounted DEF NInfer
<1>1. CASE input.estimand = "meeting_weighted"
  <2> DEFINE P == CommonDen(c)
             W == [i \in D |-> P \div c[i].n]
             a == SumFunction([i \in D |-> c[i].k * W[i]])
             b == SumFunction([i \in D |-> (c[i].n - c[i].k) * W[i]])
  <2>1. P \in Nat \ {0} /\ W \in [D -> Int] /\ \A i \in D : c[i].n * W[i] = P
    BY DenominatorFits
  <2>2. a \in Int /\ b \in Int
        /\ SumFunction([i \in D |-> c[i].n * W[i]]) = a + b
    <3> HIDE DEF W
    <3> QED BY <2>1, WeightsAddUp
  <2>3. SumFunction([i \in D |-> c[i].n * W[i]]) = N * P
    <3> DEFINE s == [i \in D |-> c[i].n * W[i]]
    <3>1. DOMAIN s = D /\ \A i \in D : s[i] = P
      BY <2>1
    <3> HIDE DEF s, P, W
    <3>2. SumFunction(s) = Cardinality(D) * P
      BY <1>0, <2>1, <3>1, SumOfSame
    <3> QED BY <1>0, <3>2 DEF s
  <2>4. Prod(c) = [num |-> a, den |-> P]
    <3>1. [i \in D |-> c[i].k * W[i]] = [i \in D |-> c[i].k * (CommonDen(c) \div c[i].n)]
      OBVIOUS
    <3> QED BY <1>1, <3>1 DEF Prod
  <2>5. Prod(e) = [num |-> b, den |-> P]
    <3>1. [i \in Nonempty(e) |-> e[i].k * (CommonDen(e) \div e[i].n)]
            = [i \in D |-> (c[i].n - c[i].k) * W[i]]
      <4>1. \A i \in D : e[i].k = c[i].n - c[i].k /\ e[i].n = c[i].n
        BY MeetingsCounted, ComplementCounted
      <4>2. Nonempty(e) = D /\ CommonDen(e) = P
        BY ComplementCounted
      <4> HIDE DEF e
      <4> QED BY <4>1, <4>2
    <3>2. CommonDen(e) = P
      BY ComplementCounted
    <3> QED BY <1>1, <3>1, <3>2 DEF Prod
  <2> HIDE DEF a, b, P
  <2>6. a + b = NInfer(c) * P
    BY <2>2, <2>3
  <2> QED BY <2>1, <2>2, <2>4, <2>5, <2>6
<1>2. CASE input.estimand # "meeting_weighted"
  <2> DEFINE a == Successes(c)  b == Successes(e)  d == Items(c)
             W == [i \in D |-> 1]
  <2>1. /\ SumFunction([i \in D |-> c[i].k * W[i]]) = a
        /\ SumFunction([i \in D |-> c[i].n * W[i]]) = d
        /\ SumFunction([i \in D |-> (c[i].n - c[i].k) * W[i]]) = b
    <3>1. [i \in D |-> c[i].k * W[i]] = [i \in D |-> c[i].k]
      BY MeetingsCounted
    <3>2. [i \in D |-> c[i].n * W[i]] = [i \in D |-> c[i].n]
      BY MeetingsCounted
    <3>3. [i \in D |-> (c[i].n - c[i].k) * W[i]] = [i \in Nonempty(e) |-> e[i].k]
      <4>1. \A i \in D : e[i].k = c[i].n - c[i].k /\ (c[i].n - c[i].k) * W[i] = c[i].n - c[i].k
        BY MeetingsCounted, ComplementCounted
      <4>2. Nonempty(e) = D
        BY ComplementCounted
      <4> HIDE DEF e, W
      <4> QED BY <4>1, <4>2
    <3> QED BY <3>1, <3>2, <3>3 DEF Successes, Items
  <2>2. a \in Int /\ b \in Int /\ d = a + b
    <3>1. W \in [D -> Int]
      OBVIOUS
    <3> HIDE DEF W
    <3> QED BY <2>1, <3>1, WeightsAddUp
  <2>3. d \in Nat \ {0}
    <3> DEFINE f == [i \in D |-> c[i].n]
               g == [i \in D |-> c[i].n - 1]
               u == [i \in D |-> 1]
    <3>1. /\ f \in [D -> Int] /\ g \in [D -> Int] /\ u \in [D -> Int]
          /\ \A i \in D : f[i] = g[i] + u[i] /\ g[i] >= 0 /\ u[i] = 1
      BY MeetingsCounted
    <3> HIDE DEF f, g, u, D
    <3>2. SumFunction(f) = SumFunction(g) + SumFunction(u)
      <4>1. AddUp(D, g, u, f)
        BY <1>0, <3>1 DEF AddUp, D
      <4> QED BY <4>1, SumOfSums
    <3>3. SumFunction(u) = Cardinality(D) * 1
      BY <1>0, <3>1, SumOfSame
    <3>4. SumFunction(g) \in Int /\ SumFunction(g) >= 0
      BY <1>0, <3>1, SumIsInt
    <3>5. SumFunction(f) = d
      BY DEF Items, f, D
    <3> QED BY <1>0, <3>2, <3>3, <3>4, <3>5
  <2>4. Prod(c) = [num |-> a * N, den |-> d]
    BY <1>2 DEF Prod
  <2>5. Prod(e) = [num |-> b * N, den |-> d]
    BY <1>2, ComplementCounted DEF Prod
  <2> HIDE DEF a, b, d, N
  <2>6. a * N \in Int /\ b * N \in Int /\ a * N + b * N = N * d
    BY <1>0, <2>2
  <2> QED BY <2>3, <2>4, <2>5, <2>6 DEF N
<1> QED BY <1>1, <1>2

\* A half rounded down is not above the same half rounded up.
LEMMA HalvesInOrder ==
  ASSUME NEW a \in Int, NEW d \in Nat \ {0}
  PROVE  RoundHalfDown([num |-> a, den |-> d]) <= RoundHalfUp([num |-> a, den |-> d])
<1> DEFINE y == 2 * d  u == (d - 2 * a) \div y  v == (2 * a + d) \div y
<1>1. y \in Nat \ {0} /\ d - 2 * a \in Int /\ 2 * a + d \in Int
  OBVIOUS
<1>2. ASSUME NEW i \in Int, NEW z \in Nat \ {0}
      PROVE  i \div z \in Int /\ i < z * (i \div z) + z
  OBVIOUS
<1> HIDE DEF y
<1>3. u \in Int /\ v \in Int /\ d - 2 * a < y * u + y /\ 2 * a + d < y * v + y
  BY <1>1, <1>2
<1> HIDE DEF u, v
<1>4. y * (u + v) + y > 0
  <2>1. y * u \in Int /\ y * v \in Int /\ y * (u + v) = y * u + y * v
    BY <1>1, <1>3
  <2> QED BY <1>1, <1>3, <2>1 DEF y
<1>5. u + v >= 0
  <2> SUFFICES ASSUME u + v <= -1 PROVE FALSE
    BY <1>3
  <2>1. y * (u + v) <= y * (-1)
    BY <1>1, <1>3
  <2> QED BY <1>1, <1>3, <1>4, <2>1
<1>6. -u <= v
  BY <1>3, <1>5
<1> QED BY <1>6 DEF RoundHalfDown, RoundHalfUp, u, v, y

\* The rounding of the point estimate favours neither side (verdict_single):
\* hits rounded for the lower bound and misses rounded for the upper bound are
\* the meetings, and the lower bound is never taken for more hits than the
\* upper, for any counts and either estimand.
THEOREM RoundsFairly == VSpec => []NoSideFavoured
<1>1. Asked => NoSideFavoured
  <2> SUFFICES ASSUME Asked, input.kind = "single", NInfer(M) > 0
               PROVE  Rounded(M).lo + Rounded(Misses).hi = NInfer(M)
                      /\ Rounded(M).lo <= Rounded(M).hi
    BY DEF NoSideFavoured
  <2>1. M \in Seq(Scored)
    BY SinglesAssumption, PairedsAssumption DEF Asked, M
  <2>2. Misses = Complement(M)
    BY DEF Misses, Complement
  <2>3. NInfer(M) \in Nat
    BY <2>1, MeetingsCounted
  <2>4. Rounded(M).lo + Rounded(Misses).hi = NInfer(M)
    <3>1. RoundHalfDown(Prod(M)) + RoundHalfUp(Prod(Misses)) = NInfer(M)
      BY <2>1, <2>2, <2>3, ProdsAddUp, HalvesAddUp
    <3> QED BY <3>1 DEF Rounded
  <2>5. Rounded(M).lo <= Rounded(M).hi
    <3>1. PICK a \in Int, d \in Nat \ {0} : Prod(M) = [num |-> a, den |-> d]
      BY <2>1, ProdsAddUp
    <3> QED BY <3>1, HalvesInOrder DEF Rounded
  <2> QED BY <2>4, <2>5
<1> QED BY <1>1, AskedHolds, PTL

-----------------------------------------------------------------------------
(* The binomial weights.                                                   *)

Row(m, v, t) ==
  IF m = 0 THEN [j \in {0} |-> 1]
  ELSE [j \in 0 .. m |-> (IF j > 0 THEN t.num * v[j - 1] ELSE 0)
                         + (IF j < m THEN (t.den - t.num) * v[j] ELSE 0)]

Rows(w, n, t) ==
  w = [m \in 0 .. n |-> w[m]] /\ \A m \in 0 .. n : w[m] = Row(m, w[m - 1], t)

LEMMA RowsExist ==
  ASSUME NEW n \in Nat, NEW t
  PROVE  \E w : Rows(w, n, t)
<1> DEFINE T == { k \in 1 .. n + 1 : \E w : Rows(w, k - 1, t) }
<1>1. 1 \in T
  <2> DEFINE w == [m \in 0 .. 0 |-> Row(0, 0, t)]
  <2>1. w = [m \in 0 .. 0 |-> w[m]] /\ \A m \in 0 .. 0 : w[m] = Row(m, w[m - 1], t)
    BY DEF Row
  <2> HIDE DEF w
  <2>2. Rows(w, 0, t)
    BY <2>1 DEF Rows
  <2>3. 1 - 1 = 0 /\ 1 \in 1 .. n + 1
    OBVIOUS
  <2> QED BY <2>2, <2>3
<1>2. ASSUME NEW k \in 2 .. n + 1, k - 1 \in T PROVE k \in T
  <2> DEFINE b == k - 2
  <2>1. b \in Nat /\ k - 1 = b + 1 /\ (k - 1) - 1 = b
    OBVIOUS
  <2>2. PICK v : Rows(v, b, t)
    BY <1>2, <2>1
  <2> DEFINE w == [m \in 0 .. b + 1 |-> IF m <= b THEN v[m] ELSE Row(b + 1, v[b], t)]
  <2> HIDE DEF b
  <2>3. w = [m \in 0 .. b + 1 |-> w[m]]
    OBVIOUS
  <2>4. \A m \in 0 .. b : w[m] = v[m]
    BY <2>1
  <2>5. w[b + 1] = Row(b + 1, v[b], t)
    BY <2>1
  <2> HIDE DEF w
  <2>6. ASSUME NEW m \in 0 .. b + 1 PROVE w[m] = Row(m, w[m - 1], t)
    <3>1. CASE m = b + 1
      <4>1. m - 1 = b /\ w[b] = v[b]
        BY <2>1, <2>4, <3>1
      <4> QED BY <2>5, <3>1, <4>1
    <3>2. CASE m = 0
      <4>1. m \in 0 .. b
        BY <2>1, <3>2
      <4>2. w[m] = v[m] /\ v[m] = Row(m, v[m - 1], t)
        BY <2>2, <2>4, <4>1 DEF Rows
      <4> QED BY <3>2, <4>2 DEF Row
    <3>3. CASE m # b + 1 /\ m # 0
      <4>1. m \in 0 .. b /\ m - 1 \in 0 .. b
        BY <2>1, <3>3
      <4> QED BY <2>2, <2>4, <4>1 DEF Rows
    <3> QED BY <3>1, <3>2, <3>3
  <2>7. Rows(w, b + 1, t)
    BY <2>3, <2>6 DEF Rows
  <2> QED BY <2>1, <2>7
<1>3. n + 1 \in T
  <2>1. \A k \in 1 .. n + 1 : k \in T
    <3> HIDE DEF T
    <3>1. n + 1 \in Nat
      OBVIOUS
    <3> QED BY <1>1, <1>2, <3>1, AllReached
  <2> QED BY <2>1
<1>4. (n + 1) - 1 = n
  OBVIOUS
<1> QED BY <1>3, <1>4

LEMMA RowsChosen ==
  ASSUME NEW n \in Nat, NEW t, NEW v, Rows(v, n, t)
  PROVE  \E w : Rows(w, n, t) /\ Weights(n, t) = w[n]
<1> DEFINE w == CHOOSE w : w = [m \in 0 .. n |->
                   IF m = 0 THEN [j \in {0} |-> 1]
                   ELSE [j \in 0 .. m |-> (IF j > 0 THEN t.num * w[m - 1][j - 1] ELSE 0)
                                          + (IF j < m THEN (t.den - t.num) * w[m - 1][j] ELSE 0)]]
<1>1. Weights(n, t) = w[n]
  BY DEF Weights
<1>2. v = [m \in 0 .. n |->
                   IF m = 0 THEN [j \in {0} |-> 1]
                   ELSE [j \in 0 .. m |-> (IF j > 0 THEN t.num * v[m - 1][j - 1] ELSE 0)
                                          + (IF j < m THEN (t.den - t.num) * v[m - 1][j] ELSE 0)]]
  BY DEF Rows, Row
<1>3. w = [m \in 0 .. n |->
                   IF m = 0 THEN [j \in {0} |-> 1]
                   ELSE [j \in 0 .. m |-> (IF j > 0 THEN t.num * w[m - 1][j - 1] ELSE 0)
                                          + (IF j < m THEN (t.den - t.num) * w[m - 1][j] ELSE 0)]]
  BY <1>2
<1> HIDE DEF w
<1>4. Rows(w, n, t)
  BY <1>3 DEF Rows, Row
<1> QED BY <1>1, <1>4

\* No number of hits has a negative weight.
LEMMA WeightsAreNat ==
  ASSUME NEW n \in Nat, NEW t, IsShare(t)
  PROVE  \A j \in 0 .. n : Weights(n, t)[j] \in Nat
<1>1. PICK w : Rows(w, n, t) /\ Weights(n, t) = w[n]
  <2>1. \E v : Rows(v, n, t)
    BY RowsExist
  <2> QED BY <2>1, RowsChosen
<1> DEFINE T == { k \in 1 .. n + 1 : \A j \in 0 .. k - 1 : w[k - 1][j] \in Nat }
<1>2. 1 \in T
  <2>1. w[0] = [j \in {0} |-> 1]
    BY <1>1 DEF Rows, Row
  <2>2. 0 .. 0 = {0} /\ 1 - 1 = 0 /\ 1 \in 1 .. n + 1
    OBVIOUS
  <2>3. \A j \in 0 .. 0 : w[0][j] \in Nat
    BY <2>1, <2>2
  <2> QED BY <2>2, <2>3
<1>3. ASSUME NEW k \in 2 .. n + 1, k - 1 \in T PROVE k \in T
  <2> DEFINE m == k - 1
  <2>1. m \in 1 .. n /\ m - 1 = k - 2 /\ (k - 1) - 1 = m - 1
    OBVIOUS
  <2>2. \A j \in 0 .. m - 1 : w[m - 1][j] \in Nat
    BY <1>3, <2>1
  <2> HIDE DEF m
  <2> DEFINE v == w[m - 1]
  <2>3. w[m] = Row(m, v, t)
    <3>1. m \in 0 .. n
      BY <2>1
    <3> QED BY <1>1, <3>1 DEF Rows
  <2>4. \A j \in 0 .. m - 1 : v[j] \in Nat
    BY <2>2
  <2> HIDE DEF v
  <2>5. ASSUME NEW j \in 0 .. m PROVE w[m][j] \in Nat
    <3> DEFINE a == IF j > 0 THEN t.num * v[j - 1] ELSE 0
               b == IF j < m THEN (t.den - t.num) * v[j] ELSE 0
    <3>1. a \in Nat
      <4>1. CASE j > 0
        <5>1. j - 1 \in 0 .. m - 1
          BY <2>1, <4>1
        <5>2. v[j - 1] \in Nat /\ t.num \in Nat
          BY <2>4, <5>1 DEF IsShare
        <5>3. t.num * v[j - 1] \in Nat
          BY <5>2
        <5> QED BY <4>1, <5>3
      <4> QED BY <4>1
    <3>2. b \in Nat
      <4>1. CASE j < m
        <5>1. j \in 0 .. m - 1
          BY <2>1, <4>1
        <5>2. v[j] \in Nat /\ t.den - t.num \in Nat
          BY <2>4, <5>1 DEF IsShare
        <5>3. (t.den - t.num) * v[j] \in Nat
          BY <5>2
        <5> QED BY <4>1, <5>3
      <4> QED BY <4>1
    <3>3. w[m][j] = a + b
      <4>1. m # 0
        BY <2>1
      <4> QED BY <2>3, <4>1 DEF Row
    <3> HIDE DEF a, b
    <3> QED BY <3>1, <3>2, <3>3
  <2>6. \A j \in 0 .. k - 1 : w[k - 1][j] \in Nat
    BY <2>5 DEF m
  <2> QED BY <2>6
<1>4. n + 1 \in T
  <2>1. \A k \in 1 .. n + 1 : k \in T
    <3> HIDE DEF T
    <3>1. n + 1 \in Nat
      OBVIOUS
    <3> QED BY <1>2, <1>3, <3>1, AllReached
  <2> QED BY <2>1
<1>5. (n + 1) - 1 = n
  OBVIOUS
<1> QED BY <1>1, <1>4, <1>5

LEMMA CasesGrow ==
  ASSUME NEW n \in Nat, NEW t, IsShare(t), NEW J, NEW K, J \in SUBSET K, K \in SUBSET (0 .. n)
  PROVE  /\ Cases(J, n, t) \in Int /\ Cases(K, n, t) \in Int
         /\ Cases(J, n, t) <= Cases(K, n, t)
<1> DEFINE v == Weights(n, t)
           f == [j \in J |-> v[j]]
           g == [j \in K |-> v[j]]
           e == [j \in K |-> IF j \in J THEN v[j] ELSE 0]
<1>1. IsFiniteSet(K)
  <2>1. IsFiniteSet(0 .. n)
    BY FS_Interval
  <2> QED BY <2>1, FS_Subset
<1>2. \A j \in K : v[j] \in Nat
  BY WeightsAreNat
<1> HIDE DEF v
<1>3. Padded(J, K, f, e)
  BY <1>1, <1>2 DEF Padded
<1>4. Below(K, e, g)
  BY <1>1, <1>2 DEF Below
<1>5. Cases(J, n, t) = SumFunction(f) /\ Cases(K, n, t) = SumFunction(g)
  BY DEF Cases, v
<1> HIDE DEF f, g, e
<1> QED BY <1>3, <1>4, <1>5, ZerosSilent, SumOfLess

\* What the bounds of the interval need of an input.
Askable == /\ IsShare(input.target)
           /\ input.num \in Nat /\ input.den \in Nat \ {0}

\* If the upper bound for k hits is below the target, so is that for fewer.
LEMMA FewerStayBelow ==
  ASSUME Askable, NEW n \in Nat, NEW k \in Int, NEW l \in Int, l <= k,
         UpperBelow(k, n, input.target)
  PROVE  UpperBelow(l, n, input.target)
<1> DEFINE t == input.target  u == input.den  r == input.num * Cases(0 .. n, n, t)
           x == Cases(0 .. l, n, t)  y == Cases(0 .. k, n, t)
<1>1. k < n /\ 2 * u * y < r
  BY DEF UpperBelow
<1>2. IsShare(t) /\ u \in Nat \ {0} /\ input.num \in Nat
  BY DEF Askable
<1>3. x \in Int /\ y \in Int /\ x <= y
  <2>1. 0 .. l \in SUBSET (0 .. k) /\ 0 .. k \in SUBSET (0 .. n)
    BY <1>1
  <2> QED BY <1>2, <2>1, CasesGrow
<1>4. r \in Int
  <2>1. Cases(0 .. n, n, t) \in Int
    BY <1>2, CasesGrow
  <2> QED BY <1>2, <2>1
<1> HIDE DEF u, x, y, r
<1>5. 2 * u * x <= 2 * u * y /\ 2 * u * x \in Int /\ 2 * u * y \in Int
  BY <1>2, <1>3
<1>6. l < n /\ 2 * u * x < r
  BY <1>1, <1>4, <1>5
<1> QED BY <1>6 DEF UpperBelow, u, x, r

\* If the lower bound for k hits reaches the target, so does that for more.
LEMMA MoreStillReach ==
  ASSUME Askable, NEW n \in Nat, NEW k \in Int, NEW l \in Int, k <= l,
         LowerReaches(k, n, input.target)
  PROVE  LowerReaches(l, n, input.target)
<1> DEFINE t == input.target  u == input.den  r == input.num * Cases(0 .. n, n, t)
           x == Cases(l .. n, n, t)  y == Cases(k .. n, n, t)
<1> SUFFICES ASSUME t.num # 0 PROVE LowerReaches(l, n, t)
  BY DEF LowerReaches
<1>1. k > 0 /\ 2 * u * y <= r
  BY DEF LowerReaches
<1>2. IsShare(t) /\ u \in Nat \ {0} /\ input.num \in Nat
  BY DEF Askable
<1>3. x \in Int /\ y \in Int /\ x <= y
  <2>1. l .. n \in SUBSET (k .. n) /\ k .. n \in SUBSET (0 .. n)
    BY <1>1
  <2> QED BY <1>2, <2>1, CasesGrow
<1>4. r \in Int
  <2>1. Cases(0 .. n, n, t) \in Int
    BY <1>2, CasesGrow
  <2> QED BY <1>2, <2>1
<1> HIDE DEF u, x, y, r
<1>5. 2 * u * x <= 2 * u * y /\ 2 * u * x \in Int /\ 2 * u * y \in Int
  BY <1>2, <1>3
<1>6. l > 0 /\ 2 * u * x <= r
  BY <1>1, <1>4, <1>5
<1> QED BY <1>6 DEF LowerReaches, u, x, r

LEMMA RoundsInOrder ==
  ASSUME NEW a \in Int, NEW b \in Int, NEW d \in Nat \ {0}, a <= b
  PROVE  LET low  == [num |-> a, den |-> d]
             high == [num |-> b, den |-> d]
         IN  /\ RoundHalfUp(low) \in Int /\ RoundHalfUp(high) \in Int
             /\ RoundHalfDown(low) \in Int /\ RoundHalfDown(high) \in Int
             /\ RoundHalfUp(low) <= RoundHalfUp(high)
             /\ RoundHalfDown(low) <= RoundHalfDown(high)
<1>1. ASSUME NEW x \in Int, NEW y \in Int, NEW z \in Nat \ {0}, x <= y
      PROVE  x \div z \in Int /\ y \div z \in Int /\ x \div z <= y \div z
  BY <1>1
<1> DEFINE z == 2 * d
<1>2. z \in Nat \ {0} /\ 2 * a + d \in Int /\ 2 * b + d \in Int /\ 2 * a + d <= 2 * b + d
      /\ d - 2 * a \in Int /\ d - 2 * b \in Int /\ d - 2 * b <= d - 2 * a
  OBVIOUS
<1> HIDE DEF z
<1>3. (2 * a + d) \div z <= (2 * b + d) \div z
      /\ (2 * a + d) \div z \in Int /\ (2 * b + d) \div z \in Int
  BY <1>1, <1>2
<1>4. (d - 2 * b) \div z <= (d - 2 * a) \div z
      /\ (d - 2 * a) \div z \in Int /\ (d - 2 * b) \div z \in Int
  BY <1>1, <1>2
<1> QED BY <1>3, <1>4 DEF RoundHalfUp, RoundHalfDown, z

-----------------------------------------------------------------------------
(* More hits.                                                              *)

\* The same meetings, none with fewer hits.
NoWorse(c, e) ==
  /\ c \in Seq(Scored) /\ e \in Seq(Scored) /\ DOMAIN e = DOMAIN c
  /\ \A i \in DOMAIN c : e[i].n = c[i].n /\ c[i].k <= e[i].k

LEMMA SameMeetings ==
  ASSUME NEW c, NEW e, NoWorse(c, e)
  PROVE  /\ Nonempty(e) = Nonempty(c) /\ NInfer(e) = NInfer(c)
         /\ CommonDen(e) = CommonDen(c) /\ Items(e) = Items(c)
<1>1. Nonempty(e) = Nonempty(c) /\ \A i \in Nonempty(c) : i \in DOMAIN c
  BY DEF NoWorse, Nonempty
<1>2. [i \in Nonempty(e) |-> e[i].n] = [i \in Nonempty(c) |-> c[i].n]
  BY <1>1 DEF NoWorse
<1> QED BY <1>1, <1>2 DEF NInfer, CommonDen, Items

\* The point estimate as a fraction over a positive denominator that only
\* depends on the flags.
LEMMA PointType ==
  ASSUME NEW c \in Seq(Scored), NInfer(c) > 0
  PROVE  \E a \in Int, d \in Nat \ {0} : Prod(c) = [num |-> a, den |-> d]
BY ProdsAddUp

LEMMA EstimateGrows ==
  ASSUME NEW c, NEW e, NoWorse(c, e), NInfer(c) > 0
  PROVE  \E a \in Int, b \in Int, d \in Nat \ {0} :
           /\ Prod(c) = [num |-> a, den |-> d]
           /\ Prod(e) = [num |-> b, den |-> d]
           /\ a <= b
<1> DEFINE D == Nonempty(c)
<1>1. c \in Seq(Scored) /\ e \in Seq(Scored)
  BY DEF NoWorse
<1>2. PICK d \in Nat \ {0} : \E a \in Int : Prod(c) = [num |-> a, den |-> d]
  BY <1>1, PointType
<1>3. /\ IsFiniteSet(D) /\ NInfer(c) \in Nat
      /\ \A i \in D : c[i].k \in Nat /\ e[i].k \in Nat /\ c[i].k <= e[i].k
                      /\ c[i].n = e[i].n
  BY <1>1, MeetingsCounted DEF NoWorse
<1>4. /\ Nonempty(e) = D /\ NInfer(e) = NInfer(c)
      /\ CommonDen(e) = CommonDen(c) /\ Items(e) = Items(c)
  BY SameMeetings
<1>5. CASE input.estimand = "meeting_weighted"
  <2> DEFINE W == [i \in D |-> CommonDen(c) \div c[i].n]
             f == [i \in D |-> c[i].k * W[i]]
             g == [i \in D |-> e[i].k * W[i]]
  <2>1. \A i \in D : W[i] \in Nat
    BY <1>1, DenominatorFits
  <2>2. Prod(c) = [num |-> SumFunction(f), den |-> CommonDen(c)]
    <3>1. f = [i \in D |-> c[i].k * (CommonDen(c) \div c[i].n)]
      OBVIOUS
    <3> HIDE DEF f
    <3> QED BY <1>5, <3>1 DEF Prod
  <2>3. Prod(e) = [num |-> SumFunction(g), den |-> CommonDen(c)]
    <3>1. g = [i \in Nonempty(e) |-> e[i].k * (CommonDen(e) \div e[i].n)]
      BY <1>3, <1>4
    <3> HIDE DEF g
    <3> QED BY <1>4, <1>5, <3>1 DEF Prod
  <2>4. Below(D, f, g)
    <3>1. ASSUME NEW i \in D PROVE f[i] \in Int /\ g[i] \in Int /\ f[i] <= g[i]
      <4> DEFINE x == c[i].k  y == e[i].k  z == W[i]
      <4>1. x \in Nat /\ y \in Nat /\ x <= y /\ z \in Nat
        BY <1>3, <2>1
      <4>2. f[i] = x * z /\ g[i] = y * z
        OBVIOUS
      <4> HIDE DEF x, y, z, f, g
      <4>3. x * z <= y * z /\ x * z \in Int /\ y * z \in Int
        BY <4>1
      <4> QED BY <4>2, <4>3
    <3> QED BY <1>3, <3>1 DEF Below
  <2> HIDE DEF f, g
  <2>5. SumFunction(f) \in Int /\ SumFunction(g) \in Int /\ SumFunction(f) <= SumFunction(g)
    BY <2>4, SumOfLess
  <2>6. CommonDen(c) \in Nat \ {0}
    BY <1>1, DenominatorFits
  <2> QED BY <2>2, <2>3, <2>5, <2>6
<1>6. CASE input.estimand # "meeting_weighted"
  <2> DEFINE f == [i \in D |-> c[i].k]
             g == [i \in D |-> e[i].k]
             x == Successes(c)  y == Successes(e)  N == NInfer(c)
  <2>1. Below(D, f, g)
    BY <1>3 DEF Below
  <2>2. x = SumFunction(f) /\ y = SumFunction(g)
    BY <1>4 DEF Successes
  <2> HIDE DEF f, g
  <2>3. x \in Int /\ y \in Int /\ x <= y
    BY <2>1, <2>2, SumOfLess
  <2>4. Prod(c) = [num |-> x * N, den |-> Items(c)] /\ Prod(e) = [num |-> y * N, den |-> Items(c)]
    BY <1>4, <1>6 DEF Prod
  <2>5. Items(c) \in Nat \ {0}
    <3>1. PICK a \in Int : Prod(c) = [num |-> a, den |-> d]
      BY <1>2
    <3>2. Prod(c).den = d /\ Prod(c).den = Items(c)
      BY <2>4, <3>1
    <3> QED BY <3>2
  <2> HIDE DEF x, y, N
  <2>6. N \in Nat
    BY <1>3 DEF N
  <2>7. x * N \in Int /\ y * N \in Int /\ x * N <= y * N
    BY <2>3, <2>6
  <2> QED BY <2>4, <2>5, <2>7
<1> QED BY <1>5, <1>6

\* Better meetings fail only if the worse ones do and meet the target if these
\* do.
LEMMA BetterJudged ==
  ASSUME Askable, NEW c, NEW e, NoWorse(c, e), NInfer(c) > 0
  PROVE  (HasFailed(e) => HasFailed(c)) /\ (HasMet(c) => HasMet(e))
<1>1. PICK a \in Int, b \in Int, d \in Nat \ {0} :
        /\ Prod(c) = [num |-> a, den |-> d]
        /\ Prod(e) = [num |-> b, den |-> d]
        /\ a <= b
  BY EstimateGrows
<1>2. NInfer(e) = NInfer(c) /\ NInfer(c) \in Nat
  BY SameMeetings, MeetingsCounted DEF NoWorse
<1>3. /\ RoundHalfUp(Prod(c)) \in Int /\ RoundHalfUp(Prod(e)) \in Int
      /\ RoundHalfDown(Prod(c)) \in Int /\ RoundHalfDown(Prod(e)) \in Int
      /\ RoundHalfUp(Prod(c)) <= RoundHalfUp(Prod(e))
      /\ RoundHalfDown(Prod(c)) <= RoundHalfDown(Prod(e))
  BY <1>1, RoundsInOrder
<1>4. HasFailed(e) => HasFailed(c)
  BY <1>2, <1>3, FewerStayBelow DEF HasFailed, Rounded
<1>5. HasMet(c) => HasMet(e)
  BY <1>2, <1>3, MoreStillReach DEF HasMet, Rounded
<1> QED BY <1>4, <1>5

\* What the guards knew of the meetings when they failed or met the target.
Sound ==
  /\ Asked
  /\ verdict \in {"FAILS_TARGET", "MEETS_TARGET"} => input.kind = "single" /\ NInfer(M) > 1
  /\ verdict = "FAILS_TARGET" => HasFailed(M)
  /\ verdict = "MEETS_TARGET" => HasMet(M) /\ ~HasFailed(M) /\ NInfer(M) >= input.floor

LEMMA SoundHolds == VSpec => []Sound
<1>1. VInit => Sound
  BY DEF VInit, Sound, Asked, Judged
<1>2. Sound /\ Asked' /\ [VNext]_vvars => Sound'
  <2> SUFFICES ASSUME Sound, Asked', [VNext]_vvars PROVE Sound'
    OBVIOUS
  <2>1. input' = input
    BY DEF VNext, vvars, Undefined, TooFew, Fails, Uniform, BelowFloor, Meets, Straddles,
           RefusePair, NothingCommon, Underpowered, Significant, Inconclusive
  <2>2. /\ M' = M /\ NInfer(M)' = NInfer(M)
        /\ HasFailed(M)' = HasFailed(M) /\ HasMet(M)' = HasMet(M)
    BY <2>1 DEF M, HasFailed, HasMet, Rounded, Prod, UpperBelow, LowerReaches
  <2>3. CASE Fails
    BY <2>1, <2>2, <2>3 DEF Sound, Fails, Compared, Pending
  <2>4. CASE Meets
    BY <2>1, <2>2, <2>4 DEF Sound, Meets, Inferable, Compared, Pending
  <2>5. CASE verdict' \notin {"FAILS_TARGET", "MEETS_TARGET"}
    BY <2>5 DEF Sound
  <2>6. CASE verdict' = verdict
    BY <2>1, <2>2, <2>6 DEF Sound
  <2>7. Fails \/ Meets \/ verdict' \notin {"FAILS_TARGET", "MEETS_TARGET"} \/ verdict' = verdict
    BY DEF VNext, vvars, Undefined, TooFew, Uniform, BelowFloor, Straddles, RefusePair,
           NothingCommon, Underpowered, Significant, Inconclusive
  <2> QED BY <2>3, <2>4, <2>5, <2>6, <2>7
<1> QED BY <1>1, <1>2, AskedHolds, PTL DEF VSpec

\* One meeting with another number of hits.
LEMMA OneChanged ==
  ASSUME NEW c \in Seq(Scored), NEW i \in Nonempty(c), NEW x \in 0 .. c[i].n
  PROVE  LET e == [c EXCEPT ![i].k = x]
         IN  /\ e \in Seq(Scored) /\ DOMAIN e = DOMAIN c /\ e[i].k = x
             /\ \A j \in DOMAIN c : e[j].n = c[j].n /\ (j # i => e[j].k = c[j].k)
<1> DEFINE e == [c EXCEPT ![i].k = x]
<1>1. Len(c) \in Nat /\ DOMAIN c = 1 .. Len(c) /\ \A j \in DOMAIN c : c[j] \in Scored
  OBVIOUS
<1>2. i \in DOMAIN c /\ c[i] \in [k : Nat, n : Nat]
  BY <1>1 DEF Nonempty, Scored
<1>3. DOMAIN e = DOMAIN c /\ e[i] = [c[i] EXCEPT !.k = x]
      /\ \A j \in DOMAIN c : j # i => e[j] = c[j]
  BY <1>2
<1>4. e[i].k = x /\ e[i].n = c[i].n /\ e[i] \in Scored
  BY <1>2, <1>3 DEF Scored
<1>5. \A j \in DOMAIN c : e[j] \in Scored
  BY <1>1, <1>3, <1>4
<1>6. e = [j \in DOMAIN c |-> e[j]]
  OBVIOUS
<1> HIDE DEF e
<1>7. e \in [1 .. Len(c) -> Scored]
  BY <1>1, <1>3, <1>5, <1>6
<1>8. e \in Seq(Scored)
  BY <1>1, <1>7
<1> QED BY <1>3, <1>4, <1>8 DEF e

\* What the gates say of meetings that fail the target.
LEMMA FailureSaid ==
  ASSUME NEW c, NInfer(c) > 1, NInfer(c) \in Nat, HasFailed(c)
  PROVE  VerdictOn(c) = "FAILS_TARGET"
<1>1. NInfer(c) # 0 /\ NInfer(c) # 1
  OBVIOUS
<1> QED BY <1>1 DEF VerdictOn

\* What they say of enough meetings that meet it.
LEMMA SuccessSaid ==
  ASSUME NEW c, NInfer(c) > 1, NInfer(c) \in Nat, ~HasFailed(c), HasMet(c),
         ~(NInfer(c) < input.floor)
  PROVE  VerdictOn(c) = IF NoSpread(c) THEN "DEGENERATE" ELSE "MEETS_TARGET"
<1>1. NInfer(c) # 0 /\ NInfer(c) # 1
  OBVIOUS
<1>2. CASE NoSpread(c)
  BY <1>1, <1>2 DEF VerdictOn
<1>3. CASE ~NoSpread(c)
  BY <1>1, <1>3 DEF VerdictOn
<1> QED BY <1>2, <1>3

\* Verdicts follow the hits (verdict_single): whatever the meetings, the target
\* and alpha, with one hit less meetings that fail the target are said to fail
\* it again, and with one hit more those that meet it are said to meet it again
\* or, when that hit makes all of them alike, to be DEGENERATE.
THEOREM VerdictsFollowHits == VSpec => []HitsOnlyHelp
<1>1. Sound => HitsOnlyHelp
  <2> SUFFICES ASSUME Sound, verdict \in {"FAILS_TARGET", "MEETS_TARGET"},
                      NEW i \in Nonempty(M)
               PROVE  /\ verdict = "FAILS_TARGET" /\ M[i].k > 0 =>
                           VerdictOn(Worse(i)) = "FAILS_TARGET"
                      /\ verdict = "MEETS_TARGET" /\ M[i].k < M[i].n =>
                           VerdictOn(Better(i)) =
                             IF NoSpread(Better(i)) THEN "DEGENERATE" ELSE "MEETS_TARGET"
    BY DEF HitsOnlyHelp
  <2>1. input \in Singles /\ NInfer(M) > 1
    BY SinglesAssumption, PairedsAssumption DEF Sound, Asked
  <2>2. M \in Seq(Scored) /\ Askable /\ input.floor \in Nat
    BY <2>1, SinglesAssumption DEF M, Askable, IsLevel
  <2>3. i \in DOMAIN M /\ M[i].k \in Nat /\ M[i].n \in Nat /\ M[i].k <= M[i].n
        /\ NInfer(M) \in Nat
    BY <2>2, MeetingsCounted
  <2>4. ASSUME verdict = "FAILS_TARGET", M[i].k > 0
        PROVE  VerdictOn(Worse(i)) = "FAILS_TARGET"
    <3> DEFINE x == M[i].k - 1  e == [M EXCEPT ![i].k = x]
    <3>1. x \in 0 .. M[i].n /\ x <= M[i].k
      BY <2>3, <2>4
    <3>2. e = Worse(i)
      BY <2>3 DEF Worse
    <3> HIDE DEF x
    <3>3. /\ e \in Seq(Scored) /\ DOMAIN e = DOMAIN M /\ e[i].k = x
          /\ \A j \in DOMAIN M : e[j].n = M[j].n /\ (j # i => e[j].k = M[j].k)
      BY <2>2, <3>1, OneChanged
    <3> HIDE DEF e
    <3>4. \A j \in DOMAIN M : M[j].k \in Nat
      BY <2>2, MeetingsCounted
    <3>5. NoWorse(e, M)
      BY <2>2, <3>1, <3>3, <3>4 DEF NoWorse
    <3>6. NInfer(M) = NInfer(e)
      BY <3>5, SameMeetings
    <3>7. HasFailed(M) => HasFailed(e)
      BY <2>1, <2>2, <2>3, <3>5, <3>6, BetterJudged
    <3>8. HasFailed(e) /\ NInfer(e) > 1 /\ NInfer(e) \in Nat
      BY <2>1, <2>3, <2>4, <3>6, <3>7 DEF Sound
    <3> QED BY <3>2, <3>8, FailureSaid
  <2>5. ASSUME verdict = "MEETS_TARGET", M[i].k < M[i].n
        PROVE  VerdictOn(Better(i)) =
                 IF NoSpread(Better(i)) THEN "DEGENERATE" ELSE "MEETS_TARGET"
    <3> DEFINE x == M[i].k + 1  e == [M EXCEPT ![i].k = x]
    <3>1. x \in 0 .. M[i].n /\ M[i].k <= x
      BY <2>3, <2>5
    <3>2. e = Better(i)
      BY <2>3 DEF Better
    <3> HIDE DEF x
    <3>3. /\ e \in Seq(Scored) /\ DOMAIN e = DOMAIN M /\ e[i].k = x
          /\ \A j \in DOMAIN M : e[j].n = M[j].n /\ (j # i => e[j].k = M[j].k)
      BY <2>2, <3>1, OneChanged
    <3> HIDE DEF e
    <3>4. \A j \in DOMAIN M : M[j].k \in Nat
      BY <2>2, MeetingsCounted
    <3>5. NoWorse(M, e)
      BY <2>2, <3>1, <3>3, <3>4 DEF NoWorse
    <3>6. (HasFailed(e) => HasFailed(M)) /\ (HasMet(M) => HasMet(e))
      BY <2>1, <2>2, <2>3, <3>5, BetterJudged
    <3>7. NInfer(e) = NInfer(M)
      BY <3>5, SameMeetings
    <3>8. HasMet(e) /\ ~HasFailed(e) /\ NInfer(e) > 1 /\ NInfer(e) \in Nat
          /\ ~(NInfer(e) < input.floor)
      BY <2>1, <2>2, <2>3, <2>5, <3>6, <3>7 DEF Sound
    <3> QED BY <3>2, <3>8, SuccessSaid
  <2> QED BY <2>4, <2>5
<1> QED BY <1>1, SoundHolds, PTL

-----------------------------------------------------------------------------
(* Meetings that tie.                                                      *)

\* The same for a set of meetings.
LEMMA OutcomesCounted ==
  ASSUME NEW S, IsFiniteSet(S)
  PROVE  /\ IsFiniteSet([S -> {1, -1}])
         /\ Cardinality([S -> {1, -1}]) = 2 ^ Cardinality(S)
<1> DEFINE d == [x \in S |-> 0]
<1>1. DOMAIN d = S
  OBVIOUS
<1> HIDE DEF d
<1> QED BY <1>1, FlipsCounted DEF Flips

\* What comes out on D if what comes out on T is in P.
Extending(D, T, P) == { s \in [D -> {1, -1}] : Restrict(s, T) \in P }

\* What comes out on a part leaves free what comes out on the rest.
LEMMA RestIsFree ==
  ASSUME NEW D, IsFiniteSet(D), NEW T \in SUBSET D, NEW P \in SUBSET [T -> {1, -1}]
  PROVE  /\ IsFiniteSet(P) /\ IsFiniteSet(Extending(D, T, P))
         /\ Cardinality(Extending(D, T, P)) = Cardinality(P) * 2 ^ Cardinality(D \ T)
<1> DEFINE R == [D \ T -> {1, -1}]
           E == Extending(D, T, P)
           glue(c) == [x \in D |-> IF x \in T THEN c[1][x] ELSE c[2][x]]
           g == [c \in P \X R |-> glue(c)]
<1>1. IsFiniteSet(T) /\ IsFiniteSet(D \ T)
  BY FS_Subset
<1>2. IsFiniteSet(P) /\ IsFiniteSet(R) /\ Cardinality(R) = 2 ^ Cardinality(D \ T)
  BY <1>1, OutcomesCounted, FS_Subset
<1>3. ASSUME NEW u \in P, NEW v \in R
      PROVE  /\ glue(<<u, v>>) \in E
             /\ Restrict(glue(<<u, v>>), T) = u /\ Restrict(glue(<<u, v>>), D \ T) = v
  <2>1. u \in [T -> {1, -1}] /\ v \in [D \ T -> {1, -1}]
    OBVIOUS
  <2>2. glue(<<u, v>>) \in [D -> {1, -1}]
    BY <2>1
  <2>3. Restrict(glue(<<u, v>>), T) = u /\ Restrict(glue(<<u, v>>), D \ T) = v
    BY <2>1 DEF Restrict
  <2> QED BY <2>2, <2>3 DEF Extending
<1>4. g \in [P \X R -> E]
  <2>1. ASSUME NEW c \in P \X R PROVE glue(c) \in E
    <3>1. PICK u \in P, v \in R : c = <<u, v>>
      OBVIOUS
    <3> QED BY <1>3, <3>1
  <2> QED BY <2>1
<1>5. ASSUME NEW b \in P \X R, NEW c \in P \X R, g[b] = g[c] PROVE b = c
  <2>1. PICK u \in P, v \in R, u2 \in P, v2 \in R : b = <<u, v>> /\ c = <<u2, v2>>
    OBVIOUS
  <2>2. glue(<<u, v>>) = glue(<<u2, v2>>)
    BY <1>5, <2>1
  <2> HIDE DEF glue, R
  <2>3. u = u2 /\ v = v2
    BY <1>3, <2>2
  <2> QED BY <2>1, <2>3
<1>6. ASSUME NEW s \in E PROVE \E c \in P \X R : g[c] = s
  <2>1. s \in [D -> {1, -1}] /\ Restrict(s, T) \in P
    BY DEF Extending
  <2>2. Restrict(s, D \ T) \in R
    BY <2>1 DEF Restrict
  <2> DEFINE c == <<Restrict(s, T), Restrict(s, D \ T)>>
  <2>3. glue(c) = s
    BY <2>1 DEF Restrict
  <2> QED BY <2>1, <2>2, <2>3
<1>7. g \in Bijection(P \X R, E)
  BY <1>4, <1>5, <1>6 DEF Bijection, Injection, Surjection, IsInjective
<1> HIDE DEF g, R, E
<1>8. /\ IsFiniteSet(P \X R)
      /\ Cardinality(P \X R) = Cardinality(P) * Cardinality(R)
  BY <1>2, FS_Product
<1>9. IsFiniteSet(E) /\ Cardinality(E) = Cardinality(P \X R)
  BY <1>7, <1>8, FS_Bijection DEF ExistsBijection
<1> QED BY <1>2, <1>8, <1>9 DEF E

\* The powers of two.
LEMMA PowerOfPart ==
  ASSUME NEW D, IsFiniteSet(D), NEW T \in SUBSET D
  PROVE  /\ 2 ^ Cardinality(D) = 2 ^ Cardinality(T) * 2 ^ Cardinality(D \ T)
         /\ 2 ^ Cardinality(D) \in Nat \ {0}
<1> DEFINE P == [T -> {1, -1}]
<1>1. Extending(D, T, P) = [D -> {1, -1}]
  BY DEF Extending, Restrict
<1>2. IsFiniteSet(T) /\ Cardinality(P) = 2 ^ Cardinality(T)
  BY OutcomesCounted, FS_Subset
<1>3. Cardinality(Extending(D, T, P)) = Cardinality(P) * 2 ^ Cardinality(D \ T)
  BY RestIsFree
<1>4. 2 ^ Cardinality(D) \in Nat \ {0}
  <2>1. [x \in D |-> 1] \in [D -> {1, -1}]
    OBVIOUS
  <2>2. Cardinality([D -> {1, -1}]) # 0
    BY OutcomesCounted, <2>1, FS_EmptySet
  <2>3. Cardinality([D -> {1, -1}]) \in Nat
    BY OutcomesCounted, FS_CardinalityType
  <2> QED BY OutcomesCounted, <2>2, <2>3
<1> QED BY <1>1, <1>2, <1>3, <1>4, OutcomesCounted

\* A higher power of two is not smaller.
LEMMA PowersGrow ==
  /\ 2 ^ 0 = 1
  /\ \A n \in Nat : 2 ^ n \in Nat \ {0}
  /\ \A n \in Nat, m \in Nat : m <= n => 2 ^ m <= 2 ^ n
<1>1. 2 ^ 0 = 1
  <2>1. Cardinality({}) = 0 /\ IsFiniteSet({}) /\ SUBSET {} = {{}}
    BY FS_EmptySet
  <2>2. Cardinality(SUBSET {}) = 2 ^ Cardinality({})
    BY <2>1, FS_SUBSET
  <2>3. Cardinality({{}}) = 1
    BY FS_Singleton
  <2> QED BY <2>1, <2>2, <2>3
<1>2. ASSUME NEW n \in Nat PROVE IsFiniteSet(1 .. n) /\ Cardinality(1 .. n) = n
  <2>1. Cardinality(1 .. n) = IF 1 > n THEN 0 ELSE n - 1 + 1
    BY FS_Interval
  <2>2. IsFiniteSet(1 .. n)
    BY FS_Interval
  <2> QED BY <2>1, <2>2
<1>3. ASSUME NEW n \in Nat PROVE 2 ^ n \in Nat \ {0}
  <2>1. 2 ^ Cardinality(1 .. n) \in Nat \ {0}
    BY <1>2, PowerOfPart
  <2> QED BY <1>2, <2>1
<1>4. ASSUME NEW n \in Nat, NEW m \in Nat, m <= n PROVE 2 ^ m <= 2 ^ n
  <2>1. 1 .. m \in SUBSET (1 .. n)
    BY <1>4
  <2> DEFINE r == Cardinality((1 .. n) \ (1 .. m))
  <2>2. 2 ^ n = 2 ^ m * 2 ^ r
    BY <1>2, <2>1, PowerOfPart
  <2>3. r \in Nat
    BY <1>2, FS_Subset, FS_CardinalityType
  <2> HIDE DEF r
  <2>4. 2 ^ m \in Nat /\ 2 ^ r \in Nat \ {0}
    BY <1>3, <2>3
  <2> DEFINE a == 2 ^ m  b == 2 ^ r
  <2>5. 2 ^ n = a * b /\ a \in Nat /\ b \in Nat \ {0}
    BY <2>2, <2>4
  <2> HIDE DEF a, b
  <2>6. a <= a * b
    BY <2>5
  <2> QED BY <2>5, <2>6 DEF a
<1> QED BY <1>1, <1>3, <1>4

\* A sum of natural numbers, one of which is not 0, is not 0.
LEMMA OneCounts ==
  ASSUME NEW D, IsFiniteSet(D), NEW f \in [D -> Int], \A y \in D : f[y] >= 0,
         NEW x \in D, f[x] > 0
  PROVE  SumFunction(f) > 0
<1>1. PICK h : SumsOn(h, f, D) /\ SumFunction(f) = h[D]
  BY SumUnfolds
<1> DEFINE Q == { s \in SUBSET D : h[s] \in Int /\ h[s] >= 0 /\ (x \in s => h[s] > 0) }
<1>2. {} \in Q
  <2>1. h[{}] = 0
    BY <1>1 DEF SumsOn
  <2> QED BY <2>1
<1>3. ASSUME NEW s \in SUBSET D, s # {}, s \ {Picked(s)} \in Q PROVE s \in Q
  <2> DEFINE y == Picked(s)  r == s \ {y}
  <2>1. y \in s /\ y \in D
    BY <1>3 DEF Picked
  <2>2. h[s] = f[y] + h[r] /\ h[r] \in Int /\ h[r] >= 0 /\ (x \in r => h[r] > 0)
    BY <1>1, <1>3 DEF SumsOn
  <2>3. f[y] \in Int /\ f[y] >= 0
    BY <2>1
  <2>4. x \in s => x = y \/ x \in r
    OBVIOUS
  <2> HIDE DEF y, r
  <2>5. h[s] \in Int /\ h[s] >= 0 /\ (x \in s => h[s] > 0)
    BY <2>2, <2>3, <2>4
  <2> QED BY <2>5
<1>4. D \in Q
  <2> HIDE DEF Q
  <2> QED BY <1>2, <1>3, AllSubsets
<1> QED BY <1>1, <1>4

\* A sum in which one number is smaller is smaller.
LEMMA OneLess ==
  ASSUME NEW D, NEW f, NEW g, Below(D, f, g), NEW x \in D, f[x] < g[x]
  PROVE  /\ SumFunction(f) \in Int /\ SumFunction(g) \in Int
         /\ SumFunction(f) < SumFunction(g)
<1> DEFINE e == [y \in D |-> g[y] - f[y]]
<1>1. /\ IsFiniteSet(D) /\ f \in [D -> Int] /\ g \in [D -> Int] /\ e \in [D -> Int]
      /\ \A y \in D : g[y] = f[y] + e[y] /\ e[y] >= 0
      /\ e[x] > 0
  BY DEF Below
<1> HIDE DEF e
<1>2. AddUp(D, f, e, g)
  BY <1>1 DEF AddUp
<1>3. SumFunction(g) = SumFunction(f) + SumFunction(e)
  BY <1>2, SumOfSums
<1>4. SumFunction(f) \in Int /\ SumFunction(e) \in Int
  BY <1>1, SumIsInt
<1>5. SumFunction(e) > 0
  BY <1>1, OneCounts
<1> QED BY <1>3, <1>4, <1>5

\* The other way round, a sum has the other sign.
LEMMA SumOfNegatives ==
  ASSUME NEW D, IsFiniteSet(D), NEW f \in [D -> Int], NEW g \in [D -> Int],
         \A x \in D : g[x] = -f[x]
  PROVE  SumFunction(g) = -SumFunction(f)
<1> DEFINE z == [x \in D |-> 0]
<1>1. z \in [D -> Int] /\ \A x \in D : z[x] = f[x] + g[x] /\ z[x] = 0
  OBVIOUS
<1> HIDE DEF z
<1>2. AddUp(D, f, g, z)
  BY <1>1 DEF AddUp
<1>3. SumFunction(z) = SumFunction(f) + SumFunction(g)
  BY <1>2, SumOfSums
<1>4. SumFunction(z) = Cardinality(D) * 0 /\ Cardinality(D) \in Nat
  BY <1>1, SumOfSame, FS_CardinalityType
<1>5. SumFunction(f) \in Int /\ SumFunction(g) \in Int
  BY SumIsInt
<1> QED BY <1>3, <1>4, <1>5

\* If one detector is ahead in every meeting, only "ahead in all" and "behind in
\* all" are as extreme.
LEMMA TwoAsExtreme ==
  ASSUME NEW T, IsFiniteSet(T), T # {}, NEW e \in [T -> Nat \ {0}]
  PROVE  Cardinality(AsExtreme(e)) = 2
<1> DEFINE F == [T -> {1, -1}]
           one == [x \in T |-> 1]
           minus == [x \in T |-> -1]
           by(s) == [x \in T |-> s[x] * e[x]]
           S == SumFunction(e)
<1>1. DOMAIN e = T /\ Flips(e) = F /\ one \in F /\ minus \in F
  BY DEF Flips
<1>2. ASSUME NEW s \in F
      PROVE  /\ by(s) \in [T -> Int]
             /\ Net(s, e) = Abs(SumFunction(by(s)))
             /\ \A x \in T : \/ s[x] = 1 /\ by(s)[x] = e[x]
                             \/ s[x] = -1 /\ by(s)[x] = -e[x]
  <2>1. ASSUME NEW x \in T
        PROVE \/ s[x] = 1 /\ by(s)[x] = e[x]
              \/ s[x] = -1 /\ by(s)[x] = -e[x]
    <3>1. s[x] = 1 \/ s[x] = -1
      OBVIOUS
    <3>2. e[x] \in Int /\ by(s)[x] = s[x] * e[x]
      OBVIOUS
    <3> HIDE DEF by
    <3> QED BY <3>1, <3>2
  <2>2. \A x \in T : e[x] \in Int
    OBVIOUS
  <2>3. by(s) \in [T -> Int]
    BY <2>1, <2>2
  <2> QED BY <1>1, <2>1, <2>3 DEF Net
<1>3. S \in Int /\ S > 0
  <2>1. e \in [T -> Int] /\ \A x \in T : e[x] >= 0 /\ e[x] > 0
    OBVIOUS
  <2>2. PICK x \in T : TRUE
    OBVIOUS
  <2>3. SumFunction(e) \in Int /\ SumFunction(e) > 0
    BY <2>1, <2>2, SumIsInt, OneCounts
  <2> QED BY <2>3
<1>4. Net(one, e) = S /\ Observed(e) = S
  <2>1. by(one) = e
    OBVIOUS
  <2>2. Net(one, e) = Abs(S)
    BY <1>1, <1>2, <2>1
  <2> HIDE DEF S
  <2> QED BY <1>1, <1>3, <2>2 DEF Abs, Observed
<1>5. Net(minus, e) = S
  <2>1. by(minus) \in [T -> Int] /\ Net(minus, e) = Abs(SumFunction(by(minus)))
    BY <1>1, <1>2
  <2>2. \A x \in T : by(minus)[x] = -e[x]
    OBVIOUS
  <2>3. e \in [T -> Int]
    OBVIOUS
  <2>4. SumFunction(by(minus)) = -S
    <3> HIDE DEF by, minus
    <3> QED BY <2>1, <2>2, <2>3, SumOfNegatives
  <2> HIDE DEF S
  <2> QED BY <1>3, <2>1, <2>4 DEF Abs
<1>6. ASSUME NEW s \in F, s # one, s # minus PROVE Net(s, e) < S
  <2>1. PICK x \in T, y \in T : s[x] = 1 /\ s[y] = -1
    <3>1. \A x \in T : s[x] = 1 \/ s[x] = -1
      OBVIOUS
    <3>2. (\E x \in T : s[x] # 1) /\ (\E x \in T : s[x] # -1)
      BY <1>6
    <3> QED BY <3>1, <3>2
  <2> DEFINE f == by(s)  m == by(minus)
  <2>2. f \in [T -> Int] /\ m \in [T -> Int] /\ e \in [T -> Int]
    BY <1>1, <1>2
  <2>3. \A v \in T : m[v] = -e[v]
    OBVIOUS
  <2>4. Below(T, f, e) /\ f[y] < e[y]
    <3>1. \A v \in T : f[v] = e[v] \/ f[v] = -e[v]
      BY <1>2
    <3>2. \A v \in T : e[v] \in Int /\ e[v] > 0
      OBVIOUS
    <3>3. f[y] = -e[y]
      BY <1>2, <2>1
    <3> HIDE DEF f
    <3>4. (\A v \in T : f[v] <= e[v]) /\ f[y] < e[y]
      BY <3>1, <3>2, <3>3
    <3> QED BY <2>2, <3>4 DEF Below
  <2>5. Below(T, m, f) /\ m[x] < f[x]
    <3>1. \A v \in T : f[v] = e[v] \/ f[v] = -e[v]
      BY <1>2
    <3>2. \A v \in T : e[v] \in Int /\ e[v] > 0
      OBVIOUS
    <3>3. f[x] = e[x]
      BY <1>2, <2>1
    <3> HIDE DEF f, m
    <3>4. (\A v \in T : m[v] <= f[v]) /\ m[x] < f[x]
      BY <2>3, <3>1, <3>2, <3>3
    <3> QED BY <2>2, <3>4 DEF Below
  <2> HIDE DEF f, m
  <2>6. SumFunction(f) \in Int /\ SumFunction(f) < S
    BY <2>4, OneLess
  <2>7. SumFunction(m) < SumFunction(f)
    BY <2>5, OneLess
  <2>8. SumFunction(m) = -S
    BY <2>2, <2>3, SumOfNegatives
  <2>9. Net(s, e) = Abs(SumFunction(f))
    BY <1>2 DEF f
  <2> DEFINE a == SumFunction(f)
  <2> HIDE DEF S, a
  <2>10. a \in Int /\ a < S /\ -S < a /\ Net(s, e) = Abs(a)
    BY <2>6, <2>7, <2>8, <2>9 DEF a
  <2> QED BY <1>3, <2>10 DEF Abs
<1>7. AsExtreme(e) = {one, minus}
  <2>1. ASSUME NEW s \in F PROVE Net(s, e) >= Observed(e) <=> s = one \/ s = minus
    <3> HIDE DEF one, minus, S
    <3>1. CASE s = one
      BY <1>3, <1>4, <3>1
    <3>2. CASE s = minus
      BY <1>3, <1>4, <1>5, <3>2
    <3>3. CASE s # one /\ s # minus
      <4>1. Net(s, e) < S
        BY <1>6, <3>3
      <4>2. Net(s, e) \in Int
        <5>1. \A id \in DOMAIN e : s[id] * e[id] \in Int
          <6>1. by(s) \in [T -> Int]
            BY <1>2
          <6>2. \A id \in T : by(s)[id] = s[id] * e[id]
            OBVIOUS
          <6> HIDE DEF by
          <6> QED BY <1>1, <6>1, <6>2
        <5>2. Net(s, e) \in Nat
          BY <1>1, <5>1, NetIsNat
        <5> QED BY <5>2
      <4> QED BY <1>3, <1>4, <3>3, <4>1, <4>2
    <3> QED BY <3>1, <3>2, <3>3
  <2> HIDE DEF one, minus
  <2> QED BY <1>1, <2>1 DEF AsExtreme
<1>8. one # minus
  <2>1. PICK x \in T : TRUE
    OBVIOUS
  <2>2. one[x] = 1 /\ minus[x] = -1
    OBVIOUS
  <2> QED BY <2>2
<1>9. Cardinality({one, minus}) = 2
  <2> HIDE DEF one, minus
  <2>1. IsFiniteSet({one}) /\ Cardinality({one}) = 1
    BY FS_Singleton
  <2> DEFINE A == {one}
  <2>2. minus \notin A /\ {one, minus} = A \cup {minus}
    BY <1>8
  <2>3. IsFiniteSet(A) /\ Cardinality(A) = 1
    BY <2>1
  <2> HIDE DEF A
  <2>4. Cardinality(A \cup {minus}) = 1 + 1
    BY <2>2, <2>3, FS_AddElement
  <2> QED BY <2>2, <2>4
<1> QED BY <1>7, <1>9

\* The data without the meetings that tie.
WithoutTies(d) == Restrict(d, Untied(d))

\* A meeting that ties leaves every outcome as far apart as it is without it.
LEMMA TiesAddNothing ==
  ASSUME NEW D, IsFiniteSet(D), NEW d \in [D -> Int], NEW s \in [D -> {1, -1}]
  PROVE  /\ Restrict(s, Untied(d)) \in [Untied(d) -> {1, -1}]
         /\ Net(Restrict(s, Untied(d)), WithoutTies(d)) = Net(s, d)
<1> DEFINE T == Untied(d)
           e == WithoutTies(d)
           f == [x \in T |-> Restrict(s, T)[x] * e[x]]
           g == [x \in D |-> s[x] * d[x]]
<1>1. T \in SUBSET D /\ DOMAIN d = D /\ DOMAIN e = T /\ \A x \in T : e[x] = d[x]
  BY DEF Untied, WithoutTies, Restrict
<1>2. ASSUME NEW x \in D PROVE s[x] * d[x] \in Int /\ (d[x] = 0 => s[x] * d[x] = 0)
  <2>1. s[x] = 1 \/ s[x] = -1
    OBVIOUS
  <2>2. d[x] \in Int
    OBVIOUS
  <2> QED BY <2>1, <2>2
<1>3. \A x \in T : f[x] = s[x] * d[x]
  BY <1>1 DEF Restrict
<1>4. g \in [D -> Int] /\ f \in [T -> Int]
  BY <1>1, <1>2, <1>3
<1>5. \A x \in D : g[x] = IF x \in T THEN f[x] ELSE 0
  BY <1>1, <1>2, <1>3 DEF Untied
<1>6. SumFunction(f) = SumFunction(g)
  <2> HIDE DEF f, g, T
  <2>1. Padded(T, D, f, g)
    BY <1>1, <1>4, <1>5 DEF Padded
  <2> QED BY <2>1, ZerosSilent
<1>7. Restrict(s, T) \in [T -> {1, -1}]
  BY <1>1 DEF Restrict
<1> QED BY <1>1, <1>6, <1>7 DEF Net

\* Nor does it change what the test says.
LEMMA TiesSilent ==
  ASSUME NEW D, IsFiniteSet(D), NEW d \in [D -> Int],
         input.num \in Nat, input.den \in Nat
  PROVE  /\ Informative(WithoutTies(d)) = Informative(d)
         /\ PSmall(WithoutTies(d)) <=> PSmall(d)
<1> DEFINE T == Untied(d)
           e == WithoutTies(d)
           P == AsExtreme(e)
<1>1. T \in SUBSET D /\ DOMAIN d = D /\ DOMAIN e = T /\ \A x \in T : e[x] = d[x] /\ d[x] # 0
  BY DEF Untied, WithoutTies, Restrict
<1>2. Informative(e) = Informative(d)
  <2>1. { x \in DOMAIN e : e[x] # 0 } = { x \in DOMAIN d : d[x] # 0 }
    BY <1>1 DEF Untied
  <2> QED BY <2>1 DEF Informative
<1>3. P \in SUBSET [T -> {1, -1}]
  BY <1>1 DEF AsExtreme, Flips
<1>4. Observed(d) = Observed(e)
  <2> DEFINE one == [x \in D |-> 1]
  <2>1. one \in [D -> {1, -1}]
    OBVIOUS
  <2>2. Restrict(one, T) = [x \in T |-> 1]
    BY <1>1 DEF Restrict
  <2> HIDE DEF one
  <2>3. Net(Restrict(one, T), e) = Net(one, d)
    BY <2>1, TiesAddNothing
  <2> QED BY <1>1, <2>2, <2>3 DEF Observed, one
<1>5. AsExtreme(d) = Extending(D, T, P)
  <2>1. ASSUME NEW s \in [D -> {1, -1}]
        PROVE  Net(s, d) >= Observed(d) <=> Restrict(s, T) \in P
    <3>1. Restrict(s, T) \in [T -> {1, -1}] /\ Net(Restrict(s, T), e) = Net(s, d)
      BY TiesAddNothing
    <3> QED BY <1>1, <1>4, <3>1 DEF AsExtreme, Flips
  <2> HIDE DEF P, T
  <2> QED BY <1>1, <2>1 DEF AsExtreme, Extending, Flips
<1> DEFINE a == Cardinality(P)  r == 2 ^ Cardinality(D \ T)  b == 2 ^ Cardinality(T)
           num == input.num  den == input.den
<1>6. Cardinality(AsExtreme(d)) = a * r /\ a \in Nat
  <2> HIDE DEF T, P
  <2>1. /\ IsFiniteSet(P)
        /\ Cardinality(Extending(D, T, P)) = Cardinality(P) * 2 ^ Cardinality(D \ T)
    BY <1>1, <1>3, RestIsFree
  <2> QED BY <1>5, <2>1, FS_CardinalityType
<1>7. 2 ^ Cardinality(D) = b * r /\ b \in Nat \ {0} /\ r \in Nat \ {0}
  <2> HIDE DEF T
  <2>1. IsFiniteSet(T) /\ IsFiniteSet(D \ T)
    BY <1>1, FS_Subset
  <2>2. T \in SUBSET T /\ D \ T \in SUBSET (D \ T)
    OBVIOUS
  <2>3. b \in Nat \ {0} /\ r \in Nat \ {0}
    BY <2>1, <2>2, PowerOfPart
  <2> QED BY <1>1, <2>3, PowerOfPart
<1>8. a * r * den <= num * (b * r) <=> a * den <= num * b
  <2> HIDE DEF a, r, b, num, den
  <2>1. num \in Nat /\ den \in Nat
    BY DEF num, den
  <2> DEFINE x == a * den  y == num * b
  <2>2. a * r * den = x * r /\ num * (b * r) = y * r /\ x \in Nat /\ y \in Nat
    BY <1>6, <1>7, <2>1
  <2> HIDE DEF x, y
  <2>3. x <= y => x * r <= y * r
    BY <1>7, <2>2
  <2>4. y < x => y * r < x * r
    BY <1>7, <2>2
  <2>5. x * r \in Int /\ y * r \in Int
    BY <1>7, <2>2
  <2>6. x * r <= y * r <=> x <= y
    BY <2>2, <2>3, <2>4, <2>5
  <2> QED BY <2>2, <2>6 DEF x, y
<1>9. PSmall(d) <=> a * r * den <= num * (b * r)
  BY <1>1, <1>6, <1>7 DEF PSmall
<1>10. PSmall(e) <=> a * den <= num * b
  BY <1>1 DEF PSmall
<1> QED BY <1>2, <1>8, <1>9, <1>10

\* One detector ahead wherever the two differ is significant exactly if the
\* level can be reached.
LEMMA AheadDecides ==
  ASSUME NEW D, IsFiniteSet(D), NEW d \in [D -> Int],
         input.num \in Nat, input.den \in Nat, Informative(d) # 0
  PROVE  PSmall([x \in D |-> Abs(d[x])]) <=> Reachable(Informative(d))
<1> DEFINE c == [x \in D |-> Abs(d[x])]
           T == Untied(d)
           e == WithoutTies(c)
<1>1. ASSUME NEW x \in D PROVE Abs(d[x]) \in Nat /\ (Abs(d[x]) = 0 <=> d[x] = 0)
  <2>1. d[x] \in Int
    OBVIOUS
  <2> QED BY <2>1 DEF Abs
<1>2. c \in [D -> Int] /\ \A x \in D : c[x] \in Nat /\ (c[x] = 0 <=> d[x] = 0)
  BY <1>1
<1>3. DOMAIN d = D /\ DOMAIN c = D /\ T \in SUBSET D /\ Untied(c) = T
  BY <1>2 DEF Untied
<1> HIDE DEF c
<1>4. e \in [T -> Nat \ {0}]
  BY <1>2, <1>3 DEF WithoutTies, Restrict, Untied
<1>5. Informative(d) = Cardinality(T) /\ IsFiniteSet(T) /\ T # {}
  <2>1. Informative(d) = Cardinality(T)
    BY <1>3 DEF Informative, Untied
  <2> HIDE DEF T
  <2> QED BY <1>3, <2>1, FS_Subset, FS_EmptySet
<1>6. PSmall(e) <=> PSmall(c)
  BY <1>2, TiesSilent
<1>7. PSmall(e) <=> 2 * input.den <= input.num * 2 ^ Cardinality(T)
  <2>1. DOMAIN e = T
    BY <1>4
  <2> HIDE DEF e, T
  <2>2. Cardinality(AsExtreme(e)) = 2
    BY <1>4, <1>5, TwoAsExtreme
  <2> QED BY <2>1, <2>2 DEF PSmall
<1> QED BY <1>5, <1>6, <1>7 DEF Reachable, c

\* Without a meeting in which the two differ no level can be reached; with more
\* of them no level gets out of reach; and there is a least number.
LEMMA FloorFound ==
  ASSUME IsLevel(input)
  PROVE  /\ ~Reachable(0)
         /\ \A n \in Nat, m \in Nat : Reachable(m) /\ m <= n => Reachable(n)
         /\ ComparisonFloor \in Nat \ {0} /\ Reachable(ComparisonFloor)
         /\ \A m \in 1 .. ComparisonFloor - 1 : ~Reachable(m)
<1> DEFINE num == input.num  den == input.den
<1>1. num \in Nat /\ den \in Nat /\ num < den /\ 2 * den <= num * 2 ^ 20
  BY DEF IsLevel, MaxExact
<1>2. ~Reachable(0)
  BY <1>1, PowersGrow DEF Reachable
<1>3. ASSUME NEW n \in Nat, NEW m \in Nat, Reachable(m), m <= n PROVE Reachable(n)
  <2> DEFINE a == 2 ^ m  b == 2 ^ n
  <2>1. a \in Nat /\ b \in Nat /\ a <= b
    BY <1>3, PowersGrow
  <2>2. 2 * den <= num * a
    BY <1>3 DEF Reachable
  <2> HIDE DEF a, b, num, den
  <2>3. num * a <= num * b /\ num * a \in Int /\ num * b \in Int /\ 2 * den \in Int
    BY <1>1, <2>1
  <2>4. 2 * den <= num * b
    BY <2>2, <2>3
  <2> QED BY <2>4 DEF Reachable, num, den, b
<1> DEFINE Q == { n \in 1 .. 20 : Reachable(n) }
<1>4. 20 \in Q
  BY <1>1 DEF Reachable
<1>5. PICK n \in Q : \A m \in Q : n <= m
  <2>1. Q \in SUBSET Nat /\ Q # {}
    BY <1>4
  <2> HIDE DEF Q
  <2> QED BY <2>1, LeastNatural
<1>6. Reachable(n) /\ n \in 1 .. 20 /\ \A m \in 1 .. n - 1 : ~Reachable(m)
  BY <1>5
<1>7. /\ ComparisonFloor \in 1 .. 20 /\ Reachable(ComparisonFloor)
      /\ \A m \in 1 .. ComparisonFloor - 1 : ~Reachable(m)
  BY <1>6 DEF ComparisonFloor, MaxExact
<1> QED BY <1>2, <1>3, <1>7

\* What was known when the verdict was given.
Grounds ==
  /\ Asked
  /\ verdict \in {"MEETS_TARGET", "INCONCLUSIVE_VS_TARGET"} => NInfer(M) >= input.floor
  /\ verdict = "DESCRIPTIVE_ONLY" => NInfer(M) < input.floor /\ missing = NAdditional(NInfer(M))
  /\ verdict = "INSUFFICIENT_DATA" /\ input.kind = "single" => NInfer(M) = 1
  /\ verdict = "FAILS_TARGET" => HasFailed(M)
  /\ Judged => verdict = Decision(Diffs)
  /\ verdict = "UNDERPOWERED" => missing = NAdditional(Informative(Diffs))

LEMMA GroundsKept == VSpec => []Grounds
<1>1. VInit => Grounds
  BY DEF VInit, Grounds, Asked, Judged
<1>2. Grounds /\ Asked' /\ [VNext]_vvars => Grounds'
  <2> SUFFICES ASSUME Grounds, Asked', [VNext]_vvars PROVE Grounds'
    OBVIOUS
  <2>1. input' = input
    BY DEF VNext, vvars, Undefined, TooFew, Fails, Uniform, BelowFloor, Meets, Straddles,
           RefusePair, NothingCommon, Underpowered, Significant, Inconclusive
  <2>2. /\ NInfer(M)' = NInfer(M) /\ HasFailed(M)' = HasFailed(M)
        /\ NAdditional(NInfer(M))' = NAdditional(NInfer(M))
    BY <2>1 DEF M, HasFailed, Rounded, Prod, UpperBelow, NAdditional, ComparisonFloor, Reachable
  <2>3. Common' = Common
    BY <2>1 DEF Common
  <2>4. Diffs' = Diffs
    BY <2>1, <2>3 DEF Diffs
  <2>5. Reachable(Informative(Diffs))' <=> Reachable(Informative(Diffs))
    BY <2>1, <2>4 DEF Reachable
  <2>6. PSmall(Diffs)' <=> PSmall(Diffs)
    BY <2>1, <2>4 DEF PSmall
  <2>7. Decision(Diffs)' = Decision(Diffs)
    BY <2>5, <2>6 DEF Decision
  <2>8. NAdditional(Informative(Diffs))' = NAdditional(Informative(Diffs))
    BY <2>1, <2>4 DEF NAdditional, ComparisonFloor, Reachable
  <2> USE DEF Grounds, Judged
  <2>9. CASE Undefined \/ Uniform \/ RefusePair
    BY <2>9 DEF Undefined, Uniform, RefusePair
  <2>10. CASE TooFew \/ Fails \/ BelowFloor
    BY <2>1, <2>2, <2>10 DEF TooFew, Fails, BelowFloor, Inferable, Compared
  <2>11. CASE Meets \/ Straddles
    BY <2>1, <2>2, <2>11 DEF Meets, Straddles
  <2>12. CASE NothingCommon
    BY <2>1, <2>2, <2>12 DEF NothingCommon, Pending
  <2>13. CASE Underpowered
    <3>1. Decision(Diffs) = "UNDERPOWERED"
      BY <2>13 DEF Underpowered, Decision
    <3> QED BY <2>1, <2>7, <2>8, <2>13, <3>1 DEF Underpowered
  <2>14. CASE Significant
    <3>1. Decision(Diffs) = "SIGNIFICANT"
      BY <2>14 DEF Significant, Decision
    <3> QED BY <2>1, <2>7, <2>14, <3>1 DEF Significant
  <2>15. CASE Inconclusive
    <3>1. Decision(Diffs) = "INCONCLUSIVE"
      BY <2>15 DEF Inconclusive, Decision
    <3> QED BY <2>1, <2>7, <2>15, <3>1 DEF Inconclusive
  <2>16. CASE UNCHANGED vvars
    BY <2>1, <2>2, <2>7, <2>8, <2>16 DEF vvars
  <2> QED BY <2>9, <2>10, <2>11, <2>12, <2>13, <2>14, <2>15, <2>16 DEF VNext
<1> QED BY <1>1, <1>2, AskedHolds, PTL DEF VSpec

\* The verdict on two detectors says which of the two conditions failed.
LEMMA DecisionSays ==
  ASSUME NEW d
  PROVE  Decision(d) = "UNDERPOWERED" <=> ~Reachable(Informative(d))
<1>1. CASE ~Reachable(Informative(d))
  BY <1>1 DEF Decision
<1>2. CASE Reachable(Informative(d)) /\ PSmall(d)
  BY <1>2 DEF Decision
<1>3. CASE Reachable(Informative(d)) /\ ~PSmall(d)
  BY <1>3 DEF Decision
<1> QED BY <1>1, <1>2, <1>3

LEMMA InformativeIsNat ==
  ASSUME NEW D, IsFiniteSet(D), NEW d \in [D -> Int]
  PROVE  Informative(d) \in Nat
<1>1. { id \in DOMAIN d : d[id] # 0 } \in SUBSET D
  OBVIOUS
<1> QED BY <1>1, FS_Subset, FS_CardinalityType DEF Informative

\* UNDERPOWERED (verdict_paired) is said exactly when no result of the meetings
\* could be significant, and the target to collect (collection_target) is the
\* least that lifts it: for any meetings and any level.
THEOREM NothingCouldLift == VSpec => []UnderpoweredIsStructural
<1>1. Grounds => UnderpoweredIsStructural
  <2> DEFINE n == Informative(Diffs)
  <2> SUFFICES ASSUME Grounds, Judged
               PROVE  /\ verdict = "UNDERPOWERED"
                         <=> n = 0 \/ ~PSmall([id \in Common |-> Abs(Diffs[id])])
                      /\ verdict = "UNDERPOWERED" =>
                           Reachable(n + missing) /\ ~Reachable(n + missing - 1)
    BY DEF UnderpoweredIsStructural
  <2>1. input \in Paireds /\ IsLevel(input)
    BY SinglesAssumption, PairedsAssumption DEF Grounds, Asked
  <2>2. IsFiniteSet(Common) /\ Diffs \in [Common -> Int]
    BY <2>1, DiffsAreInts
  <2>3. input.num \in Nat /\ input.den \in Nat
    BY <2>1 DEF IsLevel
  <2>4. n \in Nat
    BY <2>2, InformativeIsNat
  <2>5. verdict = "UNDERPOWERED" <=> ~Reachable(n)
    BY DecisionSays DEF Grounds
  <2>6. n # 0 => (PSmall([id \in Common |-> Abs(Diffs[id])]) <=> Reachable(n))
    BY <2>2, <2>3, AheadDecides
  <2>7. /\ ~Reachable(0)
        /\ \A k \in Nat, m \in Nat : Reachable(m) /\ m <= k => Reachable(k)
        /\ ComparisonFloor \in Nat \ {0} /\ Reachable(ComparisonFloor)
        /\ \A m \in 1 .. ComparisonFloor - 1 : ~Reachable(m)
    BY <2>1, FloorFound
  <2>8. ASSUME verdict = "UNDERPOWERED"
        PROVE  Reachable(n + missing) /\ ~Reachable(n + missing - 1)
    <3>1. ~Reachable(n) /\ missing = NAdditional(n)
      BY <2>5, <2>8 DEF Grounds
    <3> DEFINE f == ComparisonFloor
    <3> HIDE DEF n, f
    <3>2. n < f
      BY <2>4, <2>7, <3>1 DEF f
    <3>3. missing = f - n
      BY <2>4, <2>7, <3>1, <3>2 DEF NAdditional, f
    <3>4. n + missing = f /\ n + missing - 1 = f - 1
      BY <2>4, <2>7, <3>3 DEF f
    <3>5. f - 1 = 0 \/ f - 1 \in 1 .. f - 1
      BY <2>7 DEF f
    <3>6. ~Reachable(f - 1)
      BY <2>7, <3>5 DEF f
    <3> QED BY <2>7, <3>4, <3>6 DEF f
  <2> HIDE DEF n
  <2> QED BY <2>5, <2>6, <2>7, <2>8
<1> QED BY <1>1, GroundsKept, PTL

\* Meetings that tell nothing are silent (verdict_single, verdict_paired): those
\* without golden flags and those that tie change neither a verdict nor what is
\* left to collect, whatever the meetings and the level.
THEOREM TellingMeetingsDecide == VSpec => []UninformativeSilent
<1>1. ASSUME Grounds, input.kind = "single"
      PROVE  /\ verdict \in {"MEETS_TARGET", "INCONCLUSIVE_VS_TARGET"} =>
                  Cardinality(DOMAIN Told) >= input.floor
             /\ verdict = "DESCRIPTIVE_ONLY" /\ input.floor = ComparisonFloor =>
                  Cardinality(DOMAIN Told) + missing = input.floor
             /\ verdict = "INSUFFICIENT_DATA" => Cardinality(DOMAIN Told) = 1
             /\ verdict = "FAILS_TARGET" => HasFailed(Told)
  <2>1. input \in Singles /\ IsLevel(input) /\ M \in Seq(Scored)
    BY <1>1, SinglesAssumption, PairedsAssumption DEF Grounds, Asked, M
  <2>2. /\ DOMAIN Told = Nonempty(M)
        /\ \A i \in Nonempty(M) : Told[i] = M[i] /\ M[i].n > 0
    BY DEF Told, Restrict, Nonempty
  <2>3. Cardinality(DOMAIN Told) = NInfer(M) /\ NInfer(M) \in Nat
    BY <2>1, <2>2, MeetingsCounted DEF NInfer
  <2>4. Nonempty(Told) = Nonempty(M)
    BY <2>2 DEF Nonempty
  <2>5. Successes(Told) = Successes(M) /\ Items(Told) = Items(M)
        /\ CommonDen(Told) = CommonDen(M) /\ NInfer(Told) = NInfer(M)
    <3> HIDE DEF Told, M
    <3> QED BY <2>2, <2>4 DEF Successes, Items, CommonDen, NInfer
  <2>6. Prod(Told) = Prod(M)
    BY <2>2, <2>4, <2>5 DEF Prod
  <2>7. HasFailed(Told) <=> HasFailed(M)
    BY <2>5, <2>6 DEF HasFailed, Rounded
  <2>8. ComparisonFloor \in Nat
    BY <2>1, FloorFound
  <2>9. ASSUME verdict = "DESCRIPTIVE_ONLY", input.floor = ComparisonFloor
        PROVE  NInfer(M) + missing = input.floor
    <3>1. NInfer(M) < ComparisonFloor /\ missing = NAdditional(NInfer(M))
      BY <1>1, <2>9 DEF Grounds
    <3>2. missing = ComparisonFloor - NInfer(M)
      BY <2>3, <2>8, <3>1 DEF NAdditional
    <3> QED BY <2>3, <2>8, <2>9, <3>2
  <2> QED BY <1>1, <2>3, <2>7, <2>9 DEF Grounds
<1>2. ASSUME Grounds, Judged
      PROVE  verdict = Decision(Restrict(Diffs, Untied(Diffs)))
  <2>1. input \in Paireds /\ IsLevel(input)
    BY <1>2, SinglesAssumption, PairedsAssumption DEF Grounds, Asked
  <2>2. IsFiniteSet(Common) /\ Diffs \in [Common -> Int]
    BY <2>1, DiffsAreInts
  <2>3. input.num \in Nat /\ input.den \in Nat
    BY <2>1 DEF IsLevel
  <2>4. /\ Informative(WithoutTies(Diffs)) = Informative(Diffs)
        /\ PSmall(WithoutTies(Diffs)) <=> PSmall(Diffs)
    BY <2>2, <2>3, TiesSilent
  <2>5. Decision(WithoutTies(Diffs)) = Decision(Diffs)
    BY <2>4 DEF Decision
  <2> QED BY <1>2, <2>5 DEF Grounds, WithoutTies
<1>3. Grounds => UninformativeSilent
  BY <1>1, <1>2 DEF UninformativeSilent
<1> QED BY <1>3, GroundsKept, PTL

-----------------------------------------------------------------------------
(* Holm's procedure.                                                       *)

Earlier(i) == { k \in Tests : Before(k, i) }

Bar(i) == (Len(p) - Cardinality(Earlier(i))) * p[i]

\* No bar up to the test's own is above alpha.
Passes(i) == \A j \in Tests : (j = i \/ Before(j, i)) => Bar(j) <= Level

TypeInv ==
  /\ p \in Seq(Int)
  /\ done \in SUBSET Tests
  /\ running \in Nat
  /\ adjusted \in [Tests -> Nat]
  /\ phase \in {"adjusting", "decided", "error"}

\* The tests are taken in the sorted order.
Sorted == \A i \in done : \A j \in Tests : Before(j, i) => j \in done

Weighed ==
  /\ running <= Level <=> \A i \in done : Bar(i) <= Level
  /\ \A i \in done : adjusted[i] <= Level <=> Passes(i)

Decided == phase = "decided" => Valid /\ rejected = { i \in Tests : Passes(i) }

IInv == TypeInv /\ Sorted /\ Weighed /\ Decided

-----------------------------------------------------------------------------
\* The order of the sort is strict and total.
LEMMA BeforeOrder ==
  ASSUME p \in Seq(Int), NEW i \in Tests, NEW j \in Tests, NEW k \in Tests
  PROVE  /\ ~Before(i, i)
         /\ i = j \/ Before(i, j) \/ Before(j, i)
         /\ Before(i, j) => ~Before(j, i)
         /\ Before(i, j) /\ Before(j, k) => Before(i, k)
  <1>1. p[i] \in Int /\ p[j] \in Int /\ p[k] \in Int /\ i \in Int /\ j \in Int /\ k \in Int
    BY DEF Tests
  <1> QED BY <1>1 DEF Before

\* There are Len(p) tests.
LEMMA TestsFinite ==
  ASSUME p \in Seq(Int)
  PROVE  IsFiniteSet(Tests) /\ Cardinality(Tests) = Len(p) /\ Len(p) \in Nat
  <1>1. Tests = 1 .. Len(p) /\ Len(p) \in Nat
    BY DEF Tests
  <1> QED BY <1>1, FS_Interval

\* The next test is taken after exactly the tests before it.
LEMMA NextEarlier ==
  ASSUME TypeInv, Sorted, NEW i \in Tests, IsNext(i)
  PROVE  Earlier(i) = done
  <1>1. p \in Seq(Int) /\ done \subseteq Tests
    BY DEF TypeInv
  <1>2. ASSUME NEW k \in Tests, Before(k, i) PROVE k \in done
    <2>1. CASE k \in Tests \ done
      <3>1. k = i \/ Before(i, k)
        BY <2>1 DEF IsNext
      <3> QED BY <1>1, <1>2, <3>1, BeforeOrder
    <2> QED BY <2>1
  <1>3. ASSUME NEW k \in done PROVE Before(k, i)
    <2>1. k \in Tests /\ k # i /\ ~Before(i, k)
      BY <1>1 DEF IsNext, Sorted
    <2> QED BY <1>1, <2>1, BeforeOrder
  <1> QED BY <1>1, <1>2, <1>3 DEF Earlier

\* A bar is an integer.
LEMMA BarType ==
  ASSUME p \in Seq(Int), NEW i \in Tests
  PROVE  /\ Cardinality(Earlier(i)) \in Nat
         /\ Cardinality(Earlier(i)) <= Len(p)
         /\ p[i] \in Int
         /\ Bar(i) \in Int
  <1>1. Earlier(i) \subseteq Tests
    BY DEF Earlier
  <1>2. /\ IsFiniteSet(Earlier(i)) /\ Cardinality(Earlier(i)) <= Cardinality(Tests)
    BY <1>1, TestsFinite, FS_Subset
  <1>3. Cardinality(Earlier(i)) \in Nat
    BY <1>2, FS_CardinalityType
  <1>4. p[i] \in Int
    BY DEF Tests
  <1> QED BY <1>2, <1>3, <1>4, TestsFinite DEF Bar

\* Capping and the running maximum keep a value on its side of alpha.
LEMMA StepUpSide ==
  ASSUME running \in Nat, NEW x \in Int, x >= 0
  PROVE  /\ StepUp(x) \in Nat
         /\ StepUp(x) <= Level <=> running <= Level /\ x <= Level
  BY ScaleAssumption, LevelAssumption DEF StepUp, AtMostOne

-----------------------------------------------------------------------------
\* The invariant holds before the first test is taken.
LEMMA InitIInv == Init => IInv
  <1> SUFFICES ASSUME Init PROVE IInv
    OBVIOUS
  <1>1. p \in Seq(Int)
    BY FamiliesAssumption DEF Init
  <1>2. TypeInv
    BY <1>1 DEF Init, TypeInv, Tests
  <1>3. Sorted /\ Weighed /\ Decided
    BY LevelAssumption DEF Init, Sorted, Weighed, Decided
  <1> QED BY <1>2, <1>3 DEF IInv

\* The bars depend on the p-values alone, and those never change.
LEMMA BarsKept ==
  ASSUME p' = p
  PROVE  /\ Tests' = Tests
         /\ \A j, k : Before(j, k)' <=> Before(j, k)
         /\ \A j \in Tests : Bar(j)' = Bar(j)
         /\ \A j \in Tests : Passes(j)' <=> Passes(j)
  <1>1. Tests' = Tests /\ (\A j, k : Before(j, k)' <=> Before(j, k))
    BY DEF Tests, Before
  <1>2. \A j \in Tests : Earlier(j)' = Earlier(j)
    BY <1>1 DEF Earlier, Before, Tests
  <1>3. \A j \in Tests : Bar(j)' = Bar(j)
    BY <1>2 DEF Bar
  <1>4. \A j \in Tests : Passes(j)' <=> Passes(j)
    BY <1>1, <1>3 DEF Passes, Before, Tests
  <1> QED BY <1>1, <1>3, <1>4

\* What the invariant says of the loop is kept by a step that leaves it alone.
LEMMA LoopKept ==
  ASSUME IInv, UNCHANGED <<p, done, running, adjusted>>, phase' \in {"adjusting", "decided", "error"}
  PROVE  TypeInv' /\ Sorted' /\ Weighed'
  <1>1. TypeInv'
    BY DEF IInv, TypeInv, Tests
  <1>2. Sorted'
    BY DEF IInv, Sorted, Tests, Before
  <1>3. done \subseteq Tests
    BY DEF IInv, TypeInv
  <1>4. Weighed'
    BY <1>3, BarsKept DEF IInv, Weighed
  <1> QED BY <1>1, <1>2, <1>4

\* The loop body takes a test over the bar of its own.
LEMMA AdjustKeeps ==
  ASSUME IInv, NEW i \in Tests, Adjust(i)
  PROVE  IInv'
  <1>1. /\ p \in Seq(Int) /\ done \subseteq Tests /\ running \in Nat
        /\ adjusted \in [Tests -> Nat] /\ p' = p /\ Valid /\ IsNext(i)
        /\ i \in Tests \ done /\ phase = "adjusting" /\ phase' = "adjusting"
    BY DEF IInv, TypeInv, Adjust, IsNext
  <1>2. Tests' = Tests /\ (\A j, k : Before(j, k)' <=> Before(j, k))
    BY <1>1, BarsKept
  <1>4. \A j \in Tests : Bar(j)' = Bar(j)
    BY <1>1, BarsKept
  <1>5. \A j \in Tests : Passes(j)' <=> Passes(j)
    BY <1>1, BarsKept
  <1>6. Earlier(i) = done
    BY NextEarlier DEF IInv, Adjust
  <1>7. Factor * p[i] = Bar(i)
    BY <1>6 DEF Factor, Bar
  <1>8. Bar(i) \in Int /\ Bar(i) >= 0
    <2>1. p[i] \in Nat
      BY <1>1, ScaleAssumption DEF Valid
    <2>2. Cardinality(Earlier(i)) \in Nat /\ Cardinality(Earlier(i)) <= Len(p) /\ Len(p) \in Nat
      BY <1>1, BarType, TestsFinite
    <2>3. Len(p) - Cardinality(Earlier(i)) \in Nat
      BY <2>2
    <2>4. \A a, b \in Nat : a * b \in Nat
      OBVIOUS
    <2> QED BY <2>1, <2>3, <2>4 DEF Bar
  <1>9. /\ running' = StepUp(Bar(i)) /\ adjusted' = [adjusted EXCEPT ![i] = StepUp(Bar(i))]
        /\ done' = done \cup {i}
    BY <1>7 DEF Adjust
  <1>10. /\ StepUp(Bar(i)) \in Nat
         /\ StepUp(Bar(i)) <= Level <=> running <= Level /\ Bar(i) <= Level
    BY <1>1, <1>8, StepUpSide
  <1>11. TypeInv'
    BY <1>1, <1>2, <1>9, <1>10 DEF TypeInv
  <1>12. Sorted'
    <2>1. \A j \in Tests : Before(j, i) => j \in done
      BY <1>6 DEF Earlier
    <2> QED BY <1>1, <1>2, <1>9, <2>1 DEF Sorted, IInv, Before
  <1>13. running' <= Level <=> \A j \in done' : Bar(j) <= Level
    BY <1>9, <1>10 DEF IInv, Weighed
  <1>14. Passes(i) <=> \A j \in done' : Bar(j) <= Level
    <2>1. \A j \in Tests : j \in done' <=> j = i \/ Before(j, i)
      BY <1>6, <1>9 DEF Earlier
    <2> QED BY <1>1, <1>9, <2>1 DEF Passes
  <1>15. adjusted'[i] <= Level <=> Passes(i)
    BY <1>1, <1>9, <1>13, <1>14
  <1>16. \A j \in done : adjusted'[j] <= Level <=> Passes(j)
    BY <1>1, <1>9 DEF IInv, Weighed
  <1>17. Weighed'
    BY <1>1, <1>4, <1>5, <1>9, <1>13, <1>15, <1>16 DEF Weighed
  <1>18. Decided'
    BY <1>1 DEF Decided
  <1> QED BY <1>11, <1>12, <1>17, <1>18 DEF IInv

\* Every step keeps the invariant.
LEMMA NextIInv == IInv /\ [Next]_vars => IInv'
  <1> SUFFICES ASSUME IInv, [Next]_vars PROVE IInv'
    OBVIOUS
  <1>1. CASE Refuse
    <2>1. UNCHANGED <<p, done, running, adjusted>> /\ phase' = "error"
      BY <1>1 DEF Refuse
    <2> QED BY <2>1, LoopKept DEF IInv, Decided
  <1>2. CASE \E i \in Tests : Adjust(i)
    BY <1>2, AdjustKeeps
  <1>3. CASE Decide
    <2>1. /\ UNCHANGED <<p, done, running, adjusted>> /\ phase' = "decided" /\ Valid
          /\ rejected' = { i \in Tests : adjusted[i] <= Level } /\ done = Tests
      BY <1>3 DEF Decide
    <2>2. rejected' = { i \in Tests : Passes(i) }
      BY <2>1 DEF IInv, Weighed
    <2>3. TypeInv' /\ Sorted' /\ Weighed'
      BY <2>1, LoopKept
    <2>4. Valid' /\ rejected' = { i \in Tests' : Passes(i)' }
      BY <2>1, <2>2, BarsKept DEF Valid, Tests
    <2>5. Decided'
      BY <2>4 DEF Decided
    <2> QED BY <2>3, <2>5 DEF IInv
  <1>4. CASE UNCHANGED vars
    <2>1. UNCHANGED <<p, done, running, adjusted, rejected, phase>>
      BY <1>4 DEF vars
    <2>2. TypeInv' /\ Sorted' /\ Weighed'
      BY <2>1, LoopKept DEF IInv, TypeInv
    <2>3. (Valid' <=> Valid) /\ { i \in Tests' : Passes(i)' } = { i \in Tests : Passes(i) }
      BY <2>1, BarsKept DEF Valid, Tests
    <2>4. Decided'
      BY <2>1, <2>3 DEF IInv, Decided
    <2> QED BY <2>2, <2>4 DEF IInv
  <1> QED BY <1>1, <1>2, <1>3, <1>4 DEF Next

-----------------------------------------------------------------------------
\* A test before another has fewer tests before it.
LEMMA EarlierGrows ==
  ASSUME p \in Seq(Int), NEW j \in Tests, NEW k \in Tests, Before(k, j)
  PROVE  Cardinality(Earlier(k)) < Cardinality(Earlier(j))
  <1>1. Earlier(k) \subseteq Earlier(j)
    BY BeforeOrder DEF Earlier
  <1>2. k \in Earlier(j) /\ k \notin Earlier(k)
    BY BeforeOrder DEF Earlier
  <1>3. IsFiniteSet(Earlier(j))
    <2>1. Earlier(j) \subseteq Tests
      BY DEF Earlier
    <2> QED BY <2>1, TestsFinite, FS_Subset
  <1>4. Cardinality(Earlier(k)) <= Cardinality(Earlier(j)) /\ Cardinality(Earlier(k)) # Cardinality(Earlier(j))
    BY <1>1, <1>2, <1>3, FS_Subset
  <1> QED BY <1>4, BarType

\* Every nonempty set of tests has a first one.
LEMMA HasFirst ==
  ASSUME p \in Seq(Int), NEW S \in SUBSET Tests, S # {}
  PROVE  \E j \in S : \A k \in S : k = j \/ Before(j, k)
  <1> DEFINE T == { Cardinality(Earlier(j)) : j \in S }
  <1>1. T \subseteq Nat /\ T # {}
    BY BarType
  <1>2. PICK n \in T : \A m \in T : n <= m
    <2> HIDE DEF T
    <2> QED BY <1>1, LeastNatural
  <1>3. \A m \in T : ~(m < n)
    <2> HIDE DEF T
    <2>1. n \in Nat /\ \A m \in T : m \in Nat
      BY <1>1
    <2> QED BY <1>2, <2>1
  <1>4. PICK j \in S : n = Cardinality(Earlier(j))
    OBVIOUS
  <1>5. ASSUME NEW k \in S PROVE ~Before(k, j)
    <2>1. ~(Cardinality(Earlier(k)) < Cardinality(Earlier(j)))
      BY <1>3, <1>4
    <2> QED BY <2>1, EarlierGrows
  <1> QED BY <1>5, BeforeOrder

\* A test passes all bars up to its own exactly if the closed test rejects it:
\* of a set of tests the first decides, and its bar is at least the set's.
LEMMA PassesIsClosed ==
  ASSUME p \in Seq(Int), Valid, NEW i \in Tests
  PROVE  Passes(i) <=> ClosedBonferroni(i)
  <1>1. \A a, b, c \in Nat : a <= b => a * c <= b * c
    OBVIOUS
  <1>2. \A k \in Tests : p[k] \in Nat
    BY ScaleAssumption DEF Valid
  <1>3. ASSUME Passes(i), NEW S \in SUBSET Tests, i \in S
        PROVE  \E j \in S : Cardinality(S) * p[j] <= Level
    <2>1. PICK j \in S : \A k \in S : k = j \/ Before(j, k)
      BY <1>3, HasFirst
    <2>2. Bar(j) <= Level
      BY <1>3, <2>1 DEF Passes
    <2>3. S \subseteq Tests \ Earlier(j)
      BY <2>1, BeforeOrder DEF Earlier
    <2>4. /\ IsFiniteSet(Tests \ Earlier(j))
          /\ Cardinality(Tests \ Earlier(j)) = Len(p) - Cardinality(Earlier(j))
      <3>1. Tests \cap Earlier(j) = Earlier(j)
        BY DEF Earlier
      <3> QED BY <3>1, TestsFinite, FS_Difference
    <2>5. Cardinality(S) <= Len(p) - Cardinality(Earlier(j)) /\ Cardinality(S) \in Nat
      BY <2>3, <2>4, FS_Subset, FS_CardinalityType
    <2>6. Len(p) - Cardinality(Earlier(j)) \in Nat
      BY <2>1, BarType, TestsFinite
    <2>7. Cardinality(S) * p[j] <= Bar(j)
      BY <1>1, <1>2, <2>5, <2>6 DEF Bar
    <2>8. Cardinality(S) * p[j] \in Int /\ Bar(j) \in Int
      BY <1>2, <2>5, BarType
    <2> QED BY <2>2, <2>7, <2>8, LevelAssumption
  <1>4. ASSUME ClosedBonferroni(i), NEW j \in Tests, j = i \/ Before(j, i)
        PROVE  Bar(j) <= Level
    <2> DEFINE S == Tests \ Earlier(j)
    <2>1. i \in S /\ S \in SUBSET Tests
      BY <1>4, BeforeOrder DEF Earlier
    <2>2. PICK k \in S : Cardinality(S) * p[k] <= Level
      BY <1>4, <2>1 DEF ClosedBonferroni
    <2>3. Cardinality(S) = Len(p) - Cardinality(Earlier(j))
      <3>1. Tests \cap Earlier(j) = Earlier(j)
        BY DEF Earlier
      <3> QED BY <3>1, TestsFinite, FS_Difference
    <2>4. p[j] <= p[k]
      <3>1. ~Before(k, j)
        BY DEF Earlier
      <3> QED BY <1>2, <3>1 DEF Before, Tests
    <2>5. Len(p) - Cardinality(Earlier(j)) \in Nat
      BY BarType, TestsFinite
    <2>6. \A a, b, c \in Nat : a <= b => c * a <= c * b
      OBVIOUS
    <2>7. Bar(j) <= (Len(p) - Cardinality(Earlier(j))) * p[k]
      BY <1>2, <2>4, <2>5, <2>6 DEF Bar
    <2>8. (Len(p) - Cardinality(Earlier(j))) * p[k] \in Int /\ Bar(j) \in Int
      BY <1>2, <2>5, BarType
    <2> QED BY <2>2, <2>3, <2>7, <2>8, LevelAssumption
  <1> QED BY <1>3, <1>4 DEF Passes, ClosedBonferroni

\* The invariant holds at every step of every run.
LEMMA Invariance == Spec => []IInv
  <1> QED BY InitIInv, NextIInv, PTL DEF Spec

\* Holm's procedure is the closed Bonferroni test, for every family of tests
\* and every level below one.
THEOREM HolmIsClosed == Spec => []ClosedTesting
  <1>1. IInv => ClosedTesting
    <2> SUFFICES ASSUME IInv, phase = "decided"
                 PROVE  rejected = { i \in Tests : ClosedBonferroni(i) }
      BY DEF ClosedTesting
    <2>1. p \in Seq(Int) /\ Valid /\ rejected = { i \in Tests : Passes(i) }
      BY DEF IInv, TypeInv, Decided
    <2> QED BY <2>1, PassesIsClosed
  <1> QED BY <1>1, Invariance, PTL

-----------------------------------------------------------------------------
\* Towards AdjustedInOrder: a tied test that comes later finds its own value
\* covered by the running maximum, so it takes over the value of its equal.
Covered(i) == AtMostOne(Factor * p[i]) <= running

Monotone ==
  /\ \A i \in done : adjusted[i] <= running /\ Covered(i)
  /\ \A i \in done : (\A k \in done : p[k] <= p[i]) => adjusted[i] = running
  /\ AdjustedInOrder

\* The multiplier falls by one with every test taken and never below zero.
LEMMA FactorFalls ==
  ASSUME IInv, NEW i \in Tests, Adjust(i)
  PROVE  Factor \in Nat /\ Factor' = Factor - 1 /\ Factor' \in Nat
  <1>1. /\ p \in Seq(Int) /\ done \subseteq Tests /\ p' = p
        /\ i \in Tests \ done /\ done' = done \cup {i} /\ Len(p) \in Nat
    BY TestsFinite DEF IInv, TypeInv, Adjust, IsNext
  <1>2. IsFiniteSet(done) /\ Cardinality(done) \in Nat
    BY <1>1, TestsFinite, FS_Subset, FS_CardinalityType
  <1>3. Cardinality(done') = Cardinality(done) + 1
    BY <1>1, <1>2, FS_AddElement
  <1>4. Cardinality(done') <= Len(p)
    BY <1>1, TestsFinite, FS_Subset
  <1> QED BY <1>1, <1>2, <1>3, <1>4 DEF Factor

\* Every test taken comes before the next one.
LEMMA TakenBefore ==
  ASSUME IInv, NEW i \in Tests, Adjust(i), NEW j \in done
  PROVE  p[j] <= p[i]
  <1>1. Earlier(i) = done
    BY NextEarlier DEF IInv, Adjust
  <1>2. Before(j, i) /\ j \in Tests /\ p[j] \in Int /\ p[i] \in Int
    BY <1>1 DEF Earlier, IInv, TypeInv, Tests
  <1> QED BY <1>2 DEF Before

\* Taking a test keeps the adjusted p-values in order.
LEMMA MonotoneStep ==
  ASSUME IInv, Monotone, NEW i \in Tests, Adjust(i)
  PROVE  Monotone'
  <1> DEFINE new == StepUp(Factor * p[i])
  <1>1. /\ p' = p /\ done' = done \cup {i} /\ i \notin done /\ running' = new
        /\ adjusted' = [adjusted EXCEPT ![i] = new] /\ adjusted \in [Tests -> Nat]
        /\ done \subseteq Tests /\ running \in Nat /\ p \in Seq(Int)
    BY DEF IInv, TypeInv, Adjust, IsNext
  <1>2. \A k \in Tests : p[k] \in Nat
    BY ScaleAssumption DEF Adjust, Valid
  <1>3. Factor \in Nat /\ Factor' = Factor - 1 /\ Factor' \in Nat
    BY FactorFalls
  <1>4. \A k \in Tests : /\ Factor * p[k] \in Nat /\ Factor' * p[k] \in Nat
                         /\ Factor' * p[k] <= Factor * p[k]
    <2>1. \A a, b \in Nat : a * b \in Nat
      OBVIOUS
    <2>2. \A a, b, c \in Nat : a <= b => a * c <= b * c
      OBVIOUS
    <2> QED BY <1>2, <1>3, <2>1, <2>2
  <1>5. /\ new \in Nat /\ running <= new /\ AtMostOne(Factor * p[i]) <= new
        /\ AtMostOne(Factor * p[i]) <= running => new = running
    BY <1>1, <1>4, ScaleAssumption DEF StepUp, AtMostOne
  <1>6. \A k \in Tests : AtMostOne(Factor' * p[k]) <= AtMostOne(Factor * p[k])
    BY <1>4, ScaleAssumption DEF AtMostOne
  <1>7. \A k \in Tests : AtMostOne(Factor' * p[k]) \in Nat /\ AtMostOne(Factor * p[k]) \in Nat
    BY <1>4, ScaleAssumption DEF AtMostOne
  <1>8. \A k \in done : adjusted'[k] = adjusted[k] /\ adjusted[k] \in Nat
    BY <1>1
  <1>9. adjusted'[i] = new
    BY <1>1
  <1>10. \A k \in done : p[k] <= p[i]
    BY TakenBefore
  <1>11. ASSUME NEW k \in done, p[i] <= p[k]
         PROVE  adjusted[k] = running /\ new = running
    <2>1. p[k] = p[i]
      BY <1>1, <1>2, <1>10, <1>11
    <2>2. adjusted[k] = running
      BY <1>10, <2>1 DEF Monotone
    <2>3. AtMostOne(Factor * p[i]) <= running
      BY <2>1 DEF Monotone, Covered
    <2> QED BY <1>5, <2>2, <2>3
  <1>12. \A k \in done' : adjusted'[k] <= running'
    BY <1>1, <1>5, <1>8, <1>9 DEF Monotone
  <1>13. \A k \in done' : AtMostOne(Factor' * p'[k]) <= running'
    BY <1>1, <1>5, <1>6, <1>7 DEF Monotone, Covered
  <1>14. ASSUME NEW k \in done', \A j \in done' : p'[j] <= p'[k]
         PROVE  adjusted'[k] = running'
    BY <1>1, <1>8, <1>9, <1>11, <1>14
  <1>15. ASSUME NEW k \in done', NEW j \in done', p'[k] <= p'[j]
         PROVE  adjusted'[k] <= adjusted'[j]
    <2>1. CASE k = i /\ j = i
      BY <2>1, <1>5, <1>9
    <2>2. CASE k \in done /\ j = i
      BY <2>2, <1>5, <1>8, <1>9, <1>1 DEF Monotone
    <2>3. CASE k = i /\ j \in done
      BY <2>3, <1>1, <1>5, <1>8, <1>9, <1>11, <1>15
    <2>4. CASE k \in done /\ j \in done
      BY <2>4, <1>1, <1>8, <1>15 DEF Monotone, AdjustedInOrder
    <2> QED BY <1>1, <2>1, <2>2, <2>3, <2>4
  <1> QED BY <1>12, <1>13, <1>14, <1>15 DEF Monotone, AdjustedInOrder, Covered, AtMostOne

\* Smaller p-values have smaller adjusted ones and equal ones are adjusted
\* equally, at every step, for every family.
THEOREM AdjustedAlwaysInOrder == Spec => []AdjustedInOrder
  <1>1. Init => Monotone
    BY DEF Init, Monotone, AdjustedInOrder
  <1>2. IInv /\ Monotone /\ [Next]_vars => Monotone'
    <2> SUFFICES ASSUME IInv, Monotone, [Next]_vars PROVE Monotone'
      OBVIOUS
    <2>1. CASE UNCHANGED <<p, done, running, adjusted>>
      BY <2>1 DEF Monotone, AdjustedInOrder, Covered, Factor, AtMostOne
    <2>2. CASE \E i \in Tests : Adjust(i)
      BY <2>2, MonotoneStep
    <2> QED BY <2>1, <2>2 DEF Next, Refuse, Decide, vars
  <1>3. Monotone => AdjustedInOrder
    BY DEF Monotone
  <1> QED BY <1>1, <1>2, <1>3, Invariance, PTL DEF Spec
=============================================================================
