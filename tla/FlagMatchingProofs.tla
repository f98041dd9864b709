------------------------- MODULE FlagMatchingProofs -------------------------
(***************************************************************************)
(* The greedy matching of module FlagMatching is one to one, leaves no     *)
(* blocking pair and turns every leftover match into a type confusion, for *)
(* any number of flags, segments and types and any threshold.              *)
(*                                                                         *)
(* What carries the induction is Dominated: while the strict pass runs, a  *)
(* candidate is either still unused or shares a flag with a pair that was  *)
(* taken and overlaps at least as much.  Taking the first unused candidate *)
(* in the sort order keeps it, because the sort puts larger overlaps first.*)
(*                                                                         *)
(* The order of the file (module FileOrder): predictions with ids can be   *)
(* paired with those of the reordered file so that predictions the sort    *)
(* cannot tell apart keep their order (Twins).  The second matching then   *)
(* takes twins of pairs the first took and nothing else (Mirror): a pair   *)
(* that the first left out lost to one that comes before it (Beaten), whose*)
(* twin comes before its twin.                                             *)
(***************************************************************************)
EXTENDS Integers, FiniteSets, FileOrder, FiniteSetTheorems, WellFoundedInduction, TLAPS


OneToOne == \A c, d \in strict \cup extra : Shares(c, d) => c = d

Dominated ==
  \A c \in Candidates(TRUE) :
    \/ \A d \in strict : ~Shares(c, d)
    \/ \E d \in strict : Shares(c, d) /\ ~Closer(c, d)

ExtraLeftOver == \A c \in extra : /\ c \in Candidates(FALSE)
                                  /\ \A d \in strict : ~Shares(c, d)

Phases == /\ phase = "strict" => extra = {}
          /\ phase # "strict" => Unused(Candidates(TRUE), strict) = {}

IInv == TypeOK /\ OneToOne /\ Dominated /\ ExtraLeftOver /\ Phases

-----------------------------------------------------------------------------
(* Overlaps.                                                               *)

\* A nonempty set of natural numbers has a least element.
LEMMA LeastNatural ==
  ASSUME NEW T \in SUBSET Nat, T # {}
  PROVE  \E x \in T : \A y \in T : x <= y
<1> DEFINE R == OpToRel(<, Nat)
<1>1. T \subseteq Nat /\ T # {} /\ IsWellFoundedOn(R, Nat)
  BY NatLessThanWellFounded
<1> HIDE DEF R
<1>2. PICK x \in T : \A y \in T : ~(<<y, x>> \in R)
  BY <1>1, WFMin
<1>3. \A y \in T : ~(y < x)
  BY <1>2 DEF OpToRel, R
<1> QED BY <1>3

LEMMA FinitePart ==
  ASSUME NEW S, IsFiniteSet(S), NEW T, T \subseteq S
  PROVE  IsFiniteSet(T) /\ Cardinality(T) \in Nat
BY FS_Subset, FS_CardinalityType

\* The overlap counts of a pair are natural numbers.
LEMMA CountsAreNat ==
  ASSUME TypeOK, NEW c \in Pairs
  PROVE  Common(c) \in Nat /\ Either(c) \in Nat
<1>1. c[1] \in DOMAIN golds /\ c[2] \in DOMAIN preds
  BY DEF Pairs
<1>2. golds[c[1]] \in Gold /\ preds[c[2]] \in Pred
  BY <1>1 DEF TypeOK
<1>3. /\ golds[c[1]].segs \cap preds[c[2]].segs \in SUBSET Segments
      /\ golds[c[1]].segs \cup preds[c[2]].segs \in SUBSET Segments
  BY <1>2 DEF Gold, Pred
<1>4. /\ Cardinality(golds[c[1]].segs \cap preds[c[2]].segs) \in Nat
      /\ Cardinality(golds[c[1]].segs \cup preds[c[2]].segs) \in Nat
  BY <1>3, SegmentsAssumption, FinitePart
<1> QED BY <1>4 DEF Common, Either

\* The sort never puts a pair before one that overlaps more.
LEMMA FirstIsClosest ==
  ASSUME TypeOK, NEW c \in Pairs, NEW d \in Pairs, Before(c, d)
  PROVE  ~Closer(d, c)
<1> DEFINE x == Common(c) * Either(d)
           y == Common(d) * Either(c)
<1>1. x \in Int /\ y \in Int
  <2>1. /\ Common(c) \in Int /\ Either(c) \in Int
        /\ Common(d) \in Int /\ Either(d) \in Int
    BY CountsAreNat
  <2> QED BY <2>1
<1>2. Closer(c, d) <=> x > y
  BY DEF Closer
<1>3. Closer(d, c) <=> y > x
  BY DEF Closer
<1> HIDE DEF x, y
<1>4. CASE Closer(c, d)
  BY <1>1, <1>2, <1>3, <1>4
<1>5. CASE ~Closer(d, c) /\ TieBefore(c, d)
  BY <1>5
<1> QED BY <1>4, <1>5 DEF Before

\* A pair never overlaps more than itself.
LEMMA NotCloserThanItself ==
  ASSUME TypeOK, NEW c \in Pairs
  PROVE  ~Closer(c, c)
<1>1. Common(c) * Either(c) \in Int
  <2>1. Common(c) \in Int /\ Either(c) \in Int
    BY CountsAreNat
  <2> QED BY <2>1
<1> DEFINE x == Common(c) * Either(c)
<1>2. Closer(c, c) <=> x > x
  BY DEF Closer
<1> HIDE DEF x
<1>3. x \in Int
  BY <1>1 DEF x
<1> QED BY <1>2, <1>3

LEMMA SharingIsSymmetric ==
  ASSUME NEW c, NEW d, Shares(c, d)
  PROVE  Shares(d, c)
BY DEF Shares

-----------------------------------------------------------------------------
(* The induction.                                                          *)

LEMMA InitEstablishes == Init => IInv
<1> SUFFICES ASSUME Init PROVE IInv
  OBVIOUS
<1>1. PICK n \in Nat : golds \in [1 .. n -> Gold]
  BY DEF Init
<1>2. PICK m \in Nat : preds \in [1 .. m -> Pred]
  BY DEF Init
<1>3. TypeOK
  BY <1>1, <1>2 DEF Init, TypeOK
<1>4. OneToOne /\ Dominated /\ ExtraLeftOver /\ Phases
  BY DEF Init, OneToOne, Dominated, ExtraLeftOver, Phases
<1> QED BY <1>3, <1>4 DEF IInv

\* A step that leaves both files alone leaves everything computed from them.
LEMMA FilesFixed ==
  ASSUME UNCHANGED <<golds, preds>>
  PROVE  /\ Candidates(TRUE)' = Candidates(TRUE)
         /\ Candidates(FALSE)' = Candidates(FALSE)
         /\ Pairs' = Pairs
         /\ \A c, d : Closer(c, d)' = Closer(c, d)
<1>1. Pairs' = Pairs
  BY DEF Pairs
<1>2. \A c : Common(c)' = Common(c) /\ Either(c)' = Either(c)
  BY DEF Common, Either
<1>3. \A c : AtThresh(c)' = AtThresh(c)
  BY <1>2 DEF AtThresh
<1>4. \A c, d : Closer(c, d)' = Closer(c, d)
  BY <1>2 DEF Closer
<1>5. Candidates(TRUE)' = Candidates(TRUE) /\ Candidates(FALSE)' = Candidates(FALSE)
  BY <1>1, <1>3 DEF Candidates
<1> QED BY <1>1, <1>4, <1>5

LEMMA DominatedStays ==
  ASSUME Dominated, UNCHANGED <<golds, preds, strict>>
  PROVE  Dominated'
<1>1. Candidates(TRUE)' = Candidates(TRUE) /\ strict' = strict
  BY FilesFixed
<1>2. \A c, d : Closer(c, d)' = Closer(c, d)
  BY DEF Closer, Common, Either
<1>3. \A c \in Candidates(TRUE)' :
        \/ \A d \in strict' : ~Shares(c, d)
        \/ \E d \in strict' : Shares(c, d) /\ ~Closer(c, d)
  BY <1>1 DEF Dominated
<1> QED BY <1>2, <1>3 DEF Dominated, Shares

LEMMA TakeStrictKeeps ==
  ASSUME IInv, NEW c \in Pairs, TakeStrict(c)
  PROVE  IInv'
<1>1. /\ strict' = strict \cup {c}
      /\ phase = "strict" /\ phase' = "strict"
      /\ extra = {} /\ extra' = {}
      /\ UNCHANGED <<golds, preds>>
  BY DEF TakeStrict, IInv, Phases
<1>2. /\ c \in Candidates(TRUE)
      /\ \A d \in strict : ~Shares(c, d)
      /\ \A d \in Unused(Candidates(TRUE), strict) \ {c} : Before(c, d)
  BY DEF TakeStrict, TakesFirst, Unused
<1>3. Candidates(TRUE) \subseteq Pairs
  BY DEF Candidates
<1>4. TypeOK'
  BY <1>1 DEF IInv, TypeOK, Pairs
<1>5. OneToOne'
  <2> SUFFICES ASSUME NEW e \in strict \cup {c}, NEW d \in strict \cup {c}, Shares(e, d)
               PROVE  e = d
    BY <1>1 DEF OneToOne, Shares
  <2>1. CASE e \in strict /\ d \in strict
    BY <2>1 DEF IInv, OneToOne
  <2>2. CASE e = c
    BY <2>2, <1>2
  <2>3. CASE d = c
    BY <2>3, <1>2, SharingIsSymmetric
  <2> QED BY <2>1, <2>2, <2>3
<1>6. Dominated'
  <2> SUFFICES ASSUME NEW e \in Candidates(TRUE)
               PROVE  \/ \A d \in strict \cup {c} : ~Shares(e, d)
                      \/ \E d \in strict \cup {c} : Shares(e, d) /\ ~Closer(e, d)
    BY <1>1, FilesFixed DEF Dominated, Shares
  <2>1. CASE \E d \in strict : Shares(e, d) /\ ~Closer(e, d)
    BY <2>1
  <2>2. CASE \A d \in strict : ~Shares(e, d)
    <3>1. CASE e = c
      BY <3>1, <1>3, NotCloserThanItself DEF IInv, Shares
    <3>2. CASE e # c /\ Shares(e, c)
      <4>1. e \in Unused(Candidates(TRUE), strict) \ {c}
        BY <2>2, <3>2 DEF Unused
      <4>2. ~Closer(e, c)
        BY <4>1, <1>2, <1>3, FirstIsClosest DEF IInv
      <4> QED BY <4>2, <3>2
    <3>3. CASE ~Shares(e, c)
      BY <3>3, <2>2
    <3> QED BY <3>1, <3>2, <3>3
  <2> QED BY <2>1, <2>2 DEF IInv, Dominated
<1>7. ExtraLeftOver' /\ Phases'
  BY <1>1 DEF ExtraLeftOver, Phases
<1> QED BY <1>4, <1>5, <1>6, <1>7 DEF IInv

LEMMA EndStrictKeeps == IInv /\ EndStrict => IInv'
<1> SUFFICES ASSUME IInv, EndStrict PROVE IInv'
  OBVIOUS
<1>1. /\ UNCHANGED <<golds, preds, strict, extra>>
      /\ phase = "strict" /\ phase' = "extra"
      /\ Unused(Candidates(TRUE), strict) = {}
  BY DEF EndStrict
<1>2. TypeOK'
  BY <1>1 DEF IInv, TypeOK, Pairs
<1>3. OneToOne' /\ ExtraLeftOver'
  BY <1>1, FilesFixed DEF IInv, OneToOne, ExtraLeftOver, Shares
<1>5. Dominated'
  BY <1>1, DominatedStays DEF IInv
<1>4. Phases'
  BY <1>1, FilesFixed DEF Phases, Unused, Shares
<1> QED BY <1>2, <1>3, <1>4, <1>5 DEF IInv

LEMMA TakeExtraKeeps ==
  ASSUME IInv, NEW c \in Pairs, TakeExtra(c)
  PROVE  IInv'
<1>1. /\ extra' = extra \cup {c}
      /\ phase = "extra" /\ phase' = "extra"
      /\ UNCHANGED <<golds, preds, strict>>
  BY DEF TakeExtra
<1>2. /\ c \in Candidates(FALSE)
      /\ \A d \in strict \cup extra : ~Shares(c, d)
  BY DEF TakeExtra, TakesFirst, Unused
<1>3. TypeOK'
  BY <1>1 DEF IInv, TypeOK, Pairs
<1>4. OneToOne'
  <2> SUFFICES ASSUME NEW e \in strict \cup extra \cup {c},
                      NEW d \in strict \cup extra \cup {c}, Shares(e, d)
               PROVE  e = d
    BY <1>1 DEF OneToOne, Shares
  <2>1. CASE e \in strict \cup extra /\ d \in strict \cup extra
    BY <2>1 DEF IInv, OneToOne
  <2>2. CASE e = c
    BY <2>2, <1>2
  <2>3. CASE d = c
    BY <2>3, <1>2, SharingIsSymmetric
  <2> QED BY <2>1, <2>2, <2>3
<1>5. Dominated'
  BY <1>1, DominatedStays DEF IInv
<1>6. ExtraLeftOver'
  <2>1. \A e \in extra \cup {c} : /\ e \in Candidates(FALSE)
                                  /\ \A d \in strict : ~Shares(e, d)
    BY <1>2 DEF IInv, ExtraLeftOver
  <2> QED BY <2>1, <1>1, FilesFixed DEF ExtraLeftOver, Shares
<1>7. Phases'
  BY <1>1, FilesFixed DEF IInv, Phases, Unused, Shares
<1> QED BY <1>3, <1>4, <1>5, <1>6, <1>7 DEF IInv

LEMMA EndExtraKeeps == IInv /\ EndExtra => IInv'
<1> SUFFICES ASSUME IInv, EndExtra PROVE IInv'
  OBVIOUS
<1>1. /\ UNCHANGED <<golds, preds, strict, extra>>
      /\ phase = "extra" /\ phase' = "done"
  BY DEF EndExtra
<1>2. TypeOK'
  BY <1>1 DEF IInv, TypeOK, Pairs
<1>3. OneToOne' /\ ExtraLeftOver'
  BY <1>1, FilesFixed DEF IInv, OneToOne, ExtraLeftOver, Shares
<1>5. Dominated'
  BY <1>1, DominatedStays DEF IInv
<1>4. Phases'
  BY <1>1, FilesFixed DEF IInv, Phases, Unused, Shares
<1> QED BY <1>2, <1>3, <1>4, <1>5 DEF IInv

LEMMA Stutters == IInv /\ UNCHANGED vars => IInv'
<1> SUFFICES ASSUME IInv, UNCHANGED vars PROVE IInv'
  OBVIOUS
<1>1. UNCHANGED <<golds, preds, strict, extra, phase>>
  BY DEF vars
<1>2. TypeOK'
  BY <1>1 DEF IInv, TypeOK, Pairs
<1>3. OneToOne' /\ ExtraLeftOver'
  BY <1>1, FilesFixed DEF IInv, OneToOne, ExtraLeftOver, Shares
<1>5. Phases'
  BY <1>1, FilesFixed DEF IInv, Phases, Unused, Shares
<1>4. Dominated'
  BY <1>1, DominatedStays DEF IInv
<1> QED BY <1>2, <1>3, <1>4, <1>5 DEF IInv

LEMMA StepKeeps == IInv /\ [Next]_vars => IInv'
<1> SUFFICES ASSUME IInv, [Next]_vars PROVE IInv'
  OBVIOUS
<1>1. CASE \E c \in Pairs : TakeStrict(c)
  BY <1>1, TakeStrictKeeps
<1>2. CASE \E c \in Pairs : TakeExtra(c)
  BY <1>2, TakeExtraKeeps
<1>3. CASE EndStrict
  BY <1>3, EndStrictKeeps
<1>4. CASE EndExtra
  BY <1>4, EndExtraKeeps
<1>5. CASE UNCHANGED vars
  BY <1>5, Stutters
<1> QED BY <1>1, <1>2, <1>3, <1>4, <1>5 DEF Next

LEMMA IInvHolds == Spec => []IInv
<1> QED BY InitEstablishes, StepKeeps, PTL DEF Spec

-----------------------------------------------------------------------------
(* Counting.                                                               *)

\* h is the fold that SumFunction(f) runs over the subsets of its domain.
SumsOn(h, f, D) ==
  \A s \in SUBSET D : h[s] = IF s = {} THEN 0
                             ELSE f[CHOOSE x \in s : TRUE] + h[s \ {CHOOSE x \in s : TRUE}]

\* What the fold of SumFunction runs over a set of kinds, given some function
\* that satisfies its recursion.
LEMMA SumUnfolds ==
  ASSUME NEW D, NEW f, DOMAIN f = D,
         NEW g, g = [s \in SUBSET D |-> g[s]], SumsOn(g, f, D)
  PROVE  \E h : SumsOn(h, f, D) /\ SumFunction(f) = h[D]
<1> DEFINE h == CHOOSE iter : iter = [s \in SUBSET D |->
                   IF s = {} THEN 0
                   ELSE f[CHOOSE x \in s : TRUE] + iter[s \ {CHOOSE x \in s : TRUE}]]
<1>1. SumFunction(f) = h[D]
  BY DEF SumFunction, SumFunctionOnSet, FoldFunctionOnSet, MapThenFoldSet
<1>2. g = [s \in SUBSET D |->
                   IF s = {} THEN 0
                   ELSE f[CHOOSE x \in s : TRUE] + g[s \ {CHOOSE x \in s : TRUE}]]
  BY DEF SumsOn
<1>3. h = [s \in SUBSET D |->
                   IF s = {} THEN 0
                   ELSE f[CHOOSE x \in s : TRUE] + h[s \ {CHOOSE x \in s : TRUE}]]
  BY <1>2
<1> HIDE DEF h
<1>4. SumsOn(h, f, D)
  BY <1>3 DEF SumsOn
<1> QED BY <1>1, <1>4

\* The members of X of the kinds s.
Of(X, ty, s) == { x \in X : ty[x] \in s }

\* The sum over a finite set of kinds of how many there are of each is how
\* many there are of all these kinds.
LEMMA SumOfParts ==
  ASSUME NEW D, IsFiniteSet(D), NEW X, IsFiniteSet(X), NEW ty,
         NEW f, DOMAIN f = D, \A t \in D : f[t] = Cardinality(Of(X, ty, {t}))
  PROVE  SumFunction(f) = Cardinality(Of(X, ty, D))
<1> DEFINE g == [s \in SUBSET D |-> Cardinality(Of(X, ty, s))]
<1>1. ASSUME NEW s \in SUBSET D, NEW x \in s
      PROVE  /\ Cardinality(Of(X, ty, s)) = f[x] + Cardinality(Of(X, ty, s \ {x}))
             /\ Cardinality(Of(X, ty, s)) \in Nat
  <2>1. /\ Of(X, ty, s) = Of(X, ty, {x}) \cup Of(X, ty, s \ {x})
        /\ Of(X, ty, {x}) \cap Of(X, ty, s \ {x}) = {}
    BY DEF Of
  <2>2. IsFiniteSet(Of(X, ty, {x})) /\ IsFiniteSet(Of(X, ty, s \ {x}))
        /\ IsFiniteSet(Of(X, ty, s))
    <3>1. \A r : Of(X, ty, r) \in SUBSET X
      BY DEF Of
    <3> QED BY <3>1, FS_Subset
  <2>3. Cardinality(Of(X, ty, s)) =
          Cardinality(Of(X, ty, {x})) + Cardinality(Of(X, ty, s \ {x}))
    <3> DEFINE A == Of(X, ty, {x})  B == Of(X, ty, s \ {x})
    <3> HIDE DEF A, B
    <3>1. IsFiniteSet(A) /\ IsFiniteSet(B) /\ A \cap B = {}
      BY <2>1, <2>2 DEF A, B
    <3>2. Cardinality(A \cup B) = Cardinality(A) + Cardinality(B) - Cardinality({})
      BY <3>1, FS_Union
    <3>3. Cardinality(A) \in Nat /\ Cardinality(B) \in Nat /\ Cardinality({}) = 0
      BY <3>1, FS_CardinalityType, FS_EmptySet
    <3>4. Cardinality(A \cup B) = Cardinality(A) + Cardinality(B)
      BY <3>2, <3>3
    <3> QED BY <2>1, <3>4 DEF A, B
  <2> QED BY <2>2, <2>3, FS_CardinalityType
<1>2. Cardinality(Of(X, ty, {})) = 0
  BY FS_EmptySet DEF Of
<1>3. SumsOn(g, f, D)
  <2> SUFFICES ASSUME NEW s \in SUBSET D
               PROVE  g[s] = IF s = {} THEN 0
                             ELSE f[CHOOSE x \in s : TRUE] + g[s \ {CHOOSE x \in s : TRUE}]
    BY DEF SumsOn
  <2>1. CASE s = {}
    BY <1>2, <2>1
  <2>2. CASE s # {}
    <3> DEFINE x == CHOOSE x \in s : TRUE
    <3>1. x \in s /\ s \ {x} \in SUBSET D
      BY <2>2
    <3> HIDE DEF x
    <3>2. g[s] = f[x] + g[s \ {x}]
      BY <1>1, <3>1
    <3> QED BY <2>2, <3>2 DEF x
  <2> QED BY <2>1, <2>2
<1>4. g = [s \in SUBSET D |-> g[s]]
  OBVIOUS
<1>5. \A s \in SUBSET D : g[s] = Cardinality(Of(X, ty, s))
  OBVIOUS
<1> HIDE DEF g
<1>6. PICK h : SumsOn(h, f, D) /\ SumFunction(f) = h[D]
  BY <1>3, <1>4, SumUnfolds
<1> DEFINE Bad == { n \in Nat : \E s \in SUBSET D : Cardinality(s) = n /\ h[s] # g[s] }
<1>7. ASSUME NEW n \in Bad, \A m \in Bad : n <= m PROVE FALSE
  <2>1. PICK s \in SUBSET D : Cardinality(s) = n /\ h[s] # g[s]
    OBVIOUS
  <2>2. s # {}
    BY <1>3, <1>6, <2>1 DEF SumsOn
  <2> DEFINE x == CHOOSE x \in s : TRUE
  <2>3. x \in s
    BY <2>2
  <2>4. h[s] = f[x] + h[s \ {x}] /\ g[s] = f[x] + g[s \ {x}]
    BY <1>3, <1>6, <2>2 DEF SumsOn
  <2> HIDE DEF x
  <2>5. IsFiniteSet(s) /\ s \ {x} \in SUBSET D
    BY FS_Subset
  <2>6. Cardinality(s \ {x}) = n - 1 /\ n - 1 \in Nat
    <3>1. Cardinality(s \ {x}) = Cardinality(s) - 1 /\ IsFiniteSet(s \ {x})
      BY <2>3, <2>5, FS_RemoveElement
    <3> QED BY <2>1, <2>5, <3>1, FS_CardinalityType
  <2>7. n - 1 \in Bad
    BY <2>1, <2>4, <2>5, <2>6
  <2> QED BY <1>7, <2>6, <2>7
<1>8. Bad = {}
  <2>1. Bad \in SUBSET Nat
    OBVIOUS
  <2> HIDE DEF Bad
  <2> QED BY <1>7, <2>1, LeastNatural
<1>9. h[D] = g[D]
  <2>1. Cardinality(D) \in Nat
    BY FS_CardinalityType
  <2> QED BY <1>8, <2>1
<1> QED BY <1>5, <1>6, <1>9

LEMMA DisjointSum ==
  ASSUME NEW A, NEW B, IsFiniteSet(A), IsFiniteSet(B), A \cap B = {}
  PROVE  /\ IsFiniteSet(A \cup B)
         /\ Cardinality(A \cup B) = Cardinality(A) + Cardinality(B)
<1>1. Cardinality(A \cup B) = Cardinality(A) + Cardinality(B) - Cardinality({})
      /\ IsFiniteSet(A \cup B)
  BY FS_Union
<1>2. Cardinality(A) \in Nat /\ Cardinality(B) \in Nat /\ Cardinality({}) = 0
  BY FS_CardinalityType, FS_EmptySet
<1> QED BY <1>1, <1>2

\* A part of a finite set and the rest of it.
LEMMA PartAndRest ==
  ASSUME NEW S, IsFiniteSet(S), NEW T \in SUBSET S
  PROVE  /\ IsFiniteSet(T) /\ IsFiniteSet(S \ T)
         /\ Cardinality(T) + Cardinality(S \ T) = Cardinality(S)
<1>1. IsFiniteSet(T) /\ IsFiniteSet(S \ T)
  BY FS_Subset
<1>2. S = T \cup (S \ T) /\ T \cap (S \ T) = {}
  OBVIOUS
<1> DEFINE R == S \ T
<1> HIDE DEF R
<1>3. IsFiniteSet(R) /\ S = T \cup R /\ T \cap R = {}
  BY <1>1, <1>2 DEF R
<1>4. Cardinality(T \cup R) = Cardinality(T) + Cardinality(R)
  BY <1>1, <1>3, DisjointSum
<1> QED BY <1>1, <1>3, <1>4 DEF R

\* Values that tell the members of a finite set apart are as many as these.
LEMMA OneValueEach ==
  ASSUME NEW M, IsFiniteSet(M), NEW v, DOMAIN v = M,
         \A c, d \in M : v[c] = v[d] => c = d
  PROVE  /\ IsFiniteSet({ v[c] : c \in M })
         /\ Cardinality({ v[c] : c \in M }) = Cardinality(M)
<1> DEFINE V == { v[c] : c \in M }
           f == [c \in M |-> v[c]]
<1>1. f \in Surjection(M, V)
  BY DEF Surjection
<1>2. f \in Injection(M, V)
  BY DEF Injection, IsInjective
<1> HIDE DEF V, f
<1>3. IsFiniteSet(V) /\ (Cardinality(V) = Cardinality(M) <=> f \in Injection(M, V))
  BY <1>1, FS_Surjection
<1>4. IsFiniteSet(V) /\ Cardinality(V) = Cardinality(M)
  BY <1>2, <1>3
<1> QED BY <1>4 DEF V

\* The values of a function on a finite set are finitely many.
LEMMA FewValues ==
  ASSUME NEW M, IsFiniteSet(M), NEW v
  PROVE  IsFiniteSet({ v[c] : c \in M })
<1> DEFINE V == { v[c] : c \in M }
           f == [c \in M |-> v[c]]
<1>1. f \in Surjection(M, V)
  BY DEF Surjection
<1> HIDE DEF V, f
<1>2. IsFiniteSet(V)
  BY <1>1, FS_Surjection
<1> QED BY <1>2 DEF V

Firsts(M)  == { c[1] : c \in M }
Seconds(M) == { c[2] : c \in M }

\* Pairs that share no flag are as many as their golden flags and as their
\* predictions.
LEMMA PairsCounted ==
  ASSUME NEW A, NEW B, IsFiniteSet(A), IsFiniteSet(B), NEW M \in SUBSET (A \X B),
         \A c, d \in M : Shares(c, d) => c = d
  PROVE  /\ IsFiniteSet(M)
         /\ Cardinality(Firsts(M)) = Cardinality(M)
         /\ Cardinality(Seconds(M)) = Cardinality(M)
<1>1. IsFiniteSet(M)
  <2>1. IsFiniteSet(A \X B)
    BY FS_Product
  <2> QED BY <2>1, FS_Subset
<1> DEFINE v == [c \in M |-> c[1]]
           w == [c \in M |-> c[2]]
<1>2. /\ DOMAIN v = M /\ \A c, d \in M : v[c] = v[d] => c = d
      /\ DOMAIN w = M /\ \A c, d \in M : w[c] = w[d] => c = d
  BY DEF Shares
<1>3. Firsts(M) = { v[c] : c \in M } /\ Seconds(M) = { w[c] : c \in M }
  BY DEF Firsts, Seconds
<1> HIDE DEF v, w
<1>4. Cardinality({ v[c] : c \in M }) = Cardinality(M)
  BY <1>1, <1>2, OneValueEach
<1>5. Cardinality({ w[c] : c \in M }) = Cardinality(M)
  BY <1>1, <1>2, OneValueEach
<1> QED BY <1>1, <1>3, <1>4, <1>5

\* The two files are finite.
FiniteFiles == IsFiniteSet(DOMAIN golds) /\ IsFiniteSet(DOMAIN preds)

LEMMA FilesAreFinite == Spec => []FiniteFiles
<1>1. Init => FiniteFiles
  <2> SUFFICES ASSUME Init PROVE FiniteFiles
    OBVIOUS
  <2>1. PICK n \in Nat : golds \in [1 .. n -> Gold]
    BY DEF Init
  <2>2. PICK m \in Nat : preds \in [1 .. m -> Pred]
    BY DEF Init
  <2>3. \A k \in Nat : IsFiniteSet(1 .. k)
    BY FS_Interval
  <2> QED BY <2>1, <2>2, <2>3 DEF FiniteFiles
<1>2. FiniteFiles /\ [Next]_vars => FiniteFiles'
  <2> SUFFICES ASSUME FiniteFiles, [Next]_vars PROVE FiniteFiles'
    OBVIOUS
  <2>1. UNCHANGED <<golds, preds>>
    BY DEF Next, vars, TakeStrict, TakeExtra, EndStrict, EndExtra
  <2> QED BY <2>1 DEF FiniteFiles
<1> QED BY <1>1, <1>2, PTL DEF Spec

\* The golden flags and the predictions that the strict pass leaves over, and
\* those it matches, are parts of finite files.
LEMMA PartsFinite ==
  ASSUME IInv, FiniteFiles
  PROVE  /\ MatchedGolds \subseteq DOMAIN golds /\ MatchedPreds \subseteq DOMAIN preds
         /\ IsFiniteSet(MatchedGolds) /\ IsFiniteSet(DOMAIN golds \ MatchedGolds)
         /\ IsFiniteSet(DOMAIN preds \ MatchedPreds)
<1>1. MatchedGolds \subseteq DOMAIN golds /\ MatchedPreds \subseteq DOMAIN preds
  BY DEF IInv, TypeOK, Pairs, MatchedGolds, MatchedPreds
<1> QED BY <1>1, FinitePart DEF FiniteFiles

LEMMA RowsFinite ==
  ASSUME IInv, FiniteFiles
  PROVE  IsFiniteSet(Rows)
<1> DEFINE L == DOMAIN preds \ MatchedPreds
           v == [pi \in L |-> preds[pi].type]
           V == { v[pi] : pi \in L }
<1>1. Rows = FlagTypes \cup V
  BY DEF Rows
<1>2. IsFiniteSet(L)
  BY PartsFinite
<1> HIDE DEF L, v
<1>3. IsFiniteSet(V)
  BY <1>2, FewValues
<1> HIDE DEF V
<1> QED BY <1>1, <1>3, TypesAssumption, FS_Union

\* Each column of the report sums up to what it counts.
LEMMA ColumnsAddUp ==
  ASSUME IInv, FiniteFiles
  PROVE  /\ SumRows("tp") = Cardinality(MatchedGolds)
         /\ SumRows("fn") = Cardinality(DOMAIN golds \ MatchedGolds)
         /\ SumRows("fp") = Cardinality(DOMAIN preds \ MatchedPreds)
<1> DEFINE gty == [gi \in DOMAIN golds |-> golds[gi].type]
           pty == [pi \in DOMAIN preds |-> preds[pi].type]
           G == DOMAIN golds \ MatchedGolds
           P == DOMAIN preds \ MatchedPreds
           tp == [t \in Rows |-> PerType[t]["tp"]]
           fn == [t \in Rows |-> PerType[t]["fn"]]
           fp == [t \in Rows |-> PerType[t]["fp"]]
<1>1. IsFiniteSet(Rows) /\ IsFiniteSet(MatchedGolds) /\ IsFiniteSet(G) /\ IsFiniteSet(P)
  BY RowsFinite, PartsFinite
<1>2. /\ DOMAIN tp = Rows /\ DOMAIN fn = Rows /\ DOMAIN fp = Rows
      /\ \A t \in Rows : /\ tp[t] = Cardinality(Of(MatchedGolds, gty, {t}))
                         /\ fn[t] = Cardinality(Of(G, gty, {t}))
                         /\ fp[t] = Cardinality(Of(P, pty, {t}))
  <2> SUFFICES ASSUME NEW t \in Rows
               PROVE  /\ tp[t] = Cardinality(Of(MatchedGolds, gty, {t}))
                      /\ fn[t] = Cardinality(Of(G, gty, {t}))
                      /\ fp[t] = Cardinality(Of(P, pty, {t}))
    OBVIOUS
  <2>1. /\ Of(MatchedGolds, gty, {t}) = { gi \in MatchedGolds : golds[gi].type = t }
        /\ Of(G, gty, {t}) = { gi \in G : golds[gi].type = t }
        /\ Of(P, pty, {t}) = { pi \in P : preds[pi].type = t }
    BY PartsFinite DEF Of
  <2> QED BY <2>1 DEF PerType
<1>3. /\ Of(MatchedGolds, gty, Rows) = MatchedGolds
      /\ Of(G, gty, Rows) = G
  <2>1. \A gi \in DOMAIN golds : gty[gi] \in Rows
    BY DEF IInv, TypeOK, Gold, Rows
  <2> QED BY <2>1, PartsFinite DEF Of
<1>4. Of(P, pty, Rows) = P
  BY DEF Of, Rows
<1>5. /\ SumRows("tp") = SumFunction(tp)
      /\ SumRows("fn") = SumFunction(fn)
      /\ SumRows("fp") = SumFunction(fp)
  BY DEF SumRows
<1> HIDE DEF tp, fn, fp, gty, pty, G, P
<1>6. SumFunction(tp) = Cardinality(Of(MatchedGolds, gty, Rows))
  BY <1>1, <1>2, SumOfParts
<1>7. SumFunction(fn) = Cardinality(Of(G, gty, Rows))
  BY <1>1, <1>2, SumOfParts
<1>8. SumFunction(fp) = Cardinality(Of(P, pty, Rows))
  BY <1>1, <1>2, SumOfParts
<1> QED BY <1>3, <1>4, <1>5, <1>6, <1>7, <1>8 DEF G, P

-----------------------------------------------------------------------------
(* The properties of the runs.                                             *)

\* A matching is a set of pairs of indices of the two files at every step of
\* score_detection.
THEOREM MatchingTyped == Spec => []TypeOK
<1>1. IInv => TypeOK
  BY DEF IInv
<1> QED BY <1>1, IInvHolds, PTL

\* What localization adds to the true positives is mistyped, as the comment
\* above the second _greedy_match relies on.
THEOREM ConfusionsMistyped == Spec => []ExtrasMistyped
<1>1. ASSUME IInv PROVE ExtrasMistyped
  <2> SUFFICES ASSUME NEW c \in extra
               PROVE  /\ golds[c[1]].type # preds[c[2]].type
                      /\ \A d \in strict : ~Shares(c, d)
    BY DEF ExtrasMistyped
  <2>1. c \in Candidates(FALSE) /\ \A d \in strict : ~Shares(c, d)
    BY <1>1 DEF IInv, ExtraLeftOver
  <2>2. c \notin Candidates(TRUE)
    BY <1>1, <2>1 DEF IInv, Phases, Unused
  <2> QED BY <2>1, <2>2 DEF Candidates
<1> QED BY <1>1, IInvHolds, PTL

\* The true positives form a stable matching under the overlap.
THEOREM Stable == Spec => []NoBlockingPair
<1>1. ASSUME IInv PROVE NoBlockingPair
  <2> SUFFICES ASSUME phase # "strict", NEW c \in Pairs \ strict,
                      golds[c[1]].type = preds[c[2]].type,
                      golds[c[1]].segs \cap preds[c[2]].segs # {},
                      ThreshDen * Common(c) >= ThreshNum * Either(c)
               PROVE  \E d \in strict : Shares(c, d) /\ ~Closer(c, d)
    BY DEF NoBlockingPair
  <2>1. c \in Candidates(TRUE)
    BY DEF Candidates, AtThresh
  <2>2. \E d \in strict : Shares(c, d)
    BY <1>1, <2>1 DEF IInv, Phases, Unused
  <2> QED BY <1>1, <2>1, <2>2 DEF IInv, Dominated
<1> QED BY <1>1, IInvHolds, PTL
\* The report adds up, whatever the two files hold: no golden flag and no
\* prediction is lost or counted twice in per_type, overall and localization.
THEOREM ReportAddsUp == Spec => []ScoreBalances
<1>1. ASSUME IInv, FiniteFiles, ExtrasMistyped PROVE ScoreBalances
  <2> DEFINE all == strict \cup extra
             DG == DOMAIN golds
             DP == DOMAIN preds
  <2>1. /\ strict \in SUBSET (DG \X DP) /\ extra \in SUBSET (DG \X DP)
        /\ all \in SUBSET (DG \X DP)
        /\ IsFiniteSet(DG) /\ IsFiniteSet(DP)
    BY <1>1 DEF IInv, TypeOK, Pairs, FiniteFiles
  <2>2. \A c, d \in all : Shares(c, d) => c = d
    BY <1>1 DEF IInv, OneToOne
  <2>3. strict \cap extra = {}
    BY <1>1 DEF ExtrasMistyped, Shares
  <2>4. TypeConfusions = extra
    BY <1>1 DEF ExtrasMistyped, TypeConfusions
  <2>5. /\ MatchedGolds \subseteq DG /\ MatchedPreds \subseteq DP
        /\ Firsts(all) \subseteq DG /\ Seconds(all) \subseteq DP
    BY <2>1 DEF MatchedGolds, MatchedPreds, Firsts, Seconds
  <2> HIDE DEF DG, DP
  <2>6. /\ Cardinality(MatchedGolds) = Cardinality(strict)
        /\ Cardinality(MatchedPreds) = Cardinality(strict)
        /\ IsFiniteSet(strict) /\ IsFiniteSet(extra) /\ IsFiniteSet(all)
    <3> HIDE DEF all
    <3>1. MatchedGolds = Firsts(strict) /\ MatchedPreds = Seconds(strict)
      BY DEF MatchedGolds, MatchedPreds, Firsts, Seconds
    <3>2. \A c, d \in strict : Shares(c, d) => c = d
      BY <2>2 DEF all
    <3>3. \A c, d \in extra : Shares(c, d) => c = d
      BY <2>2 DEF all
    <3>4. /\ Cardinality(Firsts(strict)) = Cardinality(strict)
          /\ Cardinality(Seconds(strict)) = Cardinality(strict)
          /\ IsFiniteSet(strict)
      BY <2>1, <3>2, PairsCounted
    <3>5. IsFiniteSet(extra) /\ IsFiniteSet(all)
      BY <2>1, <2>2, <3>3, PairsCounted
    <3> QED BY <3>1, <3>4, <3>5
  <2>7. Cardinality(Firsts(all)) = Cardinality(all) /\ Cardinality(Seconds(all)) = Cardinality(all)
    <3> HIDE DEF all
    <3> QED BY <2>1, <2>2, PairsCounted
  <2>8. Cardinality(all) = Cardinality(strict) + Cardinality(extra)
    BY <2>3, <2>6, DisjointSum
  <2>9. /\ Cardinality(MatchedGolds) + Cardinality(DG \ MatchedGolds) = Cardinality(DG)
        /\ Cardinality(MatchedPreds) + Cardinality(DP \ MatchedPreds) = Cardinality(DP)
    BY <2>1, <2>5, PartAndRest
  <2>10. /\ Cardinality(DG) \in Nat /\ Cardinality(DP) \in Nat
         /\ Cardinality(strict) \in Nat /\ Cardinality(extra) \in Nat
    BY <2>1, <2>6, FS_CardinalityType
  <2>11. /\ Overall.tp = Cardinality(MatchedGolds)
         /\ Overall.fn = Cardinality(DG \ MatchedGolds)
         /\ Overall.fp = Cardinality(DP \ MatchedPreds)
    BY <1>1, ColumnsAddUp DEF Overall, DG, DP
  <2>12. /\ Localization.tp = Cardinality(strict) + Cardinality(extra)
         /\ Localization.fp = Cardinality(DP) - Cardinality(Seconds(all))
         /\ Localization.fn = Cardinality(DG) - Cardinality(Firsts(all))
    BY DEF Localization, Firsts, Seconds, DG, DP
  <2>13. /\ Overall.tp + Overall.fn = Cardinality(DG)
         /\ Overall.tp + Overall.fp = Cardinality(DP)
         /\ Overall.tp = Cardinality(strict)
    BY <2>6, <2>9, <2>11
  <2>14. Localization.tp = Overall.tp + Cardinality(TypeConfusions)
    BY <2>4, <2>12, <2>13
  <2>15. /\ Localization.tp + Localization.fn = Cardinality(DG)
         /\ Localization.tp + Localization.fp = Cardinality(DP)
    BY <2>7, <2>8, <2>10, <2>12
  <2> QED BY <2>13, <2>14, <2>15 DEF ScoreBalances, DG, DP
<1> QED BY <1>1, IInvHolds, FilesAreFinite, ConfusionsMistyped, PTL

-----------------------------------------------------------------------------
(* The order of the file: two runs of the greedy matching.                 *)

\* In a finished matching, a candidate left out lost to one that comes before
\* it and shares a flag with it.
Beaten ==
  /\ strict \subseteq Candidates(TRUE)
  /\ \A c \in Candidates(TRUE) :
       \/ c \in strict
       \/ \A d \in strict : ~Shares(c, d)
       \/ \E d \in strict : Shares(c, d) /\ Before(d, c)
  /\ \A c \in Candidates(FALSE) :
       \/ c \in extra
       \/ \A d \in strict \cup extra : ~Shares(c, d)
       \/ \E d \in strict : Shares(c, d)
       \/ \E d \in extra : Shares(c, d) /\ Before(d, c)
  /\ phase = "done" => Unused(Candidates(FALSE), strict \cup extra) = {}

\* A step that leaves both files alone leaves the order of the pairs.
LEMMA OrderFixed ==
  ASSUME UNCHANGED <<golds, preds>>
  PROVE  \A c, d : Before(c, d)' = Before(c, d)
<1>1. \A c, d : Closer(c, d)' = Closer(c, d)
  BY FilesFixed
<1>2. \A c, d : TieBefore(c, d)' = TieBefore(c, d)
  BY DEF TieBefore
<1> QED BY <1>1, <1>2 DEF Before

LEMMA BeatenHolds == Spec => []Beaten
<1>1. Init => Beaten
  BY DEF Init, Beaten
<1>2. Beaten /\ IInv /\ [Next]_vars => Beaten'
  <2> SUFFICES ASSUME Beaten, IInv, [Next]_vars PROVE Beaten'
    OBVIOUS
  <2>1. UNCHANGED <<golds, preds>>
    BY DEF Next, vars, TakeStrict, TakeExtra, EndStrict, EndExtra
  <2>2. /\ Candidates(TRUE)' = Candidates(TRUE)
        /\ Candidates(FALSE)' = Candidates(FALSE)
    BY <2>1, FilesFixed
  <2>3. \A c, d : Before(c, d)' = Before(c, d)
    BY <2>1, OrderFixed
  <2> DEFINE C == Candidates(TRUE)  L == Candidates(FALSE)
  <2> SUFFICES /\ strict' \subseteq C
               /\ \A c \in C :
                    \/ c \in strict'
                    \/ \A d \in strict' : ~Shares(c, d)
                    \/ \E d \in strict' : Shares(c, d) /\ Before(d, c)
               /\ \A c \in L :
                    \/ c \in extra'
                    \/ \A d \in strict' \cup extra' : ~Shares(c, d)
                    \/ \E d \in strict' : Shares(c, d)
                    \/ \E d \in extra' : Shares(c, d) /\ Before(d, c)
               /\ phase' = "done" => Unused(L, strict' \cup extra') = {}
    <3> HIDE DEF C, L
    <3>1. \A c, d : Shares(c, d)' = Shares(c, d)
      BY DEF Shares
    <3> QED BY <2>2, <2>3 DEF Beaten, Unused, Shares, C, L
  <2> HIDE DEF C, L
  <2>4. /\ strict \subseteq C
        /\ \A c \in C : \/ c \in strict
                        \/ \A d \in strict : ~Shares(c, d)
                        \/ \E d \in strict : Shares(c, d) /\ Before(d, c)
        /\ \A c \in L : \/ c \in extra
                        \/ \A d \in strict \cup extra : ~Shares(c, d)
                        \/ \E d \in strict : Shares(c, d)
                        \/ \E d \in extra : Shares(c, d) /\ Before(d, c)
        /\ phase = "done" => Unused(L, strict \cup extra) = {}
    BY DEF Beaten, C, L
  <2>5. ASSUME NEW c \in Pairs, TakeStrict(c)
        PROVE  /\ strict' = strict \cup {c} /\ extra = {} /\ extra' = {} /\ c \in C
               /\ phase' = "strict"
               /\ \A e \in C : /\ \A d \in strict : ~Shares(e, d)
                               /\ e # c
                               => Before(c, e)
    BY <2>5 DEF TakeStrict, TakesFirst, Unused, IInv, Phases, C
  <2>6. CASE \E c \in Pairs : TakeStrict(c)
    <3>1. PICK c \in Pairs : TakeStrict(c)
      BY <2>6
    <3>2. /\ strict' = strict \cup {c} /\ extra = {} /\ extra' = {} /\ c \in C
          /\ phase' = "strict"
          /\ \A e \in C : /\ \A d \in strict : ~Shares(e, d)
                          /\ e # c
                          => Before(c, e)
      BY <2>5, <3>1
    <3>3. ASSUME NEW e \in C
          PROVE  \/ e \in strict'
                 \/ \A d \in strict' : ~Shares(e, d)
                 \/ \E d \in strict' : Shares(e, d) /\ Before(d, e)
      BY <2>4, <3>2
    <3>4. ASSUME NEW e \in L
          PROVE  \/ \A d \in strict' \cup extra' : ~Shares(e, d)
                 \/ \E d \in strict' : Shares(e, d)
      BY <3>2
    <3> QED BY <2>4, <3>2, <3>3, <3>4
  <2>7. CASE \E c \in Pairs : TakeExtra(c)
    <3>1. PICK c \in Pairs : TakeExtra(c)
      BY <2>7
    <3>2. /\ extra' = extra \cup {c} /\ strict' = strict /\ phase' = "extra" /\ c \in L
          /\ \A e \in L : /\ \A d \in strict \cup extra : ~Shares(e, d)
                          /\ e # c
                          => Before(c, e)
      BY <3>1 DEF TakeExtra, TakesFirst, Unused, L
    <3>3. ASSUME NEW e \in L
          PROVE  \/ e \in extra'
                 \/ \A d \in strict' \cup extra' : ~Shares(e, d)
                 \/ \E d \in strict' : Shares(e, d)
                 \/ \E d \in extra' : Shares(e, d) /\ Before(d, e)
      BY <2>4, <3>2
    <3> QED BY <2>4, <3>2, <3>3
  <2>8. CASE EndStrict
    BY <2>4, <2>8 DEF EndStrict
  <2>9. CASE EndExtra
    BY <2>4, <2>9 DEF EndExtra, L
  <2>10. CASE UNCHANGED vars
    BY <2>4, <2>10 DEF vars
  <2> QED BY <2>6, <2>7, <2>8, <2>9, <2>10 DEF Next
<1> QED BY <1>1, <1>2, IInvHolds, PTL DEF Spec

\* Of two pairs the sort puts at most one before the other.
LEMMA OrderIsStrict ==
  ASSUME TypeOK, DOMAIN golds \subseteq Nat, DOMAIN preds \subseteq Nat,
         NEW c \in Pairs, NEW d \in Pairs
  PROVE  ~(Before(c, d) /\ Before(d, c))
<1>1. /\ golds[c[1]].id \in Nat /\ golds[d[1]].id \in Nat
      /\ preds[c[2]].id \in Nat /\ preds[d[2]].id \in Nat
      /\ preds[c[2]].type \in Nat /\ preds[d[2]].type \in Nat
      /\ preds[c[2]].segs \in SUBSET Nat /\ preds[d[2]].segs \in SUBSET Nat
      /\ c \in (DOMAIN golds) \X (DOMAIN preds) /\ d \in (DOMAIN golds) \X (DOMAIN preds)
  <2>1. /\ golds[c[1]] \in Gold /\ golds[d[1]] \in Gold
        /\ preds[c[2]] \in Pred /\ preds[d[2]] \in Pred
    BY DEF TypeOK, Pairs
  <2> QED BY <2>1, SegmentsAssumption, TypesAssumption DEF Gold, Pred, Pairs
<1>2. ASSUME NEW S \in SUBSET Nat, NEW T \in SUBSET Nat
      PROVE  ~(TupleBefore(S, T) /\ TupleBefore(T, S))
  <2> SUFFICES ASSUME TupleBefore(S, T), TupleBefore(T, S) PROVE FALSE
    OBVIOUS
  <2>1. PICK m \in (S \ T) \cup (T \ S) :
          /\ \A x \in (S \ T) \cup (T \ S) : m <= x
          /\ IF m \in S THEN \E t \in T : t > m ELSE ~\E s \in S : s > m
    BY DEF TupleBefore
  <2>2. PICK k \in (T \ S) \cup (S \ T) :
          /\ \A x \in (T \ S) \cup (S \ T) : k <= x
          /\ IF k \in T THEN \E t \in S : t > k ELSE ~\E s \in T : s > k
    BY DEF TupleBefore
  <2>3. m = k
    BY <2>1, <2>2
  <2> QED BY <2>1, <2>2, <2>3
<1>3. ~(Closer(c, d) /\ Closer(d, c))
  <2> DEFINE x == Common(c) * Either(d)
             y == Common(d) * Either(c)
  <2>1. x \in Int /\ y \in Int
    <3>1. /\ Common(c) \in Int /\ Either(c) \in Int
          /\ Common(d) \in Int /\ Either(d) \in Int
      BY CountsAreNat
    <3> QED BY <3>1
  <2>2. (Closer(c, d) <=> x > y) /\ (Closer(d, c) <=> y > x)
    BY DEF Closer
  <2> HIDE DEF x, y
  <2> QED BY <2>1, <2>2
<1>4. ~(TieBefore(c, d) /\ TieBefore(d, c))
  BY <1>1, <1>2 DEF TieBefore
<1> QED BY <1>3, <1>4 DEF Before

-----------------------------------------------------------------------------
(* A pairing of two lists of the same entries that keeps the order of      *)
(* equal entries.                                                          *)

Increasing(m, A) == \A x, y \in A : x < y => m[x] < m[y]

\* Two finite sets of numbers, as many in one as in the other, can be paired in
\* their order.
LEMMA PairedInOrder ==
  ASSUME NEW n \in Nat
  PROVE  \A A, B \in SUBSET (1 .. n) :
           Cardinality(A) = Cardinality(B) => \E m \in Bijection(A, B) : Increasing(m, A)
<1> DEFINE N == 1 .. n
           Fits(A, B) == Cardinality(A) = Cardinality(B) =>
                           \E m \in Bijection(A, B) : Increasing(m, A)
           Bad == { k \in Nat : \E A, B \in SUBSET N : Cardinality(A) = k /\ ~Fits(A, B) }
<1>1. IsFiniteSet(N) /\ N \in SUBSET Nat
  BY FS_Interval
<1>2. ASSUME NEW A \in SUBSET N PROVE IsFiniteSet(A) /\ Cardinality(A) \in Nat
  <2> HIDE DEF N
  <2> QED BY <1>1, FinitePart
<1>3. ASSUME NEW A \in SUBSET N, A # {}
      PROVE  \E a \in A : /\ \A x \in A : a <= x
                          /\ Cardinality(A \ {a}) = Cardinality(A) - 1
  <2>1. A \in SUBSET Nat
    BY <1>1
  <2>2. PICK a \in A : \A x \in A : a <= x
    BY <1>3, <2>1, LeastNatural
  <2>3. IsFiniteSet(A)
    BY <1>2
  <2>4. Cardinality(A \ {a}) = Cardinality(A) - 1
    BY <2>3, FS_RemoveElement
  <2> QED BY <2>2, <2>4
<1>4. ASSUME NEW k \in Bad, \A j \in Bad : k <= j PROVE FALSE
  <2>1. PICK A \in SUBSET N, B \in SUBSET N : Cardinality(A) = k /\ ~Fits(A, B)
    OBVIOUS
  <2>2. Cardinality(B) = k /\ IsFiniteSet(A) /\ IsFiniteSet(B)
    BY <1>2, <2>1
  <2>3. CASE A = {}
    <3>1. B = {}
      BY <2>1, <2>2, <2>3, FS_EmptySet
    <3> DEFINE m == [x \in {} |-> x]
    <3>2. m \in Bijection(A, B) /\ Increasing(m, A)
      BY <2>3, <3>1 DEF Bijection, Injection, Surjection, IsInjective, Increasing
    <3> QED BY <2>1, <3>2
  <2>4. CASE A # {}
    <3>1. B # {}
      BY <2>1, <2>2, <2>4, FS_EmptySet
    <3>2. PICK a \in A : (\A x \in A : a <= x) /\ Cardinality(A \ {a}) = k - 1
      BY <1>3, <2>1, <2>4
    <3>3. PICK b \in B : (\A y \in B : b <= y) /\ Cardinality(B \ {b}) = k - 1
      BY <1>3, <2>2, <3>1
    <3> DEFINE A1 == A \ {a}  B1 == B \ {b}
    <3>4. A1 \in SUBSET N /\ B1 \in SUBSET N /\ k - 1 \in Nat
      BY <1>2, <3>2
    <3>5. Fits(A1, B1)
      <4>1. k - 1 \notin Bad
        BY <1>4, <3>4
      <4> HIDE DEF Fits
      <4> QED BY <3>2, <3>4, <4>1
    <3>6. PICK m \in Bijection(A1, B1) : Increasing(m, A1)
      BY <3>2, <3>3, <3>5
    <3> DEFINE g == [x \in A |-> IF x = a THEN b ELSE m[x]]
    <3>7. m \in [A1 -> B1] /\ (\A x, y \in A1 : m[x] = m[y] => x = y)
          /\ (\A y \in B1 : \E x \in A1 : m[x] = y)
      BY <3>6 DEF Bijection, Injection, Surjection, IsInjective
    <3>8. g \in [A -> B] /\ (\A x, y \in A : g[x] = g[y] => x = y)
          /\ (\A y \in B : \E x \in A : g[x] = y)
      <4>1. g \in [A -> B]
        BY <3>7
      <4>2. ASSUME NEW x \in A, NEW y \in A, g[x] = g[y] PROVE x = y
        BY <3>7, <4>2
      <4>3. ASSUME NEW y \in B PROVE \E x \in A : g[x] = y
        <5>1. CASE y = b
          BY <5>1
        <5>2. CASE y # b
          <6>1. PICK x \in A1 : m[x] = y
            BY <3>7, <5>2
          <6> QED BY <6>1
        <5> QED BY <5>1, <5>2
      <4> QED BY <4>1, <4>2, <4>3
    <3>9. g \in Bijection(A, B)
      BY <3>8 DEF Bijection, Injection, Surjection, IsInjective
    <3>10. Increasing(g, A)
      <4> SUFFICES ASSUME NEW x \in A, NEW y \in A, x < y PROVE g[x] < g[y]
        BY DEF Increasing
      <4>1. x \in Nat /\ y \in Nat /\ a \in Nat /\ b \in Nat
        BY <1>1
      <4>2. y # a
        BY <3>2, <4>1
      <4>3. g[y] = m[y] /\ m[y] \in B1 /\ m[y] \in Nat
        BY <1>1, <3>7, <4>2
      <4>4. CASE x = a
        BY <3>3, <4>1, <4>3, <4>4
      <4>5. CASE x # a
        <5>1. g[x] = m[x] /\ x \in A1 /\ y \in A1
          BY <4>2, <4>5
        <5> QED BY <3>6, <4>3, <5>1 DEF Increasing
      <4> QED BY <4>4, <4>5
    <3> QED BY <2>1, <3>9, <3>10
  <2> QED BY <2>3, <2>4
<1>5. Bad = {}
  <2>1. Bad \in SUBSET Nat
    OBVIOUS
  <2> HIDE DEF Bad
  <2> QED BY <1>4, <2>1, LeastNatural
<1> SUFFICES ASSUME NEW A \in SUBSET N, NEW B \in SUBSET N PROVE Fits(A, B)
  OBVIOUS
<1> QED BY <1>2, <1>5

\* k2 is k1 in the order q.
Shuffled(n, k1, k2, q) ==
  q \in Bijection(1 .. n, 1 .. n) /\ \A j \in 1 .. n : k2[j] = k1[q[j]]

Kin(n, k, v) == { x \in 1 .. n : k[x] = v }

\* Two lists of which one is the other in another order.
LEMMA OrderKeepingTwins ==
  ASSUME NEW n \in Nat, NEW k1, NEW k2, NEW q, Shuffled(n, k1, k2, q)
  PROVE  \E sg \in Bijection(1 .. n, 1 .. n) :
           /\ \A i \in 1 .. n : k2[sg[i]] = k1[i]
           /\ \A i, j \in 1 .. n : k1[i] = k1[j] /\ i < j => sg[i] < sg[j]
<1> DEFINE N == 1 .. n
           A(v) == Kin(n, k1, v)
           B(v) == Kin(n, k2, v)
           mm(v) == CHOOSE m \in Bijection(A(v), B(v)) : Increasing(m, A(v))
           sg == [i \in N |-> mm(k1[i])[i]]
<1>0. q \in Bijection(N, N) /\ \A j \in N : k2[j] = k1[q[j]]
  BY DEF Shuffled
<1>1. IsFiniteSet(N)
  BY FS_Interval
<1>2. q \in [N -> N] /\ (\A x, y \in N : q[x] = q[y] => x = y)
      /\ (\A y \in N : \E x \in N : q[x] = y)
  BY <1>0 DEF Bijection, Injection, Surjection, IsInjective
<1>3. ASSUME NEW v
      PROVE  /\ mm(v) \in Bijection(A(v), B(v)) /\ Increasing(mm(v), A(v))
  <2>1. A(v) \in SUBSET N /\ B(v) \in SUBSET N
    BY DEF Kin
  <2> DEFINE r == [j \in B(v) |-> q[j]]
  <2>2. r \in Bijection(B(v), A(v))
    <3>1. r \in [B(v) -> A(v)]
      BY <1>0, <1>2 DEF Kin
    <3>2. \A x, y \in B(v) : r[x] = r[y] => x = y
      BY <1>0, <1>2 DEF Kin
    <3>3. ASSUME NEW y \in A(v) PROVE \E x \in B(v) : r[x] = y
      <4>1. y \in N /\ k1[y] = v
        BY DEF Kin
      <4>2. PICK x \in N : q[x] = y
        BY <1>2, <4>1
      <4>3. x \in B(v)
        BY <1>0, <4>1, <4>2 DEF Kin
      <4> QED BY <4>2, <4>3
    <3> QED BY <3>1, <3>2, <3>3 DEF Bijection, Injection, Surjection, IsInjective
  <2>3. IsFiniteSet(B(v))
    <3> HIDE DEF N, B
    <3> QED BY <1>1, <2>1, FinitePart
  <2>4. Cardinality(A(v)) = Cardinality(B(v))
    <3> HIDE DEF A, B, r
    <3> QED BY <2>2, <2>3, FS_Bijection DEF ExistsBijection
  <2>5. \E m \in Bijection(A(v), B(v)) : Increasing(m, A(v))
    <3> HIDE DEF A, B
    <3> QED BY <2>1, <2>4, PairedInOrder
  <2> HIDE DEF A, B
  <2> QED BY <2>5
<1> HIDE DEF mm
<1>4. ASSUME NEW v
      PROVE  /\ mm(v) \in [A(v) -> B(v)] /\ (\A x, y \in A(v) : mm(v)[x] = mm(v)[y] => x = y)
             /\ (\A y \in B(v) : \E x \in A(v) : mm(v)[x] = y)
             /\ \A x, y \in A(v) : x < y => mm(v)[x] < mm(v)[y]
  BY <1>3 DEF Bijection, Injection, Surjection, IsInjective, Increasing
<1>5. ASSUME NEW i \in N
      PROVE  /\ sg[i] = mm(k1[i])[i] /\ sg[i] \in N
             /\ k2[sg[i]] = k1[i] /\ i \in A(k1[i])
  <2>1. i \in A(k1[i])
    BY DEF Kin
  <2>2. mm(k1[i])[i] \in B(k1[i])
    BY <1>4, <2>1
  <2> QED BY <2>1, <2>2 DEF Kin
<1>6. sg = [i \in N |-> sg[i]]
  OBVIOUS
<1> HIDE DEF sg
<1>7. sg \in [N -> N]
  BY <1>5, <1>6
<1>8. ASSUME NEW x \in N, NEW y \in N, sg[x] = sg[y] PROVE x = y
  <2>1. k1[x] = k1[y]
    BY <1>5, <1>8
  <2>2. x \in A(k1[x]) /\ y \in A(k1[x]) /\ mm(k1[x])[x] = mm(k1[x])[y]
    BY <1>5, <1>8, <2>1
  <2> HIDE DEF A
  <2> QED BY <1>4, <2>2
<1>9. ASSUME NEW y \in N PROVE \E x \in N : sg[x] = y
  <2>1. y \in B(k2[y])
    BY DEF Kin
  <2>2. PICK x \in A(k2[y]) : mm(k2[y])[x] = y
    BY <1>4, <2>1
  <2>3. x \in N /\ k1[x] = k2[y]
    BY DEF Kin
  <2> QED BY <1>5, <2>2, <2>3
<1>10. sg \in Bijection(N, N)
  BY <1>7, <1>8, <1>9 DEF Bijection, Injection, Surjection, IsInjective
<1>11. ASSUME NEW i \in N, NEW j \in N, k1[i] = k1[j], i < j PROVE sg[i] < sg[j]
  <2>1. i \in A(k1[i]) /\ j \in A(k1[i])
    BY <1>5, <1>11
  <2>2. sg[i] = mm(k1[i])[i] /\ sg[j] = mm(k1[i])[j]
    BY <1>5, <1>11
  <2> HIDE DEF A
  <2> QED BY <1>4, <1>11, <2>1, <2>2
<1> QED BY <1>5, <1>10, <1>11

-----------------------------------------------------------------------------
(* What the sort and the two passes make of twins.                         *)

\* The two predictions differ in nothing that the matching reads.
Alike(p, q) == p.id = q.id /\ p.type = q.type /\ p.segs = q.segs

\* sg takes every prediction of the first file to one of the second that is
\* scored alike, and keeps the order of those that the sort cannot tell apart.
Twins(sg) ==
  /\ sg \in Bijection(DOMAIN preds, DOMAIN preds2)
  /\ \A i \in DOMAIN preds :
       /\ Alike(preds[i], preds2[sg[i]])
       /\ preds[i].segs = {} => preds[i].ungrounded = preds2[sg[i]].ungrounded
  /\ \A i, j \in DOMAIN preds :
       Alike(preds[i], preds[j]) /\ preds[i].segs # {} /\ i < j => sg[i] < sg[j]

Twin(sg, c) == <<c[1], sg[c[2]]>>

LEMMA TwinsOneToOne ==
  ASSUME NEW sg, Twins(sg)
  PROVE  /\ sg \in [DOMAIN preds -> DOMAIN preds2]
         /\ \A i, j \in DOMAIN preds : sg[i] = sg[j] => i = j
         /\ \A j \in DOMAIN preds2 : \E i \in DOMAIN preds : sg[i] = j
         /\ \A c \in Pairs : Twin(sg, c) \in Again!Pairs
         /\ \A e \in Again!Pairs : \E c \in Pairs : Twin(sg, c) = e
         /\ \A c, d \in Pairs : Again!Shares(Twin(sg, c), Twin(sg, d)) <=> Shares(c, d)
         /\ \A c, d \in Pairs : Twin(sg, c) = Twin(sg, d) => c = d
<1>1. /\ sg \in [DOMAIN preds -> DOMAIN preds2]
      /\ \A i, j \in DOMAIN preds : sg[i] = sg[j] => i = j
      /\ \A j \in DOMAIN preds2 : \E i \in DOMAIN preds : sg[i] = j
  BY DEF Twins, Bijection, Injection, Surjection, IsInjective
<1>2. ASSUME NEW c \in Pairs
      PROVE  /\ c[1] \in DOMAIN golds /\ c[2] \in DOMAIN preds
             /\ c = <<c[1], c[2]>> /\ Twin(sg, c) \in Again!Pairs
  BY <1>1 DEF Pairs, Again!Pairs, Twin
<1>3. ASSUME NEW e \in Again!Pairs PROVE \E c \in Pairs : Twin(sg, c) = e
  <2>1. e[1] \in DOMAIN golds /\ e[2] \in DOMAIN preds2 /\ e = <<e[1], e[2]>>
    BY DEF Again!Pairs
  <2>2. PICK i \in DOMAIN preds : sg[i] = e[2]
    BY <1>1, <2>1
  <2>3. <<e[1], i>> \in Pairs /\ Twin(sg, <<e[1], i>>) = e
    BY <2>1, <2>2 DEF Pairs, Twin
  <2> QED BY <2>3
<1>4. ASSUME NEW c \in Pairs, NEW d \in Pairs
      PROVE  /\ Again!Shares(Twin(sg, c), Twin(sg, d)) <=> Shares(c, d)
             /\ Twin(sg, c) = Twin(sg, d) => c = d
  <2>1. /\ c[2] \in DOMAIN preds /\ d[2] \in DOMAIN preds
        /\ c = <<c[1], c[2]>> /\ d = <<d[1], d[2]>>
    BY <1>2
  <2>2. sg[c[2]] = sg[d[2]] <=> c[2] = d[2]
    BY <1>1, <2>1
  <2>3. Again!Shares(Twin(sg, c), Twin(sg, d)) <=> Shares(c, d)
    BY <2>2 DEF Again!Shares, Shares, Twin
  <2>4. Twin(sg, c) = Twin(sg, d) => c = d
    BY <2>1, <2>2 DEF Twin
  <2> QED BY <2>3, <2>4
<1> QED BY <1>1, <1>2, <1>3, <1>4

\* The second instance counts as the first does.
LEMMA CountsAgain ==
  /\ \A S : Again!Cardinality(S) = Cardinality(S)
  /\ \A f : Again!SumFunction(f) = SumFunction(f)
<1>1. \A S : Again!Cardinality(S) = Cardinality(S)
  BY DEF Again!Cardinality, Cardinality
<1>2. \A f : Again!SumFunction(f) = SumFunction(f)
  BY DEF Again!SumFunction, SumFunction, Again!SumFunctionOnSet, SumFunctionOnSet,
         Again!FoldFunctionOnSet, FoldFunctionOnSet, Again!MapThenFoldSet, MapThenFoldSet
<1> QED BY <1>1, <1>2

LEMMA TwinsOverlap ==
  ASSUME NEW sg, Twins(sg), NEW c \in Pairs
  PROVE  /\ Again!Common(Twin(sg, c)) = Common(c)
         /\ Again!Either(Twin(sg, c)) = Either(c)
         /\ \A same \in BOOLEAN :
              Twin(sg, c) \in Again!Candidates(same) <=> c \in Candidates(same)
<1>1. c[2] \in DOMAIN preds /\ Twin(sg, c) \in Again!Pairs
  BY TwinsOneToOne DEF Pairs
<1>2. Alike(preds[c[2]], preds2[sg[c[2]]])
  BY <1>1 DEF Twins
<1>3. Twin(sg, c)[1] = c[1] /\ Twin(sg, c)[2] = sg[c[2]]
  BY DEF Twin
<1>4. /\ Again!Common(Twin(sg, c)) = Common(c)
      /\ Again!Either(Twin(sg, c)) = Either(c)
  BY <1>2, <1>3, CountsAgain DEF Again!Common, Common, Again!Either, Either, Alike
<1>5. Again!AtThresh(Twin(sg, c)) <=> AtThresh(c)
  BY <1>4 DEF Again!AtThresh, AtThresh
<1>6. ASSUME NEW same \in BOOLEAN
      PROVE  Twin(sg, c) \in Again!Candidates(same) <=> c \in Candidates(same)
  BY <1>1, <1>2, <1>3, <1>5 DEF Again!Candidates, Candidates, Alike
<1> QED BY <1>4, <1>6

\* The sort puts twins in the order of the pairs they stand for.
LEMMA TwinsInOrder ==
  ASSUME NEW sg, Twins(sg), TypeOK, DOMAIN preds \subseteq Nat, DOMAIN preds2 \subseteq Nat,
         NEW c \in Pairs, NEW d \in Pairs, preds[c[2]].segs # {},
         Again!Before(Twin(sg, c), Twin(sg, d))
  PROVE  Before(c, d)
<1>1. /\ Again!Closer(Twin(sg, c), Twin(sg, d)) <=> Closer(c, d)
      /\ Again!Closer(Twin(sg, d), Twin(sg, c)) <=> Closer(d, c)
  BY TwinsOverlap DEF Again!Closer, Closer
<1> DEFINE i == c[2]  j == d[2]
<1>2. i \in DOMAIN preds /\ j \in DOMAIN preds /\ i \in Nat /\ j \in Nat
      /\ sg[i] \in Nat /\ sg[j] \in Nat
  BY TwinsOneToOne DEF Pairs
<1>3. Alike(preds[i], preds2[sg[i]]) /\ Alike(preds[j], preds2[sg[j]])
  BY <1>2 DEF Twins
<1>4. Alike(preds[i], preds[j]) => (sg[i] < sg[j] => i < j)
  <2> SUFFICES ASSUME Alike(preds[i], preds[j]), sg[i] < sg[j] PROVE i < j
    OBVIOUS
  <2>1. preds[j].segs # {} /\ Alike(preds[j], preds[i])
    BY DEF Alike
  <2>2. j < i => sg[j] < sg[i]
    BY <1>2, <2>1 DEF Twins
  <2> HIDE DEF i, j
  <2>3. i # j /\ ~(j < i)
    BY <1>2, <2>2
  <2> QED BY <1>2, <2>3
<1>5. /\ Twin(sg, c)[1] = c[1] /\ Twin(sg, c)[2] = sg[i]
      /\ Twin(sg, d)[1] = d[1] /\ Twin(sg, d)[2] = sg[j]
  BY DEF Twin
<1>6. \A S, T : Again!TupleBefore(S, T) <=> TupleBefore(S, T)
  BY DEF Again!TupleBefore, TupleBefore
<1>7. Again!TieBefore(Twin(sg, c), Twin(sg, d)) => TieBefore(c, d)
  <2> DEFINE a == preds2[sg[i]]  b == preds2[sg[j]]  p == preds[i]  r == preds[j]
  <2>1. /\ a.id = p.id /\ a.type = p.type /\ a.segs = p.segs
        /\ b.id = r.id /\ b.type = r.type /\ b.segs = r.segs
    BY <1>3 DEF Alike
  <2>2. (p.id = r.id /\ p.type = r.type /\ p.segs = r.segs) => (sg[i] < sg[j] => i < j)
    BY <1>4 DEF Alike
  <2> QED BY <1>5, <1>6, <2>1, <2>2 DEF Again!TieBefore, TieBefore
<1> QED BY <1>1, <1>7 DEF Again!Before, Before

-----------------------------------------------------------------------------
(* Both files hold the same items.                                         *)

Files ==
  /\ \E n \in Nat : golds \in [1 .. n -> Gold]
  /\ \E n \in Nat : file \in [1 .. n -> Item]
  /\ perm \in Bijection(DOMAIN file, DOMAIN file)
  /\ preds = Loaded(file)
  /\ preds2 = Loaded(Reordered)

\* An item is loaded field by field, and gets an id if it has none.
LEMMA ItemLoaded ==
  ASSUME NEW n \in Nat, NEW l \in [1 .. n -> Item]
  PROVE  /\ Loaded(l) \in [1 .. n -> Pred]
         /\ \A i \in 1 .. n :
              /\ Loaded(l)[i].type = l[i].type /\ Loaded(l)[i].segs = l[i].segs
              /\ Loaded(l)[i].ungrounded = l[i].ungrounded
              /\ l[i].id # NoId => Loaded(l)[i].id = l[i].id
<1>1. ASSUME NEW i \in 1 .. n
      PROVE  /\ Loaded(l)[i] \in Pred
             /\ Loaded(l)[i].type = l[i].type /\ Loaded(l)[i].segs = l[i].segs
             /\ Loaded(l)[i].ungrounded = l[i].ungrounded
             /\ l[i].id # NoId => Loaded(l)[i].id = l[i].id
  <2>1. l[i] \in Item /\ DOMAIN l = 1 .. n
    OBVIOUS
  <2> DEFINE given == l[i].id
             new == IF given = NoId THEN FallbackBase + (i - 1) ELSE given
  <2>2. Loaded(l)[i] = [l[i] EXCEPT !.id = new]
    BY <2>1 DEF Loaded
  <2>3. new \in Nat
    <3>1. given \in Nat \cup {NoId}
      BY <2>1 DEF Item
    <3>2. FallbackBase + (i - 1) \in Nat
      BY FallbackAssumption
    <3> HIDE DEF given
    <3> QED BY <3>1, <3>2
  <2>4. given # NoId => new = given
    OBVIOUS
  <2> HIDE DEF new
  <2> QED BY <2>1, <2>2, <2>3, <2>4 DEF Item, Pred
<1>2. Loaded(l) = [i \in 1 .. n |-> Loaded(l)[i]]
  BY DEF Loaded
<1> QED BY <1>1, <1>2

LEMMA BothLoaded ==
  ASSUME Files
  PROVE  \E n \in Nat :
           /\ DOMAIN file = 1 .. n /\ preds \in [1 .. n -> Pred] /\ preds2 \in [1 .. n -> Pred]
           /\ perm \in Bijection(1 .. n, 1 .. n)
           /\ (\A i \in DOMAIN file : file[i].id # NoId) =>
                \A j \in 1 .. n :
                  /\ Alike(preds2[j], preds[perm[j]])
                  /\ preds2[j].ungrounded = preds[perm[j]].ungrounded
<1>1. PICK n \in Nat : file \in [1 .. n -> Item]
  BY DEF Files
<1>2. DOMAIN file = 1 .. n /\ perm \in Bijection(1 .. n, 1 .. n)
  BY <1>1 DEF Files
<1>3. perm \in [1 .. n -> 1 .. n]
  BY <1>2 DEF Bijection, Injection
<1>4. Reordered \in [1 .. n -> Item] /\ \A j \in 1 .. n : Reordered[j] = file[perm[j]]
  BY <1>1, <1>2, <1>3 DEF Reordered
<1> DEFINE second == Reordered
<1> HIDE DEF second
<1>5. second \in [1 .. n -> Item] /\ \A j \in 1 .. n : second[j] = file[perm[j]]
  BY <1>4 DEF second
<1>6. preds = Loaded(file) /\ preds2 = Loaded(second)
  BY DEF Files, second
<1>7. /\ Loaded(file) \in [1 .. n -> Pred]
      /\ \A i \in 1 .. n :
              /\ Loaded(file)[i].type = file[i].type /\ Loaded(file)[i].segs = file[i].segs
              /\ Loaded(file)[i].ungrounded = file[i].ungrounded
              /\ file[i].id # NoId => Loaded(file)[i].id = file[i].id
  BY <1>1, ItemLoaded
<1>8. /\ Loaded(second) \in [1 .. n -> Pred]
      /\ \A i \in 1 .. n :
              /\ Loaded(second)[i].type = second[i].type /\ Loaded(second)[i].segs = second[i].segs
              /\ Loaded(second)[i].ungrounded = second[i].ungrounded
              /\ second[i].id # NoId => Loaded(second)[i].id = second[i].id
  BY <1>5, ItemLoaded
<1>9. ASSUME \A i \in DOMAIN file : file[i].id # NoId, NEW j \in 1 .. n
      PROVE  /\ Alike(preds2[j], preds[perm[j]])
             /\ preds2[j].ungrounded = preds[perm[j]].ungrounded
  <2>1. perm[j] \in 1 .. n /\ second[j] = file[perm[j]] /\ file[perm[j]].id # NoId
    BY <1>2, <1>3, <1>5, <1>9
  <2> QED BY <1>6, <1>7, <1>8, <2>1 DEF Alike
<1> QED BY <1>2, <1>6, <1>7, <1>8, <1>9

\* When every item has its own id written down, each prediction of the first
\* file has a twin in the second.
LEMMA TwinsExist ==
  ASSUME Files, \A i \in DOMAIN file : file[i].id # NoId
  PROVE  \E sg : Twins(sg)
<1>1. PICK n \in Nat :
           /\ DOMAIN file = 1 .. n /\ preds \in [1 .. n -> Pred] /\ preds2 \in [1 .. n -> Pred]
           /\ perm \in Bijection(1 .. n, 1 .. n)
           /\ \A j \in 1 .. n :
                  /\ Alike(preds2[j], preds[perm[j]])
                  /\ preds2[j].ungrounded = preds[perm[j]].ungrounded
  BY BothLoaded
<1> DEFINE Key(p) == <<p.id, p.type, p.segs, IF p.segs = {} THEN p.ungrounded ELSE FALSE>>
           k1 == [i \in 1 .. n |-> Key(preds[i])]
           k2 == [i \in 1 .. n |-> Key(preds2[i])]
<1>2. \A j \in 1 .. n : perm[j] \in 1 .. n
  BY <1>1 DEF Bijection, Injection
<1>3. Shuffled(n, k1, k2, perm)
  BY <1>1, <1>2 DEF Alike, Shuffled
<1>4. \A p, q : Key(p) = Key(q) => Alike(p, q) /\ (p.segs = {} => p.ungrounded = q.ungrounded)
  BY DEF Alike
<1>5. \A p, q : Alike(p, q) /\ p.segs # {} => Key(p) = Key(q)
  BY DEF Alike
<1>6. \A i \in 1 .. n : k1[i] = Key(preds[i]) /\ k2[i] = Key(preds2[i])
  OBVIOUS
<1> HIDE DEF Key, k1, k2
<1>7. PICK sg \in Bijection(1 .. n, 1 .. n) :
           /\ \A i \in 1 .. n : k2[sg[i]] = k1[i]
           /\ \A i, j \in 1 .. n : k1[i] = k1[j] /\ i < j => sg[i] < sg[j]
  BY <1>1, <1>3, OrderKeepingTwins
<1>8. DOMAIN preds = 1 .. n /\ DOMAIN preds2 = 1 .. n
  BY <1>1
<1>9. sg \in [1 .. n -> 1 .. n]
  BY DEF Bijection, Injection
<1>10. ASSUME NEW i \in 1 .. n
       PROVE  /\ Alike(preds[i], preds2[sg[i]])
              /\ preds[i].segs = {} => preds[i].ungrounded = preds2[sg[i]].ungrounded
  <2>1. sg[i] \in 1 .. n
    BY <1>9
  <2>2. Key(preds[i]) = Key(preds2[sg[i]])
    BY <1>6, <1>7, <2>1
  <2> QED BY <1>4, <2>2
<1>11. ASSUME NEW i \in 1 .. n, NEW j \in 1 .. n, Alike(preds[i], preds[j]),
              preds[i].segs # {}, i < j
       PROVE  sg[i] < sg[j]
  <2>1. k1[i] = k1[j]
    BY <1>5, <1>6, <1>11
  <2> QED BY <1>7, <1>11, <2>1
<1> QED BY <1>7, <1>8, <1>10, <1>11 DEF Twins

LEMMA FilesLoaded == FSpec => []Files
<1>1. FInit => Files
  BY DEF FInit, Start, Files
<1>2. Files /\ [FNext]_fvars => Files'
  <2> SUFFICES ASSUME Files, [FNext]_fvars PROVE Files'
    OBVIOUS
  <2>1. UNCHANGED <<golds, preds>> /\ UNCHANGED <<file, perm, preds2>>
    <3>1. CASE ScoreFirst
      BY <3>1 DEF ScoreFirst, Next, TakeStrict, TakeExtra, EndStrict, EndExtra, vars2
    <3>2. CASE ScoreSecond
      BY <3>2 DEF ScoreSecond, Again!Next, Again!TakeStrict, Again!TakeExtra,
                  Again!EndStrict, Again!EndExtra
    <3>3. CASE UNCHANGED fvars
      BY <3>3 DEF fvars, vars, vars2
    <3> QED BY <3>1, <3>2, <3>3 DEF FNext
  <2>2. Reordered' = Reordered
    BY <2>1 DEF Reordered
  <2>3. Loaded(file)' = Loaded(file) /\ Loaded(Reordered)' = Loaded(Reordered)
    BY <2>1, <2>2 DEF Loaded
  <2> QED BY <2>1, <2>3 DEF Files
<1> QED BY <1>1, <1>2, PTL DEF FSpec

\* The first scoring is the matching of module FlagMatching.
LEMMA FirstIsMatching == FSpec => Spec
<1>1. FInit => Init
  <2> SUFFICES ASSUME FInit PROVE Init
    OBVIOUS
  <2>1. PICK n \in Nat : file \in [1 .. n -> Item]
    BY DEF FInit
  <2>2. preds \in [1 .. n -> Pred]
    BY <2>1, ItemLoaded DEF FInit, Start
  <2> QED BY <2>2 DEF FInit, Start, Init
<1>2. [FNext]_fvars => [Next]_vars
  BY DEF FNext, ScoreFirst, ScoreSecond, fvars, vars, Again!Next, Again!TakeStrict,
         Again!TakeExtra, Again!EndStrict, Again!EndExtra
<1> QED BY <1>1, <1>2, PTL DEF FSpec, Spec

-----------------------------------------------------------------------------
(* The second matching takes the twins of the pairs that the first took.   *)

Mirror(sg) ==
  /\ phase # "done" => strict2 = {} /\ extra2 = {} /\ phase2 = "strict"
  /\ phase2 \in {"strict", "extra", "done"}
  /\ \A e \in strict2 : \E c \in strict : e = Twin(sg, c)
  /\ \A e \in extra2 : \E c \in extra : e = Twin(sg, c)
  /\ phase2 = "strict" => extra2 = {}
  /\ phase2 # "strict" => \A c \in strict : Twin(sg, c) \in strict2
  /\ phase2 = "done" => \A c \in extra : Twin(sg, c) \in extra2

Mirrored == \A sg : Twins(sg) => Mirror(sg)

\* What is known while the second scoring runs.
Ready == IInv /\ Beaten /\ DOMAIN golds \subseteq Nat /\ DOMAIN preds \subseteq Nat
         /\ DOMAIN preds2 \subseteq Nat

\* A pair that lost to one of the first matching is not the first that the
\* second may take, as long as the second has only taken twins.
LEMMA LoserNotFirst ==
  ASSUME NEW sg, Twins(sg), Ready, NEW same \in BOOLEAN,
         NEW M \in SUBSET (strict \cup extra), NEW M2,
         \A e \in M2 : \E x \in M : e = Twin(sg, x),
         NEW c \in Pairs, Twin(sg, c) \in Again!Candidates(same),
         Again!TakesFirst(Again!Unused(Again!Candidates(same), M2), Twin(sg, c)),
         NEW d \in M, d \in Candidates(same), Shares(c, d), Before(d, c)
  PROVE  FALSE
<1>1. c \in Pairs /\ d \in Pairs /\ c \in Candidates(same) /\ preds[c[2]].segs # {}
  BY TwinsOverlap DEF Candidates
<1>2. d # c
  BY <1>1, OrderIsStrict DEF Ready, IInv
<1>3. Twin(sg, d) \in Again!Candidates(same) /\ Twin(sg, d) # Twin(sg, c)
  BY <1>1, <1>2, TwinsOneToOne, TwinsOverlap
<1>4. \A e \in M2 : ~Again!Shares(Twin(sg, c), e)
  BY DEF Again!TakesFirst, Again!Unused
<1>5. Again!Shares(Twin(sg, c), Twin(sg, d))
  BY <1>1, TwinsOneToOne
<1>6. ASSUME NEW e \in M2, Again!Shares(Twin(sg, d), e) PROVE FALSE
  <2>1. PICK x \in M : e = Twin(sg, x)
    OBVIOUS
  <2>2. x \in Pairs /\ x \in strict \cup extra /\ d \in strict \cup extra
    BY DEF Ready, IInv, TypeOK
  <2>3. Shares(d, x)
    BY <1>1, <1>6, <2>1, <2>2, TwinsOneToOne
  <2>4. d = x
    BY <2>2, <2>3 DEF Ready, IInv, OneToOne
  <2> QED BY <1>4, <1>5, <2>1, <2>4
<1>7. Twin(sg, d) \in Again!Unused(Again!Candidates(same), M2)
  BY <1>3, <1>6 DEF Again!Unused
<1>8. Again!Before(Twin(sg, c), Twin(sg, d))
  BY <1>3, <1>7 DEF Again!TakesFirst
<1>9. Before(c, d)
  BY <1>1, <1>8, TwinsInOrder DEF Ready, IInv
<1> QED BY <1>1, <1>9, OrderIsStrict DEF Ready, IInv

\* When the second has nothing left to take, it has taken every twin.
LEMMA NothingLeftOut ==
  ASSUME NEW sg, Twins(sg), Ready, NEW same \in BOOLEAN,
         NEW M \in SUBSET (strict \cup extra), NEW M2,
         \A e \in M2 : \E x \in M : e = Twin(sg, x),
         Again!Unused(Again!Candidates(same), M2) = {},
         NEW c \in M, c \in Candidates(same)
  PROVE  Twin(sg, c) \in M2
<1>1. c \in Pairs
  BY DEF Candidates
<1>2. Twin(sg, c) \in Again!Candidates(same)
  BY <1>1, TwinsOverlap
<1>3. PICK e \in M2 : Again!Shares(Twin(sg, c), e)
  BY <1>2 DEF Again!Unused
<1>4. PICK x \in M : e = Twin(sg, x)
  OBVIOUS
<1>5. x \in Pairs /\ x \in strict \cup extra /\ c \in strict \cup extra
  BY DEF Ready, IInv, TypeOK
<1>6. Shares(c, x)
  BY <1>1, <1>3, <1>4, <1>5, TwinsOneToOne
<1> QED BY <1>4, <1>5, <1>6 DEF Ready, IInv, OneToOne

LEMMA StrictTakesTwin ==
  ASSUME NEW sg, Twins(sg), Mirror(sg), Ready, phase = "done",
         NEW e \in Again!Pairs, Again!TakeStrict(e)
  PROVE  \E c \in strict : e = Twin(sg, c)
<1>1. PICK c \in Pairs : Twin(sg, c) = e
  BY TwinsOneToOne
<1>2. /\ Again!TakesFirst(Again!Unused(Again!Candidates(TRUE), strict2), Twin(sg, c))
      /\ Twin(sg, c) \in Again!Candidates(TRUE)
  BY <1>1 DEF Again!TakeStrict, Again!TakesFirst, Again!Unused
<1>3. c \in Candidates(TRUE)
  BY <1>2, TwinsOverlap
<1>4. /\ Unused(Candidates(TRUE), strict) = {} /\ strict \subseteq Candidates(TRUE)
      /\ \/ c \in strict
         \/ \A d \in strict : ~Shares(c, d)
         \/ \E d \in strict : Shares(c, d) /\ Before(d, c)
  BY <1>3 DEF Ready, IInv, Phases, Beaten
<1>5. \E d \in strict : Shares(c, d)
  BY <1>3, <1>4 DEF Unused
<1>6. c \notin strict => \E d \in strict : Shares(c, d) /\ Before(d, c)
  BY <1>4, <1>5
<1>7. \A x \in strict2 : \E y \in strict : x = Twin(sg, y)
  BY DEF Mirror
<1>8. ASSUME NEW d \in strict, Shares(c, d), Before(d, c) PROVE FALSE
  <2>1. d \in Candidates(TRUE) /\ strict \in SUBSET (strict \cup extra)
    BY <1>4
  <2> QED BY <1>2, <1>7, <1>8, <2>1, LoserNotFirst
<1> QED BY <1>1, <1>6, <1>8

LEMMA ExtraTakesTwin ==
  ASSUME NEW sg, Twins(sg), Mirror(sg), Ready, phase = "done",
         NEW e \in Again!Pairs, Again!TakeExtra(e)
  PROVE  \E c \in extra : e = Twin(sg, c)
<1>1. PICK c \in Pairs : Twin(sg, c) = e
  BY TwinsOneToOne
<1> DEFINE M == strict \cup extra  M2 == strict2 \cup extra2
<1>2. /\ Again!TakesFirst(Again!Unused(Again!Candidates(FALSE), M2), Twin(sg, c))
      /\ Twin(sg, c) \in Again!Candidates(FALSE)
      /\ \A x \in M2 : ~Again!Shares(Twin(sg, c), x)
      /\ phase2 = "extra"
  BY <1>1 DEF Again!TakeExtra, Again!TakesFirst, Again!Unused
<1>3. c \in Candidates(FALSE)
  BY <1>2, TwinsOverlap
<1>4. /\ Unused(Candidates(FALSE), M) = {}
      /\ \/ c \in extra
         \/ \A d \in M : ~Shares(c, d)
         \/ \E d \in strict : Shares(c, d)
         \/ \E d \in extra : Shares(c, d) /\ Before(d, c)
  BY <1>3 DEF Ready, Beaten
<1>5. \E d \in M : Shares(c, d)
  BY <1>3, <1>4 DEF Unused
<1>6. ASSUME NEW d \in strict, Shares(c, d) PROVE FALSE
  <2>1. d \in Pairs /\ Twin(sg, d) \in M2
    BY <1>2 DEF Mirror, Ready, IInv, TypeOK
  <2> QED BY <1>2, <1>6, <2>1, TwinsOneToOne
<1>7. \A x \in M2 : \E y \in M : x = Twin(sg, y)
  BY DEF Mirror
<1>8. ASSUME NEW d \in extra, Shares(c, d), Before(d, c) PROVE FALSE
  <2>1. d \in Candidates(FALSE) /\ M \in SUBSET (strict \cup extra) /\ d \in M
    BY DEF Ready, IInv, ExtraLeftOver
  <2> HIDE DEF M, M2
  <2> QED BY <1>2, <1>7, <1>8, <2>1, LoserNotFirst
<1> QED BY <1>1, <1>4, <1>5, <1>6, <1>8

\* Why the second matching mirrors the first after one more step.
LEMMA SecondStepMirrors ==
  ASSUME NEW sg, Twins(sg), Mirror(sg), Ready, ScoreSecond
  PROVE  Mirror(sg)'
<1>1. phase = "done" /\ phase' = "done" /\ UNCHANGED <<golds, preds, strict, extra>>
  BY DEF ScoreSecond, Again!Next, Again!TakeStrict, Again!TakeExtra,
         Again!EndStrict, Again!EndExtra
<1>2. /\ phase2 \in {"strict", "extra", "done"}
      /\ \A e \in strict2 : \E c \in strict : e = Twin(sg, c)
      /\ \A e \in extra2 : \E c \in extra : e = Twin(sg, c)
      /\ phase2 = "strict" => extra2 = {}
      /\ phase2 # "strict" => \A c \in strict : Twin(sg, c) \in strict2
      /\ phase2 = "done" => \A c \in extra : Twin(sg, c) \in extra2
  BY DEF Mirror
<1> SUFFICES
      /\ phase2' \in {"strict", "extra", "done"}
      /\ \A e \in strict2' : \E c \in strict : e = Twin(sg, c)
      /\ \A e \in extra2' : \E c \in extra : e = Twin(sg, c)
      /\ phase2' = "strict" => extra2' = {}
      /\ phase2' # "strict" => \A c \in strict : Twin(sg, c) \in strict2'
      /\ phase2' = "done" => \A c \in extra : Twin(sg, c) \in extra2'
  BY <1>1 DEF Mirror, Twin
<1>3. ASSUME NEW e \in Again!Pairs, Again!TakeStrict(e) PROVE \E c \in strict : e = Twin(sg, c)
  BY <1>1, <1>3, StrictTakesTwin
<1>4. ASSUME NEW e \in Again!Pairs, Again!TakeExtra(e) PROVE \E c \in extra : e = Twin(sg, c)
  BY <1>1, <1>4, ExtraTakesTwin
<1>5. CASE \E e \in Again!Pairs : Again!TakeStrict(e)
  <2>1. PICK e \in Again!Pairs : Again!TakeStrict(e)
    BY <1>5
  <2>2. /\ strict2' = strict2 \cup {e} /\ extra2' = extra2 /\ phase2 = "strict"
        /\ phase2' = "strict"
    BY <2>1 DEF Again!TakeStrict
  <2> QED BY <1>2, <1>3, <2>1, <2>2
<1>6. CASE \E e \in Again!Pairs : Again!TakeExtra(e)
  <2>1. PICK e \in Again!Pairs : Again!TakeExtra(e)
    BY <1>6
  <2>2. /\ extra2' = extra2 \cup {e} /\ strict2' = strict2 /\ phase2 = "extra"
        /\ phase2' = "extra"
    BY <2>1 DEF Again!TakeExtra
  <2> QED BY <1>2, <1>4, <2>1, <2>2
<1>7. CASE Again!EndStrict
  <2>1. /\ UNCHANGED <<strict2, extra2>> /\ phase2 = "strict" /\ phase2' = "extra"
        /\ Again!Unused(Again!Candidates(TRUE), strict2) = {}
    BY <1>7 DEF Again!EndStrict
  <2>2. ASSUME NEW c \in strict PROVE Twin(sg, c) \in strict2
    <3>1. c \in Candidates(TRUE) /\ strict \in SUBSET (strict \cup extra)
      BY DEF Ready, Beaten
    <3> QED BY <1>2, <2>1, <3>1, NothingLeftOut
  <2> QED BY <1>2, <2>1, <2>2
<1>8. CASE Again!EndExtra
  <2> DEFINE M == strict \cup extra  M2 == strict2 \cup extra2
  <2>1. /\ UNCHANGED <<strict2, extra2>> /\ phase2 = "extra" /\ phase2' = "done"
        /\ Again!Unused(Again!Candidates(FALSE), M2) = {}
    BY <1>8 DEF Again!EndExtra
  <2>2. ASSUME NEW c \in extra PROVE Twin(sg, c) \in extra2
    <3>1. c \in Candidates(FALSE) /\ M \in SUBSET (strict \cup extra) /\ c \in M
      BY DEF Ready, IInv, ExtraLeftOver
    <3>2. \A e \in M2 : \E x \in M : e = Twin(sg, x)
      BY <1>2
    <3>3. Twin(sg, c) \in M2
      <4> HIDE DEF M, M2
      <4> QED BY <2>1, <3>1, <3>2, NothingLeftOut
    <3>4. Twin(sg, c) \notin strict2
      <4> SUFFICES ASSUME Twin(sg, c) \in strict2 PROVE FALSE
        OBVIOUS
      <4>1. PICK d \in strict : Twin(sg, c) = Twin(sg, d)
        BY <1>2
      <4>2. c \in Pairs /\ d \in Pairs
        BY DEF Ready, IInv, TypeOK
      <4>3. c = d
        BY <4>1, <4>2, TwinsOneToOne
      <4> QED BY <4>3 DEF Ready, IInv, ExtraLeftOver, Shares
    <3> QED BY <3>3, <3>4
  <2> QED BY <1>2, <2>1, <2>2
<1> QED BY <1>5, <1>6, <1>7, <1>8 DEF ScoreSecond, Again!Next

LEMMA MirroredHolds == FSpec => []Mirrored
<1>1. FInit => Mirrored
  BY DEF FInit, Start, Mirrored, Mirror
<1>2. ASSUME Files, IInv, Beaten PROVE Ready
  <2>1. PICK n \in Nat : preds \in [1 .. n -> Pred] /\ preds2 \in [1 .. n -> Pred]
    BY <1>2, BothLoaded
  <2>2. DOMAIN preds \subseteq Nat /\ DOMAIN preds2 \subseteq Nat
    BY <2>1
  <2>3. DOMAIN golds \subseteq Nat
    BY <1>2 DEF Files
  <2> QED BY <1>2, <2>2, <2>3 DEF Ready
<1>3. Mirrored /\ Files /\ IInv /\ Beaten /\ [FNext]_fvars => Mirrored'
  <2> SUFFICES ASSUME Mirrored, Files, IInv, Beaten, [FNext]_fvars, NEW sg, Twins(sg)'
               PROVE  Mirror(sg)'
    BY DEF Mirrored
  <2>1. UNCHANGED <<golds, preds, preds2>>
    BY DEF FNext, ScoreFirst, ScoreSecond, fvars, vars, vars2, Next, TakeStrict, TakeExtra,
           EndStrict, EndExtra, Again!Next, Again!TakeStrict, Again!TakeExtra,
           Again!EndStrict, Again!EndExtra
  <2>2. Twins(sg) /\ Mirror(sg)
    <3>1. Twins(sg)
      BY <2>1 DEF Twins
    <3> QED BY <3>1 DEF Mirrored
  <2>3. CASE ScoreFirst
    <3>1. phase # "done" /\ UNCHANGED vars2
      BY <2>3 DEF ScoreFirst, Next, TakeStrict, TakeExtra, EndStrict, EndExtra
    <3> QED BY <2>2, <3>1 DEF Mirror, vars2
  <2>4. CASE ScoreSecond
    BY <1>2, <2>2, <2>4, SecondStepMirrors
  <2>5. CASE UNCHANGED fvars
    BY <2>2, <2>5 DEF fvars, vars, vars2, Mirror, Twin
  <2> QED BY <2>3, <2>4, <2>5 DEF FNext
<1>4. FSpec => []Files /\ []IInv /\ []Beaten
  BY FilesLoaded, FirstIsMatching, IInvHolds, BeatenHolds, PTL
<1> QED BY <1>1, <1>3, <1>4, PTL DEF FSpec

-----------------------------------------------------------------------------
(* The score of the twins.                                                 *)

Left == DOMAIN preds \ MatchedPreds

\* As many twins as there are predictions, or pairs, that they stand for.
LEMMA AsManyTwins ==
  ASSUME Files, IInv, NEW sg, Twins(sg)
  PROVE  /\ \A A \in SUBSET DOMAIN preds : Cardinality({ sg[i] : i \in A }) = Cardinality(A)
         /\ \A M \in SUBSET Pairs : Cardinality({ Twin(sg, c) : c \in M }) = Cardinality(M)
<1>1. IsFiniteSet(DOMAIN preds) /\ IsFiniteSet(DOMAIN golds)
  <2>1. PICK n \in Nat : preds \in [1 .. n -> Pred]
    BY BothLoaded
  <2>2. PICK m \in Nat : golds \in [1 .. m -> Gold]
    BY DEF Files
  <2>3. DOMAIN preds = 1 .. n /\ DOMAIN golds = 1 .. m
    BY <2>1, <2>2
  <2> QED BY <2>3, FS_Interval
<1>2. IsFiniteSet(Pairs)
  BY <1>1, FS_Product DEF Pairs
<1>3. ASSUME NEW A \in SUBSET DOMAIN preds
      PROVE  Cardinality({ sg[i] : i \in A }) = Cardinality(A)
  <2> DEFINE f == [i \in A |-> sg[i]]
             T == { sg[i] : i \in A }
  <2>1. IsFiniteSet(A)
    BY <1>1, FS_Subset
  <2>2. f \in Bijection(A, T)
    <3>1. f \in [A -> T]
      OBVIOUS
    <3>2. \A x, y \in A : f[x] = f[y] => x = y
      BY TwinsOneToOne
    <3>3. \A y \in T : \E x \in A : f[x] = y
      OBVIOUS
    <3> QED BY <3>1, <3>2, <3>3 DEF Bijection, Injection, Surjection, IsInjective
  <2> HIDE DEF f, T
  <2>3. Cardinality(A) = Cardinality(T)
    BY <2>1, <2>2, FS_Bijection DEF ExistsBijection
  <2> QED BY <2>3 DEF T
<1>4. ASSUME NEW M \in SUBSET Pairs
      PROVE  Cardinality({ Twin(sg, c) : c \in M }) = Cardinality(M)
  <2> DEFINE f == [c \in M |-> Twin(sg, c)]
             T == { Twin(sg, c) : c \in M }
  <2>1. IsFiniteSet(M)
    BY <1>2, FS_Subset
  <2>2. f \in Bijection(M, T)
    <3>1. f \in [M -> T]
      OBVIOUS
    <3>2. \A x, y \in M : f[x] = f[y] => x = y
      BY TwinsOneToOne
    <3>3. \A y \in T : \E x \in M : f[x] = y
      OBVIOUS
    <3> QED BY <3>1, <3>2, <3>3 DEF Bijection, Injection, Surjection, IsInjective
  <2> HIDE DEF f, T
  <2>3. Cardinality(M) = Cardinality(T)
    BY <2>1, <2>2, FS_Bijection DEF ExistsBijection
  <2> QED BY <2>3 DEF T
<1> QED BY <1>3, <1>4

LEMMA TwinsScoreAlike ==
  ASSUME Files, Ready, NEW sg, Twins(sg), Mirror(sg), Scored
  PROVE  Signature = SignatureAgain
<1>1. /\ strict2 = { Twin(sg, c) : c \in strict }
      /\ extra2 = { Twin(sg, c) : c \in extra }
  BY DEF Mirror, Scored
<1>2. strict \subseteq Pairs /\ extra \subseteq Pairs
      /\ \A c \in Pairs : c[1] \in DOMAIN golds /\ c[2] \in DOMAIN preds
  BY DEF Ready, IInv, TypeOK, Pairs
<1>3. \A c : Twin(sg, c)[1] = c[1] /\ Twin(sg, c)[2] = sg[c[2]]
  BY DEF Twin
<1>4. \A i \in DOMAIN preds :
        /\ preds2[sg[i]].id = preds[i].id /\ preds2[sg[i]].type = preds[i].type
        /\ preds2[sg[i]].segs = preds[i].segs
        /\ preds[i].segs = {} => preds2[sg[i]].ungrounded = preds[i].ungrounded
  BY DEF Twins, Alike
<1>5. /\ sg \in [DOMAIN preds -> DOMAIN preds2]
      /\ \A i, j \in DOMAIN preds : sg[i] = sg[j] => i = j
      /\ \A j \in DOMAIN preds2 : \E i \in DOMAIN preds : sg[i] = j
  BY TwinsOneToOne
<1>6. /\ \A A \in SUBSET DOMAIN preds : Cardinality({ sg[i] : i \in A }) = Cardinality(A)
      /\ \A M \in SUBSET Pairs : Cardinality({ Twin(sg, c) : c \in M }) = Cardinality(M)
  BY AsManyTwins DEF Ready
<1> DEFINE S2 == Again!MatchedPreds
           Left2 == DOMAIN preds2 \ S2
<1>7. Again!MatchedGolds = MatchedGolds /\ Again!Misses = Misses
  BY <1>1, <1>3 DEF Again!MatchedGolds, MatchedGolds, Again!Misses, Misses
<1>8. S2 = { sg[i] : i \in MatchedPreds } /\ MatchedPreds \subseteq DOMAIN preds
  BY <1>1, <1>2, <1>3 DEF Again!MatchedPreds, MatchedPreds
<1>9. Left2 = { sg[i] : i \in Left } /\ Left \subseteq DOMAIN preds
  <2> HIDE DEF S2
  <2> QED BY <1>5, <1>8 DEF Left
<1>10. Again!Rows = Rows
  <2>1. { preds2[j].type : j \in Left2 } = { preds[i].type : i \in Left }
    BY <1>4, <1>9
  <2> QED BY <2>1 DEF Again!Rows, Rows, Left
<1>11. ASSUME NEW t \in Rows PROVE Again!PerType[t] = PerType[t]
  <2>1. { j \in Left2 : preds2[j].type = t } = { sg[i] : i \in { k \in Left : preds[k].type = t } }
    BY <1>4, <1>9
  <2>2. Cardinality({ j \in Left2 : preds2[j].type = t })
          = Cardinality({ k \in Left : preds[k].type = t })
    BY <1>6, <1>9, <2>1
  <2> QED BY <1>7, <1>10, <2>2, CountsAgain DEF Again!PerType, PerType, Left
<1>12. Again!Overall = Overall
  <2>1. ASSUME NEW column PROVE Again!SumRows(column) = SumRows(column)
    <3>1. [t \in Again!Rows |-> Again!PerType[t][column]] = [t \in Rows |-> PerType[t][column]]
      BY <1>10, <1>11
    <3> QED BY <3>1, CountsAgain DEF Again!SumRows, SumRows
  <2> QED BY <2>1 DEF Again!Overall, Overall
<1>13. Again!Localization = Localization
  <2>1. { c[2] : c \in strict2 \cup extra2 } = { sg[i] : i \in { c[2] : c \in strict \cup extra } }
    BY <1>1, <1>3
  <2>2. { c[1] : c \in strict2 \cup extra2 } = { c[1] : c \in strict \cup extra }
    BY <1>1, <1>3
  <2>3. Cardinality({ c[2] : c \in strict2 \cup extra2 })
          = Cardinality({ c[2] : c \in strict \cup extra })
    <3>1. { c[2] : c \in strict \cup extra } \in SUBSET DOMAIN preds
      BY <1>2
    <3> QED BY <1>6, <2>1, <3>1
  <2>4. Cardinality(strict2) = Cardinality(strict) /\ Cardinality(extra2) = Cardinality(extra)
    BY <1>1, <1>2, <1>6
  <2>5. Cardinality(DOMAIN preds2) = Cardinality(DOMAIN preds)
    <3>1. DOMAIN preds2 = { sg[i] : i \in DOMAIN preds }
      BY <1>5
    <3> QED BY <1>6, <3>1
  <2> QED BY <2>2, <2>3, <2>4, <2>5, CountsAgain DEF Again!Localization, Localization
<1>14. { <<golds[c[1]].id, preds2[c[2]].id>> : c \in strict2 }
         = { <<golds[c[1]].id, preds[c[2]].id>> : c \in strict }
  BY <1>1, <1>2, <1>3, <1>4
<1>15. { <<preds2[f[1]].id, f[2]>> : f \in Again!FalsePositives }
         = { <<preds[f[1]].id, f[2]>> : f \in FalsePositives }
  <2>1. \A i \in DOMAIN preds : Again!Reason(sg[i]) = Reason(i)
    BY <1>4 DEF Again!Reason, Reason
  <2>2. { <<preds[f[1]].id, f[2]>> : f \in FalsePositives }
          = { <<preds[i].id, Reason(i)>> : i \in Left }
    <3>1. FalsePositives = { <<i, Reason(i)>> : i \in Left }
      BY DEF FalsePositives, Left
    <3> DEFINE P(i) == <<i, Reason(i)>>
               Says(f) == <<preds[f[1]].id, f[2]>>
    <3>2. \A i : Says(P(i)) = <<preds[i].id, Reason(i)>>
      OBVIOUS
    <3>3. { Says(f) : f \in { P(i) : i \in Left } } = { Says(P(i)) : i \in Left }
      <4> HIDE DEF P, Says
      <4> QED OBVIOUS
    <3> HIDE DEF Says, P
    <3>4. { Says(P(i)) : i \in Left } = { <<preds[i].id, Reason(i)>> : i \in Left }
      BY <3>2
    <3> QED BY <3>1, <3>3, <3>4 DEF Says, P
  <2>3. { <<preds2[f[1]].id, f[2]>> : f \in Again!FalsePositives }
          = { <<preds2[j].id, Again!Reason(j)>> : j \in Left2 }
    <3>1. Again!FalsePositives = { <<j, Again!Reason(j)>> : j \in Left2 }
      BY DEF Again!FalsePositives
    <3> DEFINE P(i) == <<i, Again!Reason(i)>>
               Says(f) == <<preds2[f[1]].id, f[2]>>
    <3>2. \A i : Says(P(i)) = <<preds2[i].id, Again!Reason(i)>>
      OBVIOUS
    <3>3. { Says(f) : f \in { P(i) : i \in Left2 } } = { Says(P(i)) : i \in Left2 }
      <4> HIDE DEF P, Says
      <4> QED OBVIOUS
    <3> HIDE DEF Says, P
    <3>4. { Says(P(i)) : i \in Left2 } = { <<preds2[i].id, Again!Reason(i)>> : i \in Left2 }
      BY <3>2
    <3> QED BY <3>1, <3>3, <3>4 DEF Says, P
  <2>4. { <<preds2[j].id, Again!Reason(j)>> : j \in Left2 }
          = { <<preds[i].id, Reason(i)>> : i \in Left }
    BY <1>4, <1>9, <2>1
  <2> QED BY <2>2, <2>3, <2>4
<1> QED BY <1>7, <1>12, <1>13, <1>14, <1>15 DEF Signature, SignatureAgain

\* When every prediction carries an id, and ids may repeat, the order in which
\* the prediction file lists its flags changes nothing of the score: not the
\* counts, the localization, the matches, the misses nor the false positives
\* that score_detection reports.
THEOREM OrderSaysNothing == FSpec => []OrderBlindWithIds
<1>1. ASSUME Mirrored, Files, IInv, Beaten PROVE OrderBlindWithIds
  <2> SUFFICES ASSUME Scored, \A i \in DOMAIN file : file[i].id # NoId
               PROVE  Signature = SignatureAgain
    BY DEF OrderBlindWithIds
  <2>1. PICK sg : Twins(sg)
    BY <1>1, TwinsExist
  <2>2. PICK n \in Nat : preds \in [1 .. n -> Pred] /\ preds2 \in [1 .. n -> Pred]
    BY <1>1, BothLoaded
  <2>3. Ready
    <3>1. DOMAIN preds \subseteq Nat /\ DOMAIN preds2 \subseteq Nat
      BY <2>2
    <3>2. DOMAIN golds \subseteq Nat
      BY <1>1 DEF Files
    <3> QED BY <1>1, <3>1, <3>2 DEF Ready
  <2> QED BY <1>1, <2>1, <2>3, TwinsScoreAlike DEF Mirrored
<1> QED BY <1>1, FilesLoaded, FirstIsMatching, IInvHolds, BeatenHolds, MirroredHolds, PTL
=============================================================================
