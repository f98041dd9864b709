---------------------------- MODULE SequenceFacts ----------------------------
(***************************************************************************)
(* Facts about recursive functions that the proofs of several components   *)
(* share.  They are proved by a least counterexample.                      *)
(***************************************************************************)
EXTENDS Integers, Sequences, SequenceTheorems, WellFoundedInduction, TLAPS

\* A nonempty set of natural numbers has a least element.
LEMMA LeastNatural ==
  ASSUME NEW T \in SUBSET Nat, T # {}
  PROVE  \E x \in T : \A y \in T : x <= y
<1> DEFINE R == OpToRel(<, Nat)
<1>1. T \subseteq Nat /\ T # {} /\ IsWellFoundedOn(R, Nat)
  BY NatLessThanWellFounded
<1> HIDE DEF R
<1>2. PICK x \in T : \A y \in T : ~(<<y, x>> \in R)
  BY <1>1, WFMin
<1>3. \A y \in T : ~(y < x)
  BY <1>2 DEF OpToRel, R
<1> QED BY <1>3

\* A set of numbers from 1 on with every next one holds all of them.
LEMMA AllReached ==
  ASSUME NEW N \in Nat, NEW T, 1 \in T,
         \A n \in 2 .. N : n - 1 \in T => n \in T
  PROVE  \A n \in 1 .. N : n \in T
<1> DEFINE Bad == { n \in 1 .. N : n \notin T }
<1> SUFFICES ASSUME Bad # {} PROVE FALSE
  OBVIOUS
<1>1. Bad \in SUBSET Nat
  OBVIOUS
<1>2. PICK n \in Bad : \A m \in Bad : n <= m
  <2> HIDE DEF Bad
  <2> QED BY <1>1, LeastNatural
<1> QED BY <1>2

\* Two sequences one behind the other have the elements of both.
HasBoth(u, s, t) ==
  /\ \A i \in 1 .. Len(s) : \E j \in 1 .. Len(u) : u[j] = s[i]
  /\ \A i \in 1 .. Len(t) : \E j \in 1 .. Len(u) : u[j] = t[i]
  /\ \A j \in 1 .. Len(u) : \/ \E i \in 1 .. Len(s) : u[j] = s[i]
                            \/ \E i \in 1 .. Len(t) : u[j] = t[i]

LEMMA ConcatElements ==
  ASSUME NEW S, NEW s \in Seq(S), NEW t \in Seq(S)
  PROVE  s \o t \in Seq(S) /\ HasBoth(s \o t, s, t)
<1> DEFINE u == s \o t
<1> DEFINE a == Len(s)  b == Len(t)
<1>1. /\ u \in Seq(S) /\ Len(u) = a + b /\ a \in Nat /\ b \in Nat
      /\ \A i \in 1 .. a + b : u[i] = IF i <= a THEN s[i] ELSE t[i - a]
  BY ConcatProperties
<1> HIDE DEF a, b, u
<1>2. ASSUME NEW i \in 1 .. a PROVE \E j \in 1 .. Len(u) : u[j] = s[i]
  <2>1. i \in 1 .. Len(u) /\ u[i] = s[i]
    BY <1>1
  <2> QED BY <2>1
<1>3. ASSUME NEW i \in 1 .. b PROVE \E j \in 1 .. Len(u) : u[j] = t[i]
  <2>1. a + i \in 1 .. a + b /\ ~(a + i <= a) /\ (a + i) - a = i
    BY <1>1
  <2>2. u[a + i] = t[i]
    BY <1>1, <2>1
  <2> QED BY <1>1, <2>1, <2>2
<1>4. ASSUME NEW j \in 1 .. Len(u)
      PROVE  \/ \E i \in 1 .. a : u[j] = s[i]
             \/ \E i \in 1 .. b : u[j] = t[i]
  <2>1. CASE j <= a
    <3>1. j \in 1 .. a /\ u[j] = s[j]
      BY <1>1, <2>1
    <3> QED BY <3>1
  <2>2. CASE ~(j <= a)
    <3>1. j - a \in 1 .. b /\ u[j] = t[j - a]
      BY <1>1, <2>2
    <3> QED BY <3>1
  <2> QED BY <2>1, <2>2
<1> QED BY <1>1, <1>2, <1>3, <1>4 DEF a, b, u, HasBoth

-----------------------------------------------------------------------------
(* Concatenating a sequence of sequences.                                  *)

\* f satisfies on 1 .. n the equation that FlattenSeq recurs by.
Concats(f, ss, n) ==
  \A i \in 1 .. n : f[i] = IF i = 1 THEN ss[i] ELSE f[i - 1] \o ss[i]

LEMMA ConcatsExist ==
  ASSUME NEW N \in Nat, NEW ss
  PROVE  \A n \in 1 .. N : \E f : f = [i \in 1 .. n |-> f[i]] /\ Concats(f, ss, n)
<1> DEFINE T == { n \in 1 .. N : \E f : f = [i \in 1 .. n |-> f[i]] /\ Concats(f, ss, n) }
<1> SUFFICES \A n \in 1 .. N : n \in T
  OBVIOUS
<1>1. N >= 1 => 1 \in T
  <2> DEFINE g == [i \in 1 .. 1 |-> ss[1]]
  <2>1. g = [i \in 1 .. 1 |-> g[i]] /\ Concats(g, ss, 1)
    BY DEF Concats
  <2> HIDE DEF g
  <2> QED BY <2>1
<1>2. ASSUME NEW n \in 2 .. N, n - 1 \in T PROVE n \in T
  <2>1. PICK h : h = [i \in 1 .. n - 1 |-> h[i]] /\ Concats(h, ss, n - 1)
    BY <1>2
  <2> DEFINE last == h[n - 1] \o ss[n]
  <2> HIDE DEF last
  <2> DEFINE g == [i \in 1 .. n |-> IF i = n THEN last ELSE h[i]]
  <2>2. ASSUME NEW i \in 1 .. n
        PROVE  g[i] = IF i = 1 THEN ss[i] ELSE g[i - 1] \o ss[i]
    <3>1. CASE i = n
      <4>1. n - 1 \in 1 .. n /\ n - 1 # n /\ n # 1
        OBVIOUS
      <4>2. g[n] = last /\ g[n - 1] = h[n - 1]
        BY <4>1
      <4> HIDE DEF g
      <4> QED BY <3>1, <4>1, <4>2 DEF last
    <3>2. CASE i # n
      <4>1. i \in 1 .. n - 1 /\ g[i] = h[i]
        BY <3>2
      <4>2. i # 1 => g[i - 1] = h[i - 1]
        BY <4>1
      <4> HIDE DEF g
      <4> QED BY <2>1, <4>1, <4>2 DEF Concats
    <3> QED BY <3>1, <3>2
  <2>3. g = [i \in 1 .. n |-> g[i]]
    OBVIOUS
  <2> HIDE DEF g
  <2>4. Concats(g, ss, n)
    BY <2>2 DEF Concats
  <2> QED BY <2>3, <2>4
<1> HIDE DEF T
<1> QED BY <1>1, <1>2, AllReached

\* The function that FlattenSeq chooses is one of them.
LEMMA ChosenConcats ==
  ASSUME NEW N \in Nat \ {0}, NEW ss, NEW f,
         f = CHOOSE h : h = [i \in 1 .. N |-> IF i = 1 THEN ss[i] ELSE h[i - 1] \o ss[i]]
  PROVE  Concats(f, ss, N)
<1>1. PICK g : g = [i \in 1 .. N |-> g[i]] /\ Concats(g, ss, N)
  <2>1. N \in 1 .. N
    OBVIOUS
  <2> QED BY <2>1, ConcatsExist
<1>2. g = [i \in 1 .. N |-> IF i = 1 THEN ss[i] ELSE g[i - 1] \o ss[i]]
  BY <1>1 DEF Concats
<1>3. f = [i \in 1 .. N |-> IF i = 1 THEN ss[i] ELSE f[i - 1] \o ss[i]]
  BY <1>2
<1> QED BY <1>3 DEF Concats

\* Behind concatenated parts the parts are found again: part k stands behind
\* the first at[k] elements, a later part behind an earlier one, and nothing
\* is there but the parts.
Placed(ss, n, flat, at) ==
  /\ \A k \in 1 .. n : /\ at[k] \in Nat /\ at[k] + Len(ss[k]) <= Len(flat)
                       /\ \A m \in 1 .. Len(ss[k]) : flat[at[k] + m] = ss[k][m]
  /\ \A j, k \in 1 .. n : j < k => at[j] + Len(ss[j]) <= at[k]
  /\ \A i \in 1 .. Len(flat) : \E k \in 1 .. n : \E m \in 1 .. Len(ss[k]) : i = at[k] + m

LEMMA PartIsThere ==
  ASSUME NEW S, NEW n \in Nat, NEW ss, NEW flat \in Seq(S), NEW at, Placed(ss, n, flat, at),
         NEW k \in 1 .. n, ss[k] \in Seq(S), NEW m \in 1 .. Len(ss[k])
  PROVE  at[k] + m \in 1 .. Len(flat) /\ flat[at[k] + m] = ss[k][m]
<1>1. /\ at[k] \in Nat /\ at[k] + Len(ss[k]) <= Len(flat)
      /\ flat[at[k] + m] = ss[k][m]
  BY DEF Placed
<1>2. Len(ss[k]) \in Nat /\ Len(flat) \in Nat
  OBVIOUS
<1> QED BY <1>1, <1>2

LEMMA OnePlaced ==
  ASSUME NEW ss, Len(ss[1]) \in Nat, NEW at, at[1] = 0
  PROVE  Placed(ss, 1, ss[1], at)
<1>1. \A k \in 1 .. 1 : k = 1
  OBVIOUS
<1>2. \A i \in 1 .. Len(ss[1]) : i = at[1] + i
  OBVIOUS
<1> QED BY <1>1, <1>2 DEF Placed

LEMMA NextPlaced ==
  ASSUME NEW S, NEW n \in Nat, NEW ss, \A k \in 1 .. n + 1 : ss[k] \in Seq(S),
         NEW old \in Seq(S), NEW at, at[n + 1] = Len(old), Placed(ss, n, old, at)
  PROVE  Placed(ss, n + 1, old \o ss[n + 1], at)
<1> DEFINE new == old \o ss[n + 1]
           a == Len(old)
           b == Len(ss[n + 1])
<1>1. /\ a \in Nat /\ b \in Nat /\ Len(new) = a + b
      /\ \A i \in 1 .. a : new[i] = old[i]
      /\ \A i \in 1 .. b : new[a + i] = ss[n + 1][i]
  <2>1. ss[n + 1] \in Seq(S)
    OBVIOUS
  <2>2. /\ Len(new) = a + b
        /\ \A i \in 1 .. a + b : new[i] = IF i <= a THEN old[i] ELSE ss[n + 1][i - a]
    BY <2>1, ConcatProperties
  <2>3. a \in Nat /\ b \in Nat
    BY <2>1
  <2> HIDE DEF new, a, b
  <2>4. \A i \in 1 .. a : new[i] = old[i]
    BY <2>2, <2>3
  <2>5. ASSUME NEW i \in 1 .. b PROVE new[a + i] = ss[n + 1][i]
    <3>1. a + i \in 1 .. a + b /\ ~(a + i <= a) /\ (a + i) - a = i
      BY <2>3
    <3> QED BY <2>2, <3>1
  <2> QED BY <2>2, <2>3, <2>4, <2>5
<1>2. at[n + 1] = a
  OBVIOUS
<1> HIDE DEF new, a
<1>3. ASSUME NEW k \in 1 .. n + 1
      PROVE  /\ at[k] \in Nat /\ at[k] + Len(ss[k]) <= Len(new)
             /\ \A m \in 1 .. Len(ss[k]) : new[at[k] + m] = ss[k][m]
  <2>1. CASE k = n + 1
    BY <1>1, <1>2, <2>1
  <2>2. CASE k # n + 1
    <3>1. /\ at[k] \in Nat /\ at[k] + Len(ss[k]) <= a
          /\ \A m \in 1 .. Len(ss[k]) : old[at[k] + m] = ss[k][m]
      BY <2>2 DEF Placed, a
    <3>2. Len(ss[k]) \in Nat
      OBVIOUS
    <3>3. \A m \in 1 .. Len(ss[k]) : at[k] + m \in 1 .. a
      BY <1>1, <3>1, <3>2
    <3>4. \A m \in 1 .. Len(ss[k]) : new[at[k] + m] = ss[k][m]
      BY <1>1, <3>1, <3>3
    <3>5. at[k] + Len(ss[k]) <= Len(new)
      BY <1>1, <3>1, <3>2
    <3> QED BY <3>1, <3>4, <3>5
  <2> QED BY <2>1, <2>2
<1>4. ASSUME NEW j \in 1 .. n + 1, NEW k \in 1 .. n + 1, j < k
      PROVE  at[j] + Len(ss[j]) <= at[k]
  <2>1. j \in 1 .. n
    BY <1>4
  <2>2. CASE k = n + 1
    BY <1>2, <2>1, <2>2 DEF Placed, a
  <2>3. CASE k # n + 1
    <3>1. k \in 1 .. n
      BY <2>3
    <3> QED BY <1>4, <2>1, <3>1 DEF Placed
  <2> QED BY <2>2, <2>3
<1>5. ASSUME NEW i \in 1 .. Len(new)
      PROVE  \E k \in 1 .. n + 1 : \E m \in 1 .. Len(ss[k]) : i = at[k] + m
  <2>1. CASE i <= a
    <3>1. i \in 1 .. Len(old)
      BY <1>1, <2>1 DEF a
    <3> QED BY <3>1 DEF Placed
  <2>2. CASE i > a
    <3>1. i - a \in 1 .. b /\ i = a + (i - a)
      BY <1>1, <2>2
    <3> QED BY <1>2, <3>1
  <2> QED BY <1>1, <2>1, <2>2
<1> QED BY <1>3, <1>4, <1>5 DEF Placed, new

\* Where the parts of a concatenation stand.
Offsets(f, n) == [k \in 1 .. n |-> IF k = 1 THEN 0 ELSE Len(f[k - 1])]

LEMMA ConcatsPlaced ==
  ASSUME NEW S, NEW N \in Nat \ {0}, NEW ss, \A k \in 1 .. N : ss[k] \in Seq(S),
         NEW f, Concats(f, ss, N)
  PROVE  f[N] \in Seq(S) /\ Placed(ss, N, f[N], Offsets(f, N))
<1> DEFINE at == Offsets(f, N)
           T == { n \in 1 .. N : f[n] \in Seq(S) /\ Placed(ss, n, f[n], at) }
<1>1. 1 \in T
  <2>1. f[1] = ss[1] /\ ss[1] \in Seq(S) /\ Len(ss[1]) \in Nat
    BY DEF Concats
  <2>2. at[1] = 0
    BY DEF Offsets
  <2> HIDE DEF at
  <2> QED BY <2>1, <2>2, OnePlaced
<1>2. ASSUME NEW n \in 2 .. N, n - 1 \in T PROVE n \in T
  <2> DEFINE m == n - 1
  <2>1. m \in Nat /\ m + 1 = n /\ m \in 1 .. N /\ n # 1 /\ n \in 1 .. N
    OBVIOUS
  <2>2. f[m] \in Seq(S) /\ Placed(ss, m, f[m], at)
    BY <1>2
  <2>3. f[n] = f[m] \o ss[n]
    <3>1. f[n] = IF n = 1 THEN ss[n] ELSE f[n - 1] \o ss[n]
      BY <2>1 DEF Concats
    <3> QED BY <2>1, <3>1
  <2>4. at[n] = Len(f[m])
    BY <2>1 DEF Offsets
  <2>5. \A k \in 1 .. m + 1 : ss[k] \in Seq(S)
    BY <2>1
  <2> HIDE DEF m, at
  <2>6. Placed(ss, m + 1, f[m] \o ss[m + 1], at)
    BY <2>1, <2>2, <2>4, <2>5, NextPlaced
  <2>7. f[n] \in Seq(S)
    BY <2>1, <2>2, <2>3, ConcatProperties
  <2>8. Placed(ss, n, f[n], at)
    BY <2>1, <2>3, <2>6
  <2> QED BY <2>1, <2>7, <2>8
<1> HIDE DEF T
<1>3. N \in T
  <2>1. N \in Nat /\ N \in 1 .. N
    OBVIOUS
  <2> QED BY <1>1, <1>2, <2>1, AllReached
<1> QED BY <1>3 DEF T

-----------------------------------------------------------------------------
LOCAL INSTANCE SequencesExt

\* FlattenSeq puts the parts one behind the other.
LEMMA FlattenPlaced ==
  ASSUME NEW S, NEW N \in Nat, NEW ss, ss = [k \in 1 .. N |-> ss[k]],
         \A k \in 1 .. N : ss[k] \in Seq(S)
  PROVE  /\ FlattenSeq(ss) \in Seq(S)
         /\ \E at : Placed(ss, N, FlattenSeq(ss), at)
<1>1. Len(ss) = N
  OBVIOUS
<1>2. CASE N = 0
  <2>1. FlattenSeq(ss) = <<>>
    BY <1>1, <1>2 DEF FlattenSeq
  <2>2. <<>> \in Seq(S) /\ Len(<<>>) = 0
    OBVIOUS
  <2>3. Placed(ss, 0, <<>>, <<>>)
    BY <2>2 DEF Placed
  <2> QED BY <1>2, <2>1, <2>2, <2>3
<1>3. CASE N # 0
  <2> DEFINE f == CHOOSE h : h = [i \in 1 .. N |->
                                    IF i = 1 THEN ss[i] ELSE h[i - 1] \o ss[i]]
  <2>1. FlattenSeq(ss) = f[N]
    BY <1>1, <1>3 DEF FlattenSeq
  <2>2. Concats(f, ss, N)
    BY <1>3, ChosenConcats
  <2> HIDE DEF f
  <2>3. f[N] \in Seq(S) /\ Placed(ss, N, f[N], Offsets(f, N))
    BY <1>3, <2>2, ConcatsPlaced
  <2> QED BY <2>1, <2>3
<1> QED BY <1>2, <1>3

\* So every element of a part is found in the result, nothing else is, and
\* an element of a later part comes later.
Laid(ss, n, flat, at) ==
  /\ \A k \in 1 .. n : \A m \in 1 .. Len(ss[k]) :
       at[k] + m \in 1 .. Len(flat) /\ flat[at[k] + m] = ss[k][m]
  /\ \A i \in 1 .. Len(flat) : \E k \in 1 .. n : \E m \in 1 .. Len(ss[k]) :
       i = at[k] + m /\ flat[i] = ss[k][m]
  /\ \A j, k \in 1 .. n : j < k =>
       \A m \in 1 .. Len(ss[j]), l \in 1 .. Len(ss[k]) : at[j] + m < at[k] + l

LEMMA FlattenParts ==
  ASSUME NEW S, NEW N \in Nat, NEW ss, ss = [k \in 1 .. N |-> ss[k]],
         \A k \in 1 .. N : ss[k] \in Seq(S),
         NEW flat, flat = FlattenSeq(ss)
  PROVE  flat \in Seq(S) /\ \E at : Laid(ss, N, flat, at)
<1>1. flat \in Seq(S) /\ \E at : Placed(ss, N, flat, at)
  BY FlattenPlaced
<1>2. PICK at : Placed(ss, N, flat, at)
  BY <1>1
<1>3. \A k \in 1 .. N : \A m \in 1 .. Len(ss[k]) :
        at[k] + m \in 1 .. Len(flat) /\ flat[at[k] + m] = ss[k][m]
  BY <1>1, <1>2, PartIsThere
<1>4. ASSUME NEW i \in 1 .. Len(flat)
      PROVE  \E k \in 1 .. N : \E m \in 1 .. Len(ss[k]) : i = at[k] + m /\ flat[i] = ss[k][m]
  <2>1. PICK k \in 1 .. N : \E m \in 1 .. Len(ss[k]) : i = at[k] + m
    BY <1>2 DEF Placed
  <2>2. \A m \in 1 .. Len(ss[k]) : flat[at[k] + m] = ss[k][m]
    BY <1>2 DEF Placed
  <2> QED BY <2>1, <2>2
<1>5. ASSUME NEW j \in 1 .. N, NEW k \in 1 .. N, j < k,
             NEW m \in 1 .. Len(ss[j]), NEW n \in 1 .. Len(ss[k])
      PROVE  at[j] + m < at[k] + n
  <2>1. /\ at[j] \in Nat /\ at[k] \in Nat /\ at[j] + Len(ss[j]) <= at[k]
    BY <1>2, <1>5 DEF Placed
  <2>2. Len(ss[j]) \in Nat /\ Len(ss[k]) \in Nat
    OBVIOUS
  <2> QED BY <2>1, <2>2
<1> QED BY <1>1, <1>3, <1>4, <1>5 DEF Laid

LEMMA FlattenOne ==
  ASSUME NEW s
  PROVE  FlattenSeq([k \in 1 .. 1 |-> s]) = s
<1> DEFINE ss == [k \in 1 .. 1 |-> s]
           f == CHOOSE h : h = [i \in 1 .. 1 |-> IF i = 1 THEN ss[i] ELSE h[i - 1] \o ss[i]]
<1>1. Len(ss) = 1 /\ ss[1] = s
  OBVIOUS
<1> HIDE DEF ss
<1>2. FlattenSeq(ss) = f[1]
  BY <1>1 DEF FlattenSeq
<1>3. 1 \in Nat \ {0} /\ f = CHOOSE h : h = [i \in 1 .. 1 |->
                                   IF i = 1 THEN ss[i] ELSE h[i - 1] \o ss[i]]
  OBVIOUS
<1> HIDE DEF f
<1>4. f[1] = s
  <2>1. Concats(f, ss, 1)
    BY <1>3, ChosenConcats
  <2> QED BY <1>1, <2>1 DEF Concats
<1> QED BY <1>2, <1>4 DEF ss

\* A list: a sequence of anything, by its length.
IsList(s) == Len(s) \in Nat /\ s = [k \in 1 .. Len(s) |-> s[k]]

\* A list grows by one and keeps what it holds.
LEMMA ListGrows ==
  ASSUME NEW s, IsList(s), NEW o
  PROVE  /\ IsList(Append(s, o)) /\ Len(Append(s, o)) = Len(s) + 1
         /\ Append(s, o)[Len(s) + 1] = o /\ \A k \in 1 .. Len(s) : Append(s, o)[k] = s[k]
<1> DEFINE n == Len(s)
           t == Append(s, o)
           A == { s[m] : m \in 1 .. n } \cup {o}
<1>1. n \in Nat /\ s = [k \in 1 .. n |-> s[k]]
  BY DEF IsList
<1>2. \A k \in 1 .. n : s[k] \in A
  OBVIOUS
<1>3. n = Len(s) /\ o \in A
  OBVIOUS
<1> HIDE DEF A, n
<1>4. s \in [1 .. n -> A]
  BY <1>1, <1>2
<1>5. s \in Seq(A)
  BY <1>1, <1>4
<1>6. t \in Seq(A) /\ Len(t) = n + 1
  BY <1>3, <1>5
<1>7. t[n + 1] = o /\ \A k \in 1 .. n : t[k] = s[k]
  BY <1>3, <1>5
<1> HIDE DEF t
<1>8. n + 1 \in Nat /\ t = [k \in 1 .. n + 1 |-> t[k]]
  BY <1>1, <1>6
<1> QED BY <1>3, <1>6, <1>7, <1>8 DEF IsList, t

\* tt starts as ss does.
StartsAs(tt, ss, n) == \A k \in 1 .. n : tt[k] = ss[k]

\* Two chains of concatenations that start with the same parts agree on them.
LEMMA SameConcats ==
  ASSUME NEW ss, NEW tt, NEW f, NEW h, NEW N \in Nat, NEW n \in 1 .. N,
         Concats(f, ss, N), Concats(h, tt, n), StartsAs(tt, ss, n)
  PROVE  h[n] = f[n]
<1> DEFINE T == { k \in 1 .. n : h[k] = f[k] }
<1>1. 1 \in T
  <2>1. 1 \in 1 .. n /\ 1 \in 1 .. N
    OBVIOUS
  <2>2. h[1] = tt[1] /\ f[1] = ss[1] /\ tt[1] = ss[1]
    BY <2>1 DEF Concats, StartsAs
  <2> QED BY <2>1, <2>2
<1>2. ASSUME NEW k \in 2 .. n, k - 1 \in T PROVE k \in T
  <2>1. k \in 1 .. n /\ k \in 1 .. N /\ k # 1
    OBVIOUS
  <2>2. h[k] = h[k - 1] \o tt[k] /\ f[k] = f[k - 1] \o ss[k]
    BY <2>1 DEF Concats
  <2>3. h[k - 1] = f[k - 1]
    BY <1>2
  <2>4. tt[k] = ss[k]
    BY <2>1 DEF StartsAs
  <2> QED BY <2>1, <2>2, <2>3, <2>4
<1>3. \A k \in 1 .. n : k \in T
  <2> HIDE DEF T
  <2> QED BY <1>1, <1>2, AllReached
<1> QED BY <1>3

\* The parts of a flattened list.
Lists(ss, N, S) ==
  ss = [k \in 1 .. N |-> ss[k]] /\ \A k \in 1 .. N : ss[k] \in Seq(S)

\* s stands in flat behind the first o places.
Behind(flat, o, s) ==
  /\ o \in Nat /\ o + Len(s) <= Len(flat)
  /\ \A m \in 1 .. Len(s) : flat[o + m] = s[m]

\* What the parts before part n flatten to.
Prior(ss, n) == FlattenSeq([k \in 1 .. n - 1 |-> ss[k]])

\* What the parts before part n flatten to is what is concatenated before it.
LEMMA PriorIsOffset ==
  ASSUME NEW S, NEW N \in Nat, NEW ss, Lists(ss, N, S), NEW n \in 1 .. N,
         NEW f, Concats(f, ss, N)
  PROVE  Len(Prior(ss, n)) = Offsets(f, N)[n]
<1> DEFINE pre == [k \in 1 .. n - 1 |-> ss[k]]
           p == n - 1
           o == Len(Prior(ss, n))
<1>1. N \in Nat \ {0}
  OBVIOUS
<1>2. Len(pre) = p /\ p \in Nat /\ \A k \in 1 .. p : pre[k] = ss[k]
  OBVIOUS
<1>3. CASE p = 0
  <2> HIDE DEF pre
  <2>1. FlattenSeq(pre) = pre
    BY <1>2, <1>3 DEF FlattenSeq
  <2> QED BY <1>2, <1>3, <2>1 DEF Offsets, pre, Prior
<1>4. CASE p # 0
  <2> DEFINE h == CHOOSE z : z = [i \in 1 .. p |-> IF i = 1 THEN pre[i] ELSE z[i - 1] \o pre[i]]
  <2>1. Len(FlattenSeq(pre)) = o
    BY DEF Prior
  <2>2. p \in Nat \ {0} /\ p \in 1 .. N /\ p \in 1 .. p /\ n # 1
    BY <1>2, <1>4
  <2>3. Offsets(f, N)[n] = Len(f[p])
    BY <2>2 DEF Offsets
  <2> HIDE DEF pre, p
  <2>4. FlattenSeq(pre) = h[p]
    BY <1>2, <1>4 DEF FlattenSeq
  <2>5. Concats(h, pre, p)
    BY <2>2, ChosenConcats
  <2> HIDE DEF h
  <2>6. StartsAs(pre, ss, p)
    BY <1>2 DEF StartsAs
  <2>7. h[p] = f[p]
    BY <1>1, <2>2, <2>5, <2>6, SameConcats
  <2> QED BY <2>1, <2>3, <2>4, <2>7
<1> QED BY <1>3, <1>4

\* A part of a flattened list stands behind what the parts before it flatten to.
LEMMA PartBehindPrefix ==
  ASSUME NEW S, NEW N \in Nat, NEW ss, Lists(ss, N, S), NEW n \in 1 .. N
  PROVE  Behind(FlattenSeq(ss), Len(Prior(ss, n)), ss[n])
<1> DEFINE f == CHOOSE h : h = [i \in 1 .. N |-> IF i = 1 THEN ss[i] ELSE h[i - 1] \o ss[i]]
           flat == FlattenSeq(ss)
<1>0. ss = [k \in 1 .. N |-> ss[k]] /\ \A k \in 1 .. N : ss[k] \in Seq(S)
  BY DEF Lists
<1>1. Len(ss) = N /\ N \in Nat \ {0}
  BY <1>0
<1>2. flat = f[N]
  BY <1>1 DEF FlattenSeq
<1>3. Concats(f, ss, N)
  BY <1>1, ChosenConcats
<1> HIDE DEF f
<1>4. Placed(ss, N, flat, Offsets(f, N))
  BY <1>0, <1>1, <1>2, <1>3, ConcatsPlaced
<1>5. Len(Prior(ss, n)) = Offsets(f, N)[n]
  BY <1>3, PriorIsOffset
<1> QED BY <1>4, <1>5 DEF Placed, Behind

\* Place i of a flattened list is in one of its parts.
InPart(ss, N, i) ==
  \E n \in 1 .. N : \E m \in 1 .. Len(ss[n]) : i = Len(Prior(ss, n)) + m

\* So is every place.
LEMMA PlaceInPart ==
  ASSUME NEW S, NEW N \in Nat, NEW ss, Lists(ss, N, S), NEW i \in 1 .. Len(FlattenSeq(ss))
  PROVE  InPart(ss, N, i)
<1> DEFINE f == CHOOSE h : h = [j \in 1 .. N |-> IF j = 1 THEN ss[j] ELSE h[j - 1] \o ss[j]]
           flat == FlattenSeq(ss)
<1>0. ss = [k \in 1 .. N |-> ss[k]] /\ \A k \in 1 .. N : ss[k] \in Seq(S)
  BY DEF Lists
<1>1. Len(ss) = N /\ N \in Nat \ {0}
  <2>1. CASE N = 0
    <3>1. ss = <<>>
      BY <1>0, <2>1
    <3>2. FlattenSeq(ss) = <<>>
      BY <3>1 DEF FlattenSeq
    <3> QED BY <3>2
  <2> QED BY <1>0, <2>1
<1>2. flat = f[N]
  BY <1>1 DEF FlattenSeq
<1>3. Concats(f, ss, N)
  BY <1>1, ChosenConcats
<1> HIDE DEF f
<1>4. Placed(ss, N, flat, Offsets(f, N))
  BY <1>0, <1>1, <1>2, <1>3, ConcatsPlaced
<1>5. \A n \in 1 .. N : Len(Prior(ss, n)) = Offsets(f, N)[n]
  BY <1>3, PriorIsOffset
<1> QED BY <1>4, <1>5 DEF Placed, InPart
=============================================================================
