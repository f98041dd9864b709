-------------------------- MODULE AlignmentProofs --------------------------
(***************************************************************************)
(* For all texts: the operations of cer.align_ops edit the golden text     *)
(* into the transcribed one and no edit script is cheaper (AlignCheapest); *)
(* a text against itself gives every span its own words (SpanOfItself),    *)
(* no part of a transcript counts for two tokens (SpansApart), and a span  *)
(* gets all that was heard between its neighbours and nothing else         *)
(* (SpanBetweenNeighbours).                                                *)
(*                                                                         *)
(* The table of costs is a fold of folds, so it is first unrolled into the *)
(* chain of its rows and each row into the chain of its cells (CostsAre);  *)
(* the recursive function that AlignOps reads its answer off exists        *)
(* (OpsExist), and its value at i and j is an edit script at the cost of   *)
(* cell i and j (AlignCheap).  An edit script pays at each step at least   *)
(* what the table grows by (CostsBound), so none ends below it.            *)
(***************************************************************************)
EXTENDS Integers, FiniteSets, SequenceFacts, Alignment, FiniteSetTheorems

LOCAL INSTANCE SequencesExt

-----------------------------------------------------------------------------
(* The folds of Costs.                                                     *)

\* A cell, and a row, of the table of costs.
Cell(row, x, hyp, done, j) ==
  Least({row[j] + Differ(x, hyp[j]), row[j + 1] + 1, done[j] + 1})

Below(row, x, hyp) ==
  FoldLeftDomain(
    LAMBDA done, j : Append(done, Least({row[j] + Differ(x, hyp[j]),
                                         row[j + 1] + 1, done[j] + 1})),
    <<row[1] + 1>>, hyp)

\* The steps of the two folds: along a row, and from row to row.
Grown(w, acc, k) ==
  IF w.what = "cell" THEN Append(acc, Cell(w.row, w.x, w.hyp, acc, k))
                     ELSE Append(acc, Below(acc[Len(acc)], w.ref[k], w.hyp))

\* g is what a fold over 1 .. N is defined by.
Folds(g, N, w, base) ==
  g = [s \in SUBSET (1 .. N) |->
         IF s = {} THEN base ELSE Grown(w, g[s \ {Max(s)}], Max(s))]

\* The largest member of a set of places.
LEMMA MaxIs ==
  ASSUME NEW N \in Nat, NEW s \in SUBSET (1 .. N), s # {}
  PROVE  Max(s) \in s /\ \A y \in s : Max(s) >= y
<1> DEFINE T == { N - x : x \in s }
<1>1. T \in SUBSET Nat /\ T # {}
  <2>1. \A x \in s : x \in 1 .. N
    OBVIOUS
  <2>2. \A x \in s : N - x \in Nat
    BY <2>1
  <2>3. T \in SUBSET Nat
    BY <2>2
  <2>4. PICK x \in s : TRUE
    OBVIOUS
  <2>5. N - x \in T
    OBVIOUS
  <2> QED BY <2>3, <2>5
<1>2. PICK t \in T : \A u \in T : t <= u
  BY <1>1, LeastNatural
<1>3. PICK x \in s : t = N - x
  OBVIOUS
<1>4. \A y \in s : x >= y
  <2> SUFFICES ASSUME NEW y \in s PROVE x >= y
    OBVIOUS
  <2>1. N - x <= N - y
    BY <1>2, <1>3
  <2>2. x \in 1 .. N /\ y \in 1 .. N
    OBVIOUS
  <2> HIDE DEF T
  <2> QED BY <2>1, <2>2
<1> QED BY <1>3, <1>4 DEF Max

\* The sets that a fold over fewer than n numbers runs through.
Under(n) == SUBSET (1 .. n - 1)

\* g holds what the fold makes of the sets of fewer than n numbers.
FoldsTo(g, n, w, base) ==
  \A s \in Under(n) : g[s] = IF s = {} THEN base ELSE Grown(w, g[s \ {Max(s)}], Max(s))

\* A set without its largest member is one that the fold has done.
LEMMA WithoutMax ==
  ASSUME NEW n \in Nat, n >= 1, NEW s \in Under(n + 1), s # {}
  PROVE  /\ s \ {Max(s)} \in Under(n)
         /\ s \ {Max(s)} \in Under(n + 1)
         /\ s \notin Under(n) => Max(s) = n
<1>1. s \in SUBSET (1 .. n)
  BY DEF Under
<1>2. Max(s) \in s /\ \A y \in s : Max(s) >= y
  BY <1>1, MaxIs
<1>3. Max(s) \in 1 .. n /\ \A y \in s : y \in 1 .. n
  BY <1>1, <1>2
<1>4. \A y \in s \ {Max(s)} : y \in 1 .. n - 1
  <2> SUFFICES ASSUME NEW y \in s \ {Max(s)} PROVE y \in 1 .. n - 1
    OBVIOUS
  <2>1. Max(s) >= y /\ y # Max(s) /\ y \in 1 .. n
    BY <1>2, <1>3
  <2> QED BY <1>3, <2>1
<1>5. s \notin SUBSET (1 .. n - 1) => Max(s) = n
  <2> SUFFICES ASSUME Max(s) # n, NEW y \in s PROVE y \in 1 .. n - 1
    OBVIOUS
  <2>1. Max(s) >= y /\ y \in 1 .. n
    BY <1>2, <1>3
  <2> QED BY <1>3, <2>1
<1>6. s \ {Max(s)} \in SUBSET (1 .. n)
  BY <1>1
<1>7. n + 1 - 1 = n
  OBVIOUS
<1> QED BY <1>4, <1>5, <1>6, <1>7 DEF Under

\* What a fold over n - 1 numbers runs through, one over n does.
LEMMA LargerBelow ==
  ASSUME NEW n \in Nat, n >= 1
  PROVE  Under(n) \in SUBSET Under(n + 1)
<1>1. \A y \in 1 .. n - 1 : y \in 1 .. n + 1 - 1
  OBVIOUS
<1> QED BY <1>1 DEF Under

\* A fold over fewer than n numbers goes on to one over n.
LEMMA FoldsFurther ==
  ASSUME NEW n \in Nat, n >= 1, NEW w, NEW base, NEW h, FoldsTo(h, n, w, base)
  PROVE  \E g : FoldsTo(g, n + 1, w, base)
<1> DEFINE v(s) == IF s \in Under(n) THEN h[s] ELSE Grown(w, h[s \ {n}], n)
           g == [s \in Under(n + 1) |-> v(s)]
<1>1. ASSUME NEW s \in Under(n) PROVE s \in Under(n + 1) /\ g[s] = h[s]
  BY LargerBelow
<1>2. {} \in Under(n)
  BY DEF Under
<1>3. ASSUME NEW s \in Under(n + 1)
      PROVE  g[s] = IF s = {} THEN base ELSE Grown(w, g[s \ {Max(s)}], Max(s))
  <2>1. CASE s = {}
    <3>1. g[{}] = h[{}]
      BY <1>1, <1>2
    <3>2. h[{}] = base
      BY <1>2 DEF FoldsTo
    <3> HIDE DEF g
    <3> QED BY <2>1, <3>1, <3>2
  <2>2. CASE s # {} /\ s \in Under(n)
    <3>1. h[s] = Grown(w, h[s \ {Max(s)}], Max(s))
      BY <2>2 DEF FoldsTo
    <3>2. s \ {Max(s)} \in Under(n)
      BY <2>2, WithoutMax
    <3>3. g[s] = h[s] /\ g[s \ {Max(s)}] = h[s \ {Max(s)}]
      BY <1>1, <2>2, <3>2
    <3> HIDE DEF g
    <3> QED BY <2>2, <3>1, <3>3
  <2>3. CASE s # {} /\ s \notin Under(n)
    <3>1. Max(s) = n /\ s \ {Max(s)} \in Under(n)
      BY <2>3, WithoutMax
    <3>2. g[s] = Grown(w, h[s \ {n}], n)
      BY <2>3
    <3>3. g[s \ {Max(s)}] = h[s \ {Max(s)}]
      BY <1>1, <3>1
    <3> HIDE DEF g
    <3> QED BY <2>3, <3>1, <3>2, <3>3
  <2> QED BY <2>1, <2>2, <2>3
<1> HIDE DEF g
<1>4. FoldsTo(g, n + 1, w, base)
  BY <1>3 DEF FoldsTo
<1> QED BY <1>4

\* The function a fold is defined by exists.
LEMMA GrownExists ==
  ASSUME NEW N \in Nat, NEW w, NEW base
  PROVE  \E g : Folds(g, N, w, base)
<1> DEFINE T == { n \in 1 .. N + 1 : \E g : FoldsTo(g, n, w, base) }
<1>1. 1 \in T
  <2> DEFINE g == [s \in {{}} |-> base]
  <2>1. Under(1) = {{}}
    BY DEF Under
  <2>2. g[{}] = base
    OBVIOUS
  <2>3. FoldsTo(g, 1, w, base)
    <3> HIDE DEF g
    <3> QED BY <2>1, <2>2 DEF FoldsTo
  <2> HIDE DEF g
  <2>4. 1 \in 1 .. N + 1
    OBVIOUS
  <2> QED BY <2>3, <2>4
<1>2. ASSUME NEW n \in 2 .. N + 1, n - 1 \in T PROVE n \in T
  <2>1. PICK h : FoldsTo(h, n - 1, w, base)
    BY <1>2
  <2>2. n - 1 \in Nat /\ n - 1 >= 1 /\ (n - 1) + 1 = n /\ n \in 1 .. N + 1
    OBVIOUS
  <2>3. \E g : FoldsTo(g, (n - 1) + 1, w, base)
    <3> HIDE DEF T
    <3> QED BY <2>1, <2>2, FoldsFurther
  <2> QED BY <2>2, <2>3
<1>3. N + 1 \in T
  <2> HIDE DEF T
  <2>1. N + 1 \in Nat /\ N + 1 \in 1 .. N + 1
    OBVIOUS
  <2>2. \A n \in 1 .. N + 1 : n \in T
    BY <1>1, <1>2, <2>1, AllReached
  <2> QED BY <2>1, <2>2
<1>4. PICK h : FoldsTo(h, N + 1, w, base)
  BY <1>3
<1>5. Under(N + 1) = SUBSET (1 .. N)
  <2>1. N + 1 - 1 = N
    OBVIOUS
  <2> QED BY <2>1 DEF Under
<1> DEFINE D == SUBSET (1 .. N)
           g == [s \in D |-> h[s]]
<1>6. ASSUME NEW s \in D, s # {} PROVE s \ {Max(s)} \in D
  OBVIOUS
<1>7. ASSUME NEW s \in D
      PROVE  g[s] = IF s = {} THEN base ELSE Grown(w, g[s \ {Max(s)}], Max(s))
  <2>1. h[s] = IF s = {} THEN base ELSE Grown(w, h[s \ {Max(s)}], Max(s))
    BY <1>4, <1>5 DEF FoldsTo
  <2>2. g[s] = h[s] /\ (s # {} => g[s \ {Max(s)}] = h[s \ {Max(s)}])
    BY <1>6
  <2> HIDE DEF g
  <2> QED BY <2>1, <2>2
<1>8. g = [s \in D |-> g[s]]
  OBVIOUS
<1>9. g = [s \in D |-> IF s = {} THEN base ELSE Grown(w, g[s \ {Max(s)}], Max(s))]
  <2> HIDE DEF g
  <2> QED BY <1>7, <1>8
<1> HIDE DEF g
<1> QED BY <1>9 DEF Folds

\* What a fold runs through.
LEMMA FoldChain ==
  ASSUME NEW N \in Nat, NEW w, NEW base, NEW f, Folds(f, N, w, base)
  PROVE  \E c : /\ c[0] = base /\ c[N] = f[1 .. N]
                /\ \A k \in 1 .. N : c[k] = Grown(w, c[k - 1], k)
<1>1. Folds(f, N, w, base)
  OBVIOUS
<1> DEFINE c == [k \in 0 .. N |-> f[1 .. k]]
<1>2. f[{}] = base
  BY <1>1 DEF Folds
<1>0. \A k \in 0 .. N : c[k] = f[1 .. k]
  OBVIOUS
<1> HIDE DEF c
<1>3. ASSUME NEW k \in 1 .. N PROVE c[k] = Grown(w, c[k - 1], k)
  <2> DEFINE s == 1 .. k
  <2>1. s \in SUBSET (1 .. N) /\ s # {} /\ k \in s /\ s \ {k} = 1 .. k - 1
    OBVIOUS
  <2>2. Max(s) = k
    <3>1. Max(s) \in s /\ \A y \in s : Max(s) >= y
      <4> HIDE DEF s
      <4> QED BY <2>1, MaxIs
    <3> QED BY <2>1, <3>1
  <2>3. f[s] = Grown(w, f[s \ {k}], k)
    <3> HIDE DEF s
    <3> QED BY <1>1, <2>1, <2>2 DEF Folds
  <2>4. k \in 0 .. N /\ k - 1 \in 0 .. N
    OBVIOUS
  <2>5. c[k] = f[s] /\ c[k - 1] = f[1 .. k - 1]
    BY <1>0, <2>4
  <2> HIDE DEF s
  <2> QED BY <2>1, <2>3, <2>5
<1>4. c[0] = base /\ c[N] = f[1 .. N]
  <2>1. 1 .. 0 = {} /\ 0 \in 0 .. N /\ N \in 0 .. N
    OBVIOUS
  <2> QED BY <1>0, <1>2, <2>1
<1> QED BY <1>3, <1>4

-----------------------------------------------------------------------------
(* The rows and cells of Costs.                                            *)

\* c runs through the cells of a row.
FillsRow(c, row, x, hyp) ==
  /\ c[0] = <<row[1] + 1>> /\ c[Len(hyp)] = Below(row, x, hyp)
  /\ \A k \in 1 .. Len(hyp) : c[k] = Append(c[k - 1], Cell(row, x, hyp, c[k - 1], k))

\* A row is built cell by cell.
LEMMA BelowChain ==
  ASSUME NEW S, NEW hyp \in Seq(S), NEW row, NEW x
  PROVE  \E c : FillsRow(c, row, x, hyp)
<1> DEFINE N == Len(hyp)
           D == SUBSET (1 .. N)
           ix == [i \in DOMAIN hyp |-> i]
           w == [what |-> "cell", row |-> row, x |-> x, hyp |-> hyp]
           base == <<row[1] + 1>>
           F(h) == h = [s \in SUBSET DOMAIN ix |-> IF s = {} THEN <<row[1] + 1>>
                     ELSE Append(h[s \ {Max(s)}], Cell(row, x, hyp, h[s \ {Max(s)}], ix[Max(s)]))]
           f == CHOOSE h : F(h)
<1>1. N \in Nat /\ DOMAIN hyp = 1 .. N
  OBVIOUS
<1>2. DOMAIN ix = 1 .. N /\ \A k \in 1 .. N : ix[k] = k
  BY <1>1
<1>3. Below(row, x, hyp) = f[DOMAIN ix]
  BY DEF Below, FoldLeftDomain, FoldLeft, MapThenFoldSet, Cell
<1>4. \A acc, k : Grown(w, acc, k) = Append(acc, Cell(row, x, hyp, acc, k))
  BY DEF Grown
<1> HIDE DEF w
<1>5. ASSUME NEW s \in D, s # {} PROVE ix[Max(s)] = Max(s)
  <2>1. Max(s) \in s
    BY <1>1, <1>5, MaxIs
  <2> QED BY <1>2, <2>1
<1> HIDE DEF ix
<1>6. ASSUME NEW g PROVE F(g) <=> Folds(g, N, w, base)
  <2>1. F(g) <=> g = [s \in D |-> IF s = {} THEN base
                     ELSE Append(g[s \ {Max(s)}], Cell(row, x, hyp, g[s \ {Max(s)}], Max(s)))]
    BY <1>2, <1>5
  <2>2. Folds(g, N, w, base) <=> g = [s \in D |-> IF s = {} THEN base
                     ELSE Append(g[s \ {Max(s)}], Cell(row, x, hyp, g[s \ {Max(s)}], Max(s)))]
    BY <1>4 DEF Folds
  <2> HIDE DEF F
  <2> QED BY <2>1, <2>2
<1>7. \E g : Folds(g, N, w, base)
  <2> HIDE DEF F, f, base, N
  <2> QED BY <1>1, GrownExists
<1>8. F(f)
  <2> HIDE DEF F
  <2>1. \E g : F(g)
    BY <1>6, <1>7
  <2> QED BY <2>1
<1> HIDE DEF F, f
<1>9. Folds(f, N, w, base)
  BY <1>6, <1>8
<1>10. PICK c : /\ c[0] = base /\ c[N] = f[1 .. N]
                /\ \A k \in 1 .. N : c[k] = Grown(w, c[k - 1], k)
  <2> HIDE DEF base, N
  <2> QED BY <1>1, <1>9, FoldChain
<1>11. c[N] = Below(row, x, hyp)
  BY <1>2, <1>3, <1>10
<1>12. \A k \in 1 .. N : c[k] = Append(c[k - 1], Cell(row, x, hyp, c[k - 1], k))
  BY <1>4, <1>10
<1>13. FillsRow(c, row, x, hyp)
  <2> HIDE DEF base, f
  <2> QED BY <1>10, <1>11, <1>12 DEF FillsRow, base
<1> QED BY <1>13

\* The table of costs is built row by row.
LEMMA RowsChain ==
  ASSUME NEW S, NEW ref \in Seq(S), NEW hyp
  PROVE  \E c : /\ c[0] = <<[j \in 1 .. Len(hyp) + 1 |-> j - 1]>>
                /\ c[Len(ref)] = Costs(ref, hyp)
                /\ \A k \in 1 .. Len(ref) :
                     c[k] = Append(c[k - 1], Below(c[k - 1][Len(c[k - 1])], ref[k], hyp))
<1> DEFINE N == Len(ref)
           D == SUBSET (1 .. N)
           w == [what |-> "row", ref |-> ref, hyp |-> hyp]
           base == <<[j \in 1 .. Len(hyp) + 1 |-> j - 1]>>
           F(h) == h = [s \in SUBSET DOMAIN ref |-> IF s = {} THEN base
                     ELSE Append(h[s \ {Max(s)}], Below(h[s \ {Max(s)}][Len(h[s \ {Max(s)}])], ref[Max(s)], hyp))]
           f == CHOOSE h : F(h)
<1>1. N \in Nat /\ DOMAIN ref = 1 .. N
  OBVIOUS
<1>3. Costs(ref, hyp) = f[DOMAIN ref]
  BY DEF Costs, Below, FoldLeft, MapThenFoldSet
<1>4. \A acc, k : Grown(w, acc, k) = Append(acc, Below(acc[Len(acc)], ref[k], hyp))
  <2>1. w.what # "cell" /\ w.ref = ref /\ w.hyp = hyp
    OBVIOUS
  <2> HIDE DEF w
  <2> QED BY <2>1 DEF Grown
<1> HIDE DEF w, base
<1>6. ASSUME NEW g PROVE F(g) <=> Folds(g, N, w, base)
  BY <1>1, <1>4 DEF Folds
<1>7. \E g : Folds(g, N, w, base)
  <2> HIDE DEF F, f, N
  <2> QED BY <1>1, GrownExists
<1>8. F(f)
  <2> HIDE DEF F
  <2>1. \E g : F(g)
    BY <1>6, <1>7
  <2> QED BY <2>1
<1> HIDE DEF F, f
<1>9. Folds(f, N, w, base)
  BY <1>6, <1>8
<1>10. PICK c : /\ c[0] = base /\ c[N] = f[1 .. N]
                /\ \A k \in 1 .. N : c[k] = Grown(w, c[k - 1], k)
  <2> HIDE DEF N
  <2> QED BY <1>1, <1>9, FoldChain
<1>11. c[N] = Costs(ref, hyp)
  BY <1>1, <1>3, <1>10
<1>12. \A k \in 1 .. N : c[k] = Append(c[k - 1], Below(c[k - 1][Len(c[k - 1])], ref[k], hyp))
  BY <1>4, <1>10
<1> QED BY <1>10, <1>11, <1>12 DEF base

\* The least of three costs.
LEMMA LeastOfThree ==
  ASSUME NEW a \in Nat, NEW b \in Nat, NEW c \in Nat
  PROVE  /\ Least({a, b, c}) \in {a, b, c}
         /\ Least({a, b, c}) <= a /\ Least({a, b, c}) <= b /\ Least({a, b, c}) <= c
<1>1. \E n \in {a, b, c} : \A k \in {a, b, c} : n <= k
  <2>1. CASE a <= b /\ a <= c
    BY <2>1
  <2>2. CASE b <= a /\ b <= c
    BY <2>2
  <2>3. CASE c <= a /\ c <= b
    BY <2>3
  <2> QED BY <2>1, <2>2, <2>3
<1>2. Least({a, b, c}) \in {a, b, c} /\ \A k \in {a, b, c} : Least({a, b, c}) <= k
  BY <1>1 DEF Least
<1> QED BY <1>2

\* A substitution costs one, a match nothing.
LEMMA DifferIs ==
  ASSUME NEW x, NEW y
  PROVE  Differ(x, y) \in {0, 1} /\ (Differ(x, y) = 0 <=> x = y)
BY DEF Differ

\* The row of a character of the golden text, from the one above it.
RowOn(b, row, x, hyp, k) ==
  /\ b \in Seq(Nat) /\ Len(b) = k + 1 /\ b[1] = row[1] + 1
  /\ \A j \in 1 .. k : b[j + 1] = Cell(row, x, hyp, b, j)

\* Every cell of a row comes from the row above and the cell before it.
LEMMA BelowIs ==
  ASSUME NEW S, NEW hyp \in Seq(S), NEW x, NEW row,
         \A j \in 1 .. Len(hyp) + 1 : row[j] \in Nat
  PROVE  RowOn(Below(row, x, hyp), row, x, hyp, Len(hyp))
<1> DEFINE m == Len(hyp)
<1>1. PICK c : /\ c[0] = <<row[1] + 1>> /\ c[m] = Below(row, x, hyp)
               /\ \A k \in 1 .. m : c[k] = Append(c[k - 1], Cell(row, x, hyp, c[k - 1], k))
  <2>1. PICK c : FillsRow(c, row, x, hyp)
    BY BelowChain
  <2> QED BY <2>1 DEF FillsRow
<1> DEFINE T == { k \in 1 .. m + 1 : RowOn(c[k - 1], row, x, hyp, k - 1) }
<1>2. m \in Nat
  OBVIOUS
<1>3. 1 \in T
  <2>1. row[1] \in Nat
    OBVIOUS
  <2>2. RowOn(c[0], row, x, hyp, 0)
    BY <1>1, <2>1 DEF RowOn
  <2>3. 1 - 1 = 0 /\ 1 \in 1 .. m + 1
    BY <1>2
  <2> QED BY <2>2, <2>3
<1>4. ASSUME NEW n \in 2 .. m + 1, n - 1 \in T PROVE n \in T
  <2> DEFINE k == n - 1
             b == c[k - 1]
             d == c[k]
  <2>1. k \in 1 .. m /\ RowOn(b, row, x, hyp, k - 1)
    BY <1>2, <1>4
  <2>2. b \in Seq(Nat) /\ Len(b) = k /\ b[1] = row[1] + 1
    BY <2>1 DEF RowOn
  <2>3. d = Append(b, Cell(row, x, hyp, b, k))
    BY <1>1, <2>1
  <2>4. Cell(row, x, hyp, b, k) \in Nat
    <3>1. row[k] \in Nat /\ row[k + 1] \in Nat /\ b[k] \in Nat
      BY <1>2, <2>1, <2>2
    <3>2. row[k] + Differ(x, hyp[k]) \in Nat /\ row[k + 1] + 1 \in Nat /\ b[k] + 1 \in Nat
      <4>1. Differ(x, hyp[k]) \in {0, 1}
        BY DifferIs
      <4> HIDE DEF b, k
      <4> QED BY <3>1, <4>1
    <3> DEFINE p == row[k] + Differ(x, hyp[k])
               q == row[k + 1] + 1
               r == b[k] + 1
    <3>3. Cell(row, x, hyp, b, k) = Least({p, q, r})
      BY DEF Cell
    <3> HIDE DEF b, k, p, q, r
    <3>4. p \in Nat /\ q \in Nat /\ r \in Nat
      BY <3>2 DEF p, q, r
    <3>5. Least({p, q, r}) \in {p, q, r}
      BY <3>4, LeastOfThree
    <3> QED BY <3>3, <3>4, <3>5
  <2>5. /\ d \in Seq(Nat) /\ Len(d) = k + 1 /\ d[k + 1] = Cell(row, x, hyp, b, k)
        /\ \A j \in 1 .. k : d[j] = b[j]
    <3> HIDE DEF b, d, k
    <3> QED BY <2>1, <2>2, <2>3, <2>4
  <2>6. ASSUME NEW j \in 1 .. k PROVE d[j + 1] = Cell(row, x, hyp, d, j)
    <3>1. d[j] = b[j]
      BY <2>5
    <3>2. Cell(row, x, hyp, d, j) = Cell(row, x, hyp, b, j)
      BY <3>1 DEF Cell
    <3>3. CASE j = k
      BY <2>5, <3>2, <3>3
    <3>4. CASE j # k
      <4>1. j \in 1 .. k - 1 /\ j + 1 \in 1 .. k
        BY <2>1, <3>4
      <4>2. b[j + 1] = Cell(row, x, hyp, b, j)
        BY <2>1, <4>1 DEF RowOn
      <4> HIDE DEF b, d, k
      <4> QED BY <2>5, <3>2, <4>1, <4>2
    <3> QED BY <3>3, <3>4
  <2>7. d[1] = row[1] + 1
    <3>1. 1 \in 1 .. k
      BY <2>1
    <3> HIDE DEF b, d, k
    <3> QED BY <2>2, <2>5, <3>1
  <2>8. RowOn(d, row, x, hyp, k)
    <3> HIDE DEF b, d, k
    <3> QED BY <2>5, <2>6, <2>7 DEF RowOn
  <2> QED BY <2>8
<1>5. m + 1 \in T
  <2> HIDE DEF T
  <2>1. m + 1 \in Nat /\ m + 1 \in 1 .. m + 1
    BY <1>2
  <2>2. \A n \in 1 .. m + 1 : n \in T
    BY <1>3, <1>4, <2>1, AllReached
  <2> QED BY <2>1, <2>2
<1>6. m + 1 - 1 = m
  BY <1>2
<1> QED BY <1>1, <1>5, <1>6

\* What the costs are, row by row: cell [i + 1][j + 1] is for the first i
\* characters of ref and the first j of hyp.
CostRows(dp, ref, hyp, n) ==
  /\ \A i \in 0 .. n : \A j \in 0 .. Len(hyp) : dp[i + 1][j + 1] \in Nat
  /\ \A j \in 0 .. Len(hyp) : dp[1][j + 1] = j
  /\ \A i \in 1 .. n : dp[i + 1][1] = dp[i][1] + 1
  /\ \A i \in 1 .. n : \A j \in 1 .. Len(hyp) :
       dp[i + 1][j + 1] = Cell(dp[i], ref[i], hyp, dp[i + 1], j)

\* The table of costs, cell by cell.
LEMMA CostsAre ==
  ASSUME NEW S, NEW ref \in Seq(S), NEW hyp \in Seq(S)
  PROVE  CostRows(Costs(ref, hyp), ref, hyp, Len(ref))
<1> DEFINE N == Len(ref)
           m == Len(hyp)
           first == [j \in 1 .. m + 1 |-> j - 1]
           Ok(n, dp) == Len(dp) = n + 1 /\ DOMAIN dp = 1 .. n + 1 /\ dp \in Seq({ dp[i] : i \in 1 .. n + 1 })
                        /\ CostRows(dp, ref, hyp, n)
<1>1. PICK c : /\ c[0] = <<first>> /\ c[N] = Costs(ref, hyp)
               /\ \A k \in 1 .. N : c[k] = Append(c[k - 1], Below(c[k - 1][Len(c[k - 1])], ref[k], hyp))
  BY RowsChain
<1> DEFINE T == { k \in 1 .. N + 1 : Ok(k - 1, c[k - 1]) }
<1>2. m \in Nat /\ N \in Nat
  OBVIOUS
<1>3. 1 \in T
  <2>1. \A j \in 0 .. m : first[j + 1] = j
    BY <1>2
  <2>2. c[0] = <<first>> /\ c[0][1] = first /\ Len(c[0]) = 1 /\ DOMAIN c[0] = 1 .. 1
    BY <1>1
  <2> HIDE DEF first
  <2>3. CostRows(c[0], ref, hyp, 0)
    BY <1>2, <2>1, <2>2 DEF CostRows
  <2>4. c[0] \in Seq({ c[0][i] : i \in 1 .. 0 + 1 })
    BY <2>2
  <2>5. 1 - 1 = 0 /\ 1 \in 1 .. N + 1 /\ 0 + 1 = 1
    BY <1>2
  <2> QED BY <2>2, <2>3, <2>4, <2>5
<1>4. ASSUME NEW n \in 2 .. N + 1, n - 1 \in T PROVE n \in T
  <2> DEFINE k == n - 1
             a == c[k - 1]
             d == c[k]
             b == Below(a[k], ref[k], hyp)
             A == { a[i] : i \in 1 .. k }
             B == { d[i] : i \in 1 .. k + 1 }
  <2>1. k \in 1 .. N /\ Ok(k - 1, a) /\ (k - 1) + 1 = k
    BY <1>2, <1>4
  <2>2. Len(a) = k /\ a \in Seq(A) /\ CostRows(a, ref, hyp, k - 1)
    <3> HIDE DEF a, k
    <3> QED BY <2>1
  <2>3. d = Append(a, b)
    BY <1>1, <2>1, <2>2
  <2>4. Len(d) = k + 1 /\ DOMAIN d = 1 .. k + 1 /\ d[k + 1] = b /\ \A i \in 1 .. k : d[i] = a[i]
    <3> HIDE DEF a, b, d, k, A
    <3> QED BY <2>1, <2>2, <2>3
  <2>5. d \in Seq(B)
    <3>1. d = [i \in 1 .. k + 1 |-> d[i]]
      <4> HIDE DEF a, b, k, d, A
      <4>1. a \in Seq(A \cup {b})
        BY <2>2
      <4>2. d \in Seq(A \cup {b})
        BY <2>3, <4>1
      <4> QED BY <2>4, <4>2
    <3> HIDE DEF d, k, a, b
    <3>2. k + 1 \in Nat
      BY <2>1
    <3>3. d \in [1 .. k + 1 -> B]
      BY <3>1
    <3> HIDE DEF B
    <3> QED BY <3>2, <3>3
  <2>6. \A j \in 1 .. m + 1 : a[k][j] \in Nat
    <3> SUFFICES ASSUME NEW j \in 1 .. m + 1 PROVE a[k][j] \in Nat
      OBVIOUS
    <3>1. k - 1 \in 0 .. k - 1 /\ j - 1 \in 0 .. m /\ (k - 1) + 1 = k /\ (j - 1) + 1 = j
      BY <1>2, <2>1
    <3> HIDE DEF a, k
    <3>2. a[(k - 1) + 1][(j - 1) + 1] \in Nat
      BY <2>2, <3>1 DEF CostRows
    <3> QED BY <3>1, <3>2
  <2>7. RowOn(b, a[k], ref[k], hyp, m)
    <3> HIDE DEF a, k
    <3> QED BY <2>6, BelowIs
  <2>8. CostRows(d, ref, hyp, k)
    <3> HIDE DEF a, b, d, k, A, B
    <3>0. d[k] = a[k]
      BY <2>1, <2>4
    <3>1. ASSUME NEW i \in 0 .. k, NEW j \in 0 .. m PROVE d[i + 1][j + 1] \in Nat
      <4>1. CASE i = k
        <5>1. b \in Seq(Nat) /\ Len(b) = m + 1 /\ j + 1 \in 1 .. m + 1
          BY <1>2, <2>7 DEF RowOn
        <5>2. b[j + 1] \in Nat
          BY <5>1
        <5> QED BY <2>4, <4>1, <5>2
      <4>2. CASE i # k
        <5>1. i \in 0 .. k - 1 /\ i + 1 \in 1 .. k
          BY <2>1, <4>2
        <5> QED BY <2>2, <2>4, <5>1 DEF CostRows
      <4> QED BY <4>1, <4>2
    <3>2. \A j \in 0 .. m : d[1][j + 1] = j
      <4>1. d[1] = a[1]
        BY <2>1, <2>4
      <4> QED BY <2>2, <4>1 DEF CostRows
    <3>3. ASSUME NEW i \in 1 .. k PROVE d[i + 1][1] = d[i][1] + 1
      <4>1. CASE i = k
        BY <2>4, <2>7, <3>0, <4>1 DEF RowOn
      <4>2. CASE i # k
        <5>1. i \in 1 .. k - 1 /\ i + 1 \in 1 .. k
          BY <2>1, <4>2
        <5> QED BY <2>2, <2>4, <5>1 DEF CostRows
      <4> QED BY <4>1, <4>2
    <3>4. ASSUME NEW i \in 1 .. k, NEW j \in 1 .. m
          PROVE  d[i + 1][j + 1] = Cell(d[i], ref[i], hyp, d[i + 1], j)
      <4>1. CASE i = k
        BY <2>4, <2>7, <3>0, <4>1 DEF RowOn
      <4>2. CASE i # k
        <5>1. i \in 1 .. k - 1 /\ i + 1 \in 1 .. k
          BY <2>1, <4>2
        <5> QED BY <2>2, <2>4, <5>1 DEF CostRows
      <4> QED BY <4>1, <4>2
    <3> QED BY <3>1, <3>2, <3>3, <3>4 DEF CostRows
  <2>9. Ok(k, d)
    <3> HIDE DEF a, b, d, k, A
    <3> QED BY <2>4, <2>5, <2>8
  <2> HIDE DEF Ok
  <2> QED BY <2>9
<1>5. N + 1 \in T
  <2> HIDE DEF T
  <2>1. N + 1 \in Nat /\ N + 1 \in 1 .. N + 1
    BY <1>2
  <2>2. \A n \in 1 .. N + 1 : n \in T
    BY <1>3, <1>4, <2>1, AllReached
  <2> QED BY <2>1, <2>2
<1>6. N + 1 - 1 = N
  BY <1>2
<1> QED BY <1>1, <1>5, <1>6

-----------------------------------------------------------------------------
(* The recursion of AlignOps.                                              *)

\* A match or a substitution is as cheap as any; else a deletion is.
Straight(dp, ref, hyp, i, j) ==
  i > 0 /\ j > 0 /\ dp[i + 1][j + 1] = dp[i][j] + Differ(ref[i], hyp[j])

Drops(dp, ref, hyp, i, j) ==
  i > 0 /\ ~Straight(dp, ref, hyp, i, j) /\ dp[i + 1][j + 1] = dp[i][j + 1] + 1

Op(ref, hyp, i, j) == [op |-> IF ref[i] = hyp[j] THEN "match" ELSE "sub", i |-> i, j |-> j]
Del(i) == [op |-> "del", i |-> i, j |-> 0]
Ins(j) == [op |-> "ins", i |-> 0, j |-> j]

\* The operations for the first i and j characters, from those for fewer.
OpsStep(g, dp, ref, hyp, i, j) ==
  CASE i = 0 /\ j = 0 -> <<>>
    [] i > 0 /\ j > 0 /\ dp[i + 1][j + 1] = dp[i][j] + Differ(ref[i], hyp[j]) ->
         Append(g[<<i - 1, j - 1>>],
                [op |-> IF ref[i] = hyp[j] THEN "match" ELSE "sub", i |-> i, j |-> j])
    [] i > 0 /\ ~(j > 0 /\ dp[i + 1][j + 1] = dp[i][j] + Differ(ref[i], hyp[j]))
       /\ dp[i + 1][j + 1] = dp[i][j + 1] + 1 ->
         Append(g[<<i - 1, j>>], [op |-> "del", i |-> i, j |-> 0])
    [] OTHER -> Append(g[<<i, j - 1>>], [op |-> "ins", i |-> 0, j |-> j])

\* The places of the table.
Places(ref, hyp) == (0 .. Len(ref)) \X (0 .. Len(hyp))

\* AlignOps reads its answer off a recursive function.
LEMMA OpsAre ==
  ASSUME NEW ref, NEW hyp
  PROVE  AlignOps(ref, hyp) =
           (CHOOSE g : g = [c \in Places(ref, hyp) |->
                              OpsStep(g, Costs(ref, hyp), ref, hyp, c[1], c[2])])[<<Len(ref), Len(hyp)>>]
BY DEF AlignOps, OpsStep, Places

\* The step taken at i and j: the cheapest way goes through it.
Taken(s, g, dp, ref, hyp, i, j) ==
  \/ i = 0 /\ j = 0 /\ s = <<>>
  \/ /\ i > 0 /\ j > 0 /\ s = Append(g[<<i - 1, j - 1>>], Op(ref, hyp, i, j))
     /\ dp[i + 1][j + 1] = dp[i][j] + Differ(ref[i], hyp[j])
  \/ /\ i > 0 /\ s = Append(g[<<i - 1, j>>], Del(i))
     /\ dp[i + 1][j + 1] = dp[i][j + 1] + 1
  \/ /\ j > 0 /\ s = Append(g[<<i, j - 1>>], Ins(j))
     /\ dp[i + 1][j + 1] = dp[i + 1][j] + 1

\* Each step of AlignOps is one whose cost the table holds.
LEMMA StepTaken ==
  ASSUME NEW ref, NEW hyp, NEW dp, Len(ref) \in Nat, Len(hyp) \in Nat,
         CostRows(dp, ref, hyp, Len(ref)),
         NEW i \in 0 .. Len(ref), NEW j \in 0 .. Len(hyp), NEW g
  PROVE  Taken(OpsStep(g, dp, ref, hyp, i, j), g, dp, ref, hyp, i, j)
<1> DEFINE s == OpsStep(g, dp, ref, hyp, i, j)
<1>0. SUFFICES \/ i = 0 /\ j = 0 /\ s = <<>>
               \/ /\ i > 0 /\ j > 0 /\ s = Append(g[<<i - 1, j - 1>>], Op(ref, hyp, i, j))
                  /\ dp[i + 1][j + 1] = dp[i][j] + Differ(ref[i], hyp[j])
               \/ /\ i > 0 /\ s = Append(g[<<i - 1, j>>], Del(i))
                  /\ dp[i + 1][j + 1] = dp[i][j + 1] + 1
               \/ /\ j > 0 /\ s = Append(g[<<i, j - 1>>], Ins(j))
                  /\ dp[i + 1][j + 1] = dp[i + 1][j] + 1
  <2> HIDE DEF s
  <2> QED BY <1>0 DEF Taken, s
<1>1. CASE i = 0 /\ j = 0
  BY <1>1 DEF OpsStep
<1>2. CASE Straight(dp, ref, hyp, i, j)
  <2>1. s = Append(g[<<i - 1, j - 1>>], Op(ref, hyp, i, j))
    BY <1>2 DEF OpsStep, Straight, Op
  <2> QED BY <1>2, <2>1 DEF Straight
<1>3. CASE Drops(dp, ref, hyp, i, j)
  <2>1. s = Append(g[<<i - 1, j>>], Del(i))
    BY <1>3 DEF OpsStep, Drops, Straight, Del
  <2> QED BY <1>3, <2>1 DEF Drops
<1>4. CASE ~(i = 0 /\ j = 0) /\ ~Straight(dp, ref, hyp, i, j) /\ ~Drops(dp, ref, hyp, i, j)
  <2>1. s = Append(g[<<i, j - 1>>], Ins(j))
    BY <1>4 DEF OpsStep, Drops, Straight, Ins
  <2>2. j > 0
    <3> SUFFICES ASSUME j = 0 PROVE FALSE
      OBVIOUS
    <3>1. i \in 1 .. Len(ref)
      BY <1>4
    <3>2. dp[i + 1][1] = dp[i][1] + 1
      BY <3>1 DEF CostRows
    <3>3. Drops(dp, ref, hyp, i, j)
      BY <1>4, <3>1, <3>2 DEF Drops
    <3> QED BY <1>4, <3>3
  <2>3. dp[i + 1][j + 1] = dp[i + 1][j] + 1
    <3>1. CASE i = 0
      <4>1. j \in 0 .. Len(hyp) /\ j - 1 \in 0 .. Len(hyp) /\ (j - 1) + 1 = j
        BY <2>2
      <4>2. dp[1][j + 1] = j /\ dp[1][(j - 1) + 1] = j - 1
        BY <4>1 DEF CostRows
      <4> QED BY <3>1, <4>1, <4>2
    <3>2. CASE i > 0
      <4>1. i \in 1 .. Len(ref) /\ j \in 1 .. Len(hyp)
        BY <2>2, <3>2
      <4>2. dp[i + 1][j + 1] = Cell(dp[i], ref[i], hyp, dp[i + 1], j)
        BY <4>1 DEF CostRows
      <4> DEFINE a == dp[i][j] + Differ(ref[i], hyp[j])
                 b == dp[i][j + 1] + 1
                 c == dp[i + 1][j] + 1
      <4>3. dp[i][j] \in Nat /\ dp[i][j + 1] \in Nat /\ dp[i + 1][j] \in Nat
        <5>1. /\ i - 1 \in 0 .. Len(ref) /\ i \in 0 .. Len(ref)
              /\ j - 1 \in 0 .. Len(hyp) /\ j \in 0 .. Len(hyp)
              /\ (i - 1) + 1 = i /\ (j - 1) + 1 = j
          BY <4>1
        <5>2. /\ dp[(i - 1) + 1][(j - 1) + 1] \in Nat /\ dp[(i - 1) + 1][j + 1] \in Nat
              /\ dp[i + 1][(j - 1) + 1] \in Nat
          BY <5>1 DEF CostRows
        <5> QED BY <5>1, <5>2
      <4>4. a \in Nat /\ b \in Nat /\ c \in Nat
        <5>1. Differ(ref[i], hyp[j]) \in {0, 1}
          BY DifferIs
        <5> QED BY <4>3, <5>1
      <4>5. Least({a, b, c}) \in {a, b, c}
        <5> HIDE DEF a, b, c
        <5> QED BY <4>4, LeastOfThree
      <4>6. dp[i + 1][j + 1] \in {a, b, c}
        BY <4>2, <4>5 DEF Cell
      <4>7. dp[i + 1][j + 1] # a /\ dp[i + 1][j + 1] # b
        BY <1>4, <4>1 DEF Straight, Drops
      <4> QED BY <4>6, <4>7
    <3> QED BY <3>1, <3>2
  <2> QED BY <2>1, <2>2, <2>3
<1>5. \/ i = 0 /\ j = 0
      \/ Straight(dp, ref, hyp, i, j)
      \/ Drops(dp, ref, hyp, i, j)
      \/ ~(i = 0 /\ j = 0) /\ ~Straight(dp, ref, hyp, i, j) /\ ~Drops(dp, ref, hyp, i, j)
  OBVIOUS
<1> QED BY <1>1, <1>2, <1>3, <1>4, <1>5

\* g and h agree around a place.
SameAround(g, h, i, j) ==
  /\ i > 0 /\ j > 0 => g[<<i - 1, j - 1>>] = h[<<i - 1, j - 1>>]
  /\ i > 0 => g[<<i - 1, j>>] = h[<<i - 1, j>>]
  /\ j > 0 => g[<<i, j - 1>>] = h[<<i, j - 1>>]

\* Two functions that agree around a place have the same step there.
LEMMA SameStep ==
  ASSUME NEW ref, NEW hyp, NEW dp, Len(ref) \in Nat, Len(hyp) \in Nat,
         CostRows(dp, ref, hyp, Len(ref)),
         NEW i \in 0 .. Len(ref), NEW j \in 0 .. Len(hyp), NEW g, NEW h,
         SameAround(g, h, i, j)
  PROVE  OpsStep(g, dp, ref, hyp, i, j) = OpsStep(h, dp, ref, hyp, i, j)
<1>1. CASE i = 0 /\ j = 0
  BY <1>1 DEF OpsStep, SameAround
<1>2. CASE i > 0 /\ j > 0
  BY <1>2 DEF OpsStep, SameAround
<1>3. CASE i = 0 /\ j > 0
  BY <1>3 DEF OpsStep, SameAround
<1>4. CASE i > 0 /\ j = 0
  <2>1. dp[i + 1][j + 1] = dp[i][j + 1] + 1
    <3>1. i \in 1 .. Len(ref)
      BY <1>4
    <3> QED BY <1>4, <3>1 DEF CostRows
  <2> QED BY <1>4, <2>1 DEF OpsStep, SameAround
<1> QED BY <1>1, <1>2, <1>3, <1>4

\* g takes the steps of AlignOps at all places before k.
OpsTo(g, dp, ref, hyp, k) ==
  \A i \in 0 .. Len(ref) : \A j \in 0 .. Len(hyp) :
    i + j < k => g[<<i, j>>] = OpsStep(g, dp, ref, hyp, i, j)

\* The steps up to k determine those at k.
LEMMA OpsFurther ==
  ASSUME NEW ref, NEW hyp, NEW dp, Len(ref) \in Nat, Len(hyp) \in Nat,
         CostRows(dp, ref, hyp, Len(ref)), NEW k \in Nat, NEW h, OpsTo(h, dp, ref, hyp, k)
  PROVE  \E g : OpsTo(g, dp, ref, hyp, k + 1)
<1> DEFINE v(i, j) == IF i + j < k THEN h[<<i, j>>] ELSE OpsStep(h, dp, ref, hyp, i, j)
           g == [c \in Places(ref, hyp) |-> v(c[1], c[2])]
<1>1. \A i \in 0 .. Len(ref) : \A j \in 0 .. Len(hyp) : g[<<i, j>>] = v(i, j)
  BY DEF Places
<1> HIDE DEF g
<1>2. ASSUME NEW i \in 0 .. Len(ref), NEW j \in 0 .. Len(hyp), i + j < k + 1
      PROVE  g[<<i, j>>] = OpsStep(g, dp, ref, hyp, i, j)
  <2>1. OpsStep(g, dp, ref, hyp, i, j) = OpsStep(h, dp, ref, hyp, i, j)
    <3>1. i > 0 /\ j > 0 => g[<<i - 1, j - 1>>] = h[<<i - 1, j - 1>>]
      BY <1>1, <1>2
    <3>2. i > 0 => g[<<i - 1, j>>] = h[<<i - 1, j>>]
      BY <1>1, <1>2
    <3>3. j > 0 => g[<<i, j - 1>>] = h[<<i, j - 1>>]
      BY <1>1, <1>2
    <3>4. SameAround(g, h, i, j)
      BY <3>1, <3>2, <3>3 DEF SameAround
    <3> QED BY <3>4, SameStep
  <2>2. CASE i + j < k
    <3>1. g[<<i, j>>] = h[<<i, j>>]
      BY <1>1, <2>2
    <3> QED BY <2>1, <2>2, <3>1 DEF OpsTo
  <2>3. CASE ~(i + j < k)
    BY <1>1, <2>1, <2>3
  <2> QED BY <2>2, <2>3
<1>3. OpsTo(g, dp, ref, hyp, k + 1)
  BY <1>2 DEF OpsTo
<1> QED BY <1>3

\* The function that AlignOps reads its answer off exists, and has every step
\* it names.
LEMMA OpsExist ==
  ASSUME NEW ref, NEW hyp, NEW dp, Len(ref) \in Nat, Len(hyp) \in Nat,
         CostRows(dp, ref, hyp, Len(ref))
  PROVE  \E g : g = [c \in Places(ref, hyp) |-> OpsStep(g, dp, ref, hyp, c[1], c[2])]
<1> DEFINE K == Len(ref) + Len(hyp) + 2
           T == { k \in 1 .. K : \E g : OpsTo(g, dp, ref, hyp, k - 1) }
<1>0. K \in Nat /\ K >= 1
  OBVIOUS
<1>1. 1 \in T
  <2>1. OpsTo(<<>>, dp, ref, hyp, 0)
    BY DEF OpsTo
  <2>2. 1 - 1 = 0 /\ 1 \in 1 .. K
    BY <1>0
  <2> QED BY <2>1, <2>2
<1>2. ASSUME NEW k \in 2 .. K, k - 1 \in T PROVE k \in T
  <2> HIDE DEF K
  <2>1. PICK h : OpsTo(h, dp, ref, hyp, (k - 1) - 1)
    BY <1>2
  <2>2. (k - 1) - 1 \in Nat /\ ((k - 1) - 1) + 1 = k - 1 /\ k \in 1 .. K
    BY <1>0
  <2>3. \E g : OpsTo(g, dp, ref, hyp, ((k - 1) - 1) + 1)
    <3> HIDE DEF T
    <3> QED BY <2>1, <2>2, OpsFurther
  <2> QED BY <2>2, <2>3
<1>3. K \in T
  <2> HIDE DEF T, K
  <2>1. \A k \in 1 .. K : k \in T
    BY <1>0, <1>1, <1>2, AllReached
  <2> QED BY <1>0, <2>1
<1>4. PICK h : OpsTo(h, dp, ref, hyp, K - 1)
  BY <1>3
<1> DEFINE g == [c \in Places(ref, hyp) |-> h[c]]
<1>5. \A i \in 0 .. Len(ref) : \A j \in 0 .. Len(hyp) : g[<<i, j>>] = h[<<i, j>>]
  BY DEF Places
<1>6. g = [c \in Places(ref, hyp) |-> g[c]]
  OBVIOUS
<1> HIDE DEF g
<1>7. ASSUME NEW i \in 0 .. Len(ref), NEW j \in 0 .. Len(hyp)
      PROVE  g[<<i, j>>] = OpsStep(g, dp, ref, hyp, i, j)
  <2>1. h[<<i, j>>] = OpsStep(h, dp, ref, hyp, i, j)
    <3>1. i + j < K - 1
      OBVIOUS
    <3> HIDE DEF K
    <3> QED BY <1>4, <3>1 DEF OpsTo
  <2>2. OpsStep(g, dp, ref, hyp, i, j) = OpsStep(h, dp, ref, hyp, i, j)
    <3>1. i > 0 /\ j > 0 => g[<<i - 1, j - 1>>] = h[<<i - 1, j - 1>>]
      BY <1>5
    <3>2. i > 0 => g[<<i - 1, j>>] = h[<<i - 1, j>>]
      BY <1>5
    <3>3. j > 0 => g[<<i, j - 1>>] = h[<<i, j - 1>>]
      BY <1>5
    <3>4. SameAround(g, h, i, j)
      BY <3>1, <3>2, <3>3 DEF SameAround
    <3> QED BY <3>4, SameStep
  <2> QED BY <1>5, <2>1, <2>2
<1>8. g = [c \in Places(ref, hyp) |-> OpsStep(g, dp, ref, hyp, c[1], c[2])]
  <2>1. \A c \in Places(ref, hyp) :
          c = <<c[1], c[2]>> /\ c[1] \in 0 .. Len(ref) /\ c[2] \in 0 .. Len(hyp)
    BY DEF Places
  <2>2. \A c \in Places(ref, hyp) : g[c] = OpsStep(g, dp, ref, hyp, c[1], c[2])
    BY <1>7, <2>1
  <2> QED BY <1>6, <2>2
<1> QED BY <1>8

\* What a proof about AlignOps starts from.
Filled(g, ref, hyp) ==
  \A i \in 0 .. Len(ref) : \A j \in 0 .. Len(hyp) :
    g[<<i, j>>] = OpsStep(g, Costs(ref, hyp), ref, hyp, i, j)

\* AlignOps is the last value of a function that takes its steps.
LEMMA AlignFilled ==
  ASSUME NEW S, NEW ref \in Seq(S), NEW hyp \in Seq(S)
  PROVE  \E g : Filled(g, ref, hyp) /\ AlignOps(ref, hyp) = g[<<Len(ref), Len(hyp)>>]
<1> DEFINE dp == Costs(ref, hyp)
           F(g) == g = [c \in Places(ref, hyp) |-> OpsStep(g, dp, ref, hyp, c[1], c[2])]
           f == CHOOSE g : F(g)
<1>1. CostRows(dp, ref, hyp, Len(ref)) /\ Len(ref) \in Nat /\ Len(hyp) \in Nat
  BY CostsAre
<1>2. AlignOps(ref, hyp) = f[<<Len(ref), Len(hyp)>>]
  BY OpsAre
<1> HIDE DEF dp
<1>3. \E g : F(g)
  BY <1>1, OpsExist
<1>4. F(f)
  <2> HIDE DEF F
  <2> QED BY <1>3
<1> HIDE DEF f
<1>5. \A i \in 0 .. Len(ref) : \A j \in 0 .. Len(hyp) :
        f[<<i, j>>] = OpsStep(f, dp, ref, hyp, i, j)
  BY <1>4 DEF Places
<1> QED BY <1>2, <1>5 DEF Filled, dp

-----------------------------------------------------------------------------
(* Edit scripts.                                                           *)

\* One operation leads from the first i0 and j0 characters to i and j.
EditStep(o, ref, hyp, i0, j0, i, j) ==
  \/ i = i0 + 1 /\ j = j0 + 1 /\ o = Op(ref, hyp, i, j)
  \/ i = i0 + 1 /\ j = j0 /\ o = Del(i)
  \/ i = i0 /\ j = j0 + 1 /\ o = Ins(j)

\* s leads from the start of both texts to i and j, by way of a and b: every
\* character on the way is used once, in order.
Leads(s, a, b, ref, hyp, i, j) ==
  /\ s = [k \in 1 .. Len(s) |-> s[k]] /\ Len(s) \in Nat
  /\ \A k \in 0 .. Len(s) : a[k] \in 0 .. Len(ref) /\ b[k] \in 0 .. Len(hyp)
  /\ a[0] = 0 /\ b[0] = 0 /\ a[Len(s)] = i /\ b[Len(s)] = j
  /\ \A k \in 1 .. Len(s) : EditStep(s[k], ref, hyp, a[k - 1], b[k - 1], a[k], b[k])

\* The operations that cost.
Missed(s, n) == { k \in 1 .. n : s[k].op # "match" }
Misses(s, n) == Cardinality(Missed(s, n))

\* One more operation is one more miss, unless it is a match.
LEMMA MissesNext ==
  ASSUME NEW s, NEW n \in Nat
  PROVE  /\ IsFiniteSet(Missed(s, n)) /\ Misses(s, n) \in Nat
         /\ Misses(s, n + 1) = Misses(s, n) + (IF s[n + 1].op = "match" THEN 0 ELSE 1)
<1> DEFINE A == Missed(s, n)
           B == Missed(s, n + 1)
<1>1. IsFiniteSet(1 .. n) /\ A \in SUBSET (1 .. n)
  BY FS_Interval DEF Missed
<1>2. IsFiniteSet(A)
  BY <1>1, FS_Subset
<1>3. Cardinality(A) \in Nat
  BY <1>2, FS_CardinalityType
<1>4. CASE s[n + 1].op = "match"
  <2>1. B = A
    BY <1>4 DEF Missed
  <2> HIDE DEF A, B
  <2> QED BY <1>2, <1>3, <1>4, <2>1 DEF Misses, A, B
<1>5. CASE s[n + 1].op # "match"
  <2>1. B = A \cup {n + 1} /\ n + 1 \notin A
    BY <1>5 DEF Missed
  <2>2. Cardinality(B) = Cardinality(A) + 1
    <3> HIDE DEF A, B
    <3> QED BY <1>2, <2>1, FS_AddElement
  <2> QED BY <1>2, <1>3, <1>5, <2>2 DEF Misses
<1> QED BY <1>4, <1>5

\* Scripts that start alike miss alike.
LEMMA MissesSame ==
  ASSUME NEW s, NEW t, NEW n \in Nat, \A k \in 1 .. n : s[k] = t[k]
  PROVE  Misses(s, n) = Misses(t, n)
BY DEF Misses, Missed

\* The empty script misses nothing.
LEMMA NoMisses ==
  ASSUME NEW s
  PROVE  Misses(s, 0) = 0
BY FS_EmptySet DEF Misses, Missed

\* An edit script followed by one more operation.
LEMMA LeadsOn ==
  ASSUME NEW ref, NEW hyp, NEW s, NEW i0, NEW j0, NEW a, NEW b,
         Leads(s, a, b, ref, hyp, i0, j0),
         NEW i \in 0 .. Len(ref), NEW j \in 0 .. Len(hyp), NEW o,
         EditStep(o, ref, hyp, i0, j0, i, j)
  PROVE  /\ \E c, d : Leads(Append(s, o), c, d, ref, hyp, i, j)
         /\ Misses(Append(s, o), Len(Append(s, o))) =
              Misses(s, Len(s)) + (IF o.op = "match" THEN 0 ELSE 1)
<1> DEFINE n == Len(s)
           t == Append(s, o)
           c == [k \in 0 .. n + 1 |-> IF k = n + 1 THEN i ELSE a[k]]
           d == [k \in 0 .. n + 1 |-> IF k = n + 1 THEN j ELSE b[k]]
<1>1. n \in Nat /\ s = [k \in 1 .. n |-> s[k]]
  BY DEF Leads
<1>2. s \in Seq({ s[k] : k \in 1 .. n } \cup {o})
  <2>1. \A k \in 1 .. n : s[k] \in { s[m] : m \in 1 .. n } \cup {o}
    OBVIOUS
  <2> DEFINE A == { s[m] : m \in 1 .. n } \cup {o}
  <2> HIDE DEF A, n
  <2>2. \A k \in 1 .. n : s[k] \in A
    BY <2>1 DEF A
  <2>3. s \in [1 .. n -> A]
    BY <1>1, <2>2
  <2>4. s \in Seq(A)
    BY <1>1, <2>3
  <2> QED BY <2>4 DEF A
<1>3. Len(t) = n + 1 /\ t = [k \in 1 .. n + 1 |-> t[k]] /\ t[n + 1] = o
      /\ \A k \in 1 .. n : t[k] = s[k]
  <2> DEFINE A == { s[m] : m \in 1 .. n } \cup {o}
  <2>1. s \in Seq(A) /\ o \in A /\ n = Len(s)
    BY <1>2
  <2> HIDE DEF A, n
  <2>2. t \in Seq(A) /\ Len(t) = n + 1
    BY <2>1
  <2>3. t[n + 1] = o /\ \A k \in 1 .. n : t[k] = s[k]
    BY <2>1
  <2> HIDE DEF t
  <2>4. t = [k \in 1 .. n + 1 |-> t[k]]
    BY <2>2
  <2> QED BY <2>2, <2>3, <2>4
<1>4. /\ c[n + 1] = i /\ d[n + 1] = j
      /\ \A k \in 0 .. n : c[k] = a[k] /\ d[k] = b[k]
  BY <1>1
<1> HIDE DEF c, d, t, n
<1>5. /\ \A k \in 0 .. n : a[k] \in 0 .. Len(ref) /\ b[k] \in 0 .. Len(hyp)
      /\ a[0] = 0 /\ b[0] = 0 /\ a[n] = i0 /\ b[n] = j0
      /\ \A k \in 1 .. n : EditStep(s[k], ref, hyp, a[k - 1], b[k - 1], a[k], b[k])
  BY DEF Leads, n
<1>6. ASSUME NEW k \in 1 .. n + 1
      PROVE  EditStep(t[k], ref, hyp, c[k - 1], d[k - 1], c[k], d[k])
  <2>1. CASE k = n + 1
    <3>1. c[k - 1] = i0 /\ d[k - 1] = j0 /\ c[k] = i /\ d[k] = j /\ t[k] = o
      BY <1>1, <1>3, <1>4, <1>5, <2>1
    <3> QED BY <3>1
  <2>2. CASE k # n + 1
    <3>1. k \in 1 .. n /\ k - 1 \in 0 .. n /\ k \in 0 .. n
      BY <1>1, <2>2
    <3>2. t[k] = s[k] /\ c[k - 1] = a[k - 1] /\ c[k] = a[k] /\ d[k - 1] = b[k - 1] /\ d[k] = b[k]
      BY <1>3, <1>4, <3>1
    <3> QED BY <1>5, <3>1, <3>2
  <2> QED BY <2>1, <2>2
<1>7. ASSUME NEW k \in 0 .. n + 1
      PROVE  c[k] \in 0 .. Len(ref) /\ d[k] \in 0 .. Len(hyp)
  <2>1. CASE k = n + 1
    BY <1>4, <2>1
  <2>2. CASE k # n + 1
    <3>1. k \in 0 .. n
      BY <1>1, <2>2
    <3> QED BY <1>4, <1>5, <3>1
  <2> QED BY <2>1, <2>2
<1>8. Leads(t, c, d, ref, hyp, i, j)
  <2>1. c[0] = 0 /\ d[0] = 0 /\ n + 1 \in Nat
    BY <1>1, <1>4, <1>5
  <2> QED BY <1>3, <1>4, <1>6, <1>7, <2>1 DEF Leads
<1>9. Misses(t, n + 1) = Misses(s, n) + (IF o.op = "match" THEN 0 ELSE 1)
  <2>1. Misses(t, n) = Misses(s, n)
    BY <1>1, <1>3, MissesSame
  <2>2. Misses(t, n + 1) = Misses(t, n) + (IF t[n + 1].op = "match" THEN 0 ELSE 1)
    BY <1>1, MissesNext
  <2> QED BY <1>3, <2>1, <2>2
<1> QED BY <1>3, <1>8, <1>9 DEF t, n

\* The operations of AlignOps for i and j: an edit script, at the cost in the
\* table.
Cheap(s, dp, ref, hyp, i, j) ==
  /\ \E a, b : Leads(s, a, b, ref, hyp, i, j)
  /\ Misses(s, Len(s)) = dp[i + 1][j + 1]

\* A step of AlignOps keeps the script at the cost in the table.
LEMMA StepCheap ==
  ASSUME NEW ref, NEW hyp, NEW dp, Len(ref) \in Nat, Len(hyp) \in Nat,
         CostRows(dp, ref, hyp, Len(ref)), NEW g,
         NEW i \in 0 .. Len(ref), NEW j \in 0 .. Len(hyp),
         i > 0 /\ j > 0 => Cheap(g[<<i - 1, j - 1>>], dp, ref, hyp, i - 1, j - 1),
         i > 0 => Cheap(g[<<i - 1, j>>], dp, ref, hyp, i - 1, j),
         j > 0 => Cheap(g[<<i, j - 1>>], dp, ref, hyp, i, j - 1)
  PROVE  Cheap(OpsStep(g, dp, ref, hyp, i, j), dp, ref, hyp, i, j)
<1> DEFINE s == OpsStep(g, dp, ref, hyp, i, j)
<1>0. \/ i = 0 /\ j = 0 /\ s = <<>>
      \/ /\ i > 0 /\ j > 0 /\ s = Append(g[<<i - 1, j - 1>>], Op(ref, hyp, i, j))
         /\ dp[i + 1][j + 1] = dp[i][j] + Differ(ref[i], hyp[j])
      \/ /\ i > 0 /\ s = Append(g[<<i - 1, j>>], Del(i))
         /\ dp[i + 1][j + 1] = dp[i][j + 1] + 1
      \/ /\ j > 0 /\ s = Append(g[<<i, j - 1>>], Ins(j))
         /\ dp[i + 1][j + 1] = dp[i + 1][j] + 1
  <2>1. Taken(s, g, dp, ref, hyp, i, j)
    BY StepTaken
  <2> HIDE DEF s
  <2> QED BY <2>1 DEF Taken
<1> HIDE DEF s
<1>1. CASE i = 0 /\ j = 0 /\ s = <<>>
  <2> DEFINE z == [k \in {0} |-> 0]
  <2>1. z[0] = 0
    OBVIOUS
  <2> HIDE DEF z
  <2>2. Leads(<<>>, z, z, ref, hyp, 0, 0)
    <3>1. Len(<<>>) = 0 /\ <<>> = [k \in 1 .. 0 |-> <<>>[k]]
      OBVIOUS
    <3>2. \A k \in 0 .. 0 : k = 0
      OBVIOUS
    <3>3. 0 \in 0 .. Len(ref) /\ 0 \in 0 .. Len(hyp) /\ 0 \in Nat /\ 1 .. 0 = {}
      OBVIOUS
    <3> QED BY <2>1, <3>1, <3>2, <3>3 DEF Leads
  <2>3. Misses(<<>>, Len(<<>>)) = 0
    <3>1. Len(<<>>) = 0
      OBVIOUS
    <3> QED BY <3>1, NoMisses
  <2>4. dp[0 + 1][0 + 1] = 0
    BY DEF CostRows
  <2> QED BY <1>1, <2>2, <2>3, <2>4 DEF Cheap, s
<1>2. CASE /\ i > 0 /\ j > 0 /\ s = Append(g[<<i - 1, j - 1>>], Op(ref, hyp, i, j))
           /\ dp[i + 1][j + 1] = dp[i][j] + Differ(ref[i], hyp[j])
  <2> DEFINE t == g[<<i - 1, j - 1>>]
             o == Op(ref, hyp, i, j)
  <2> HIDE DEF t, o
  <2>1. PICK a, b : Leads(t, a, b, ref, hyp, i - 1, j - 1)
    BY <1>2 DEF Cheap, t
  <2>2. Misses(t, Len(t)) = dp[i][j]
    <3>1. (i - 1) + 1 = i /\ (j - 1) + 1 = j
      OBVIOUS
    <3> QED BY <1>2, <3>1 DEF Cheap, t
  <2>3. EditStep(o, ref, hyp, i - 1, j - 1, i, j)
    BY DEF EditStep, o
  <2>4. (IF o.op = "match" THEN 0 ELSE 1) = Differ(ref[i], hyp[j])
    BY DEF o, Op, Differ
  <2>5. /\ \E c, d : Leads(Append(t, o), c, d, ref, hyp, i, j)
        /\ Misses(Append(t, o), Len(Append(t, o))) =
             Misses(t, Len(t)) + (IF o.op = "match" THEN 0 ELSE 1)
    BY <2>1, <2>3, LeadsOn
  <2> QED BY <1>2, <2>2, <2>4, <2>5 DEF Cheap, s, t, o
<1>3. CASE /\ i > 0 /\ s = Append(g[<<i - 1, j>>], Del(i))
           /\ dp[i + 1][j + 1] = dp[i][j + 1] + 1
  <2> DEFINE t == g[<<i - 1, j>>]
             o == Del(i)
  <2> HIDE DEF t, o
  <2>1. PICK a, b : Leads(t, a, b, ref, hyp, i - 1, j)
    BY <1>3 DEF Cheap, t
  <2>2. Misses(t, Len(t)) = dp[i][j + 1]
    <3>1. (i - 1) + 1 = i
      OBVIOUS
    <3> QED BY <1>3, <3>1 DEF Cheap, t
  <2>3. EditStep(o, ref, hyp, i - 1, j, i, j)
    BY DEF EditStep, o
  <2>4. o.op # "match"
    BY DEF o, Del
  <2>5. /\ \E c, d : Leads(Append(t, o), c, d, ref, hyp, i, j)
        /\ Misses(Append(t, o), Len(Append(t, o))) =
             Misses(t, Len(t)) + (IF o.op = "match" THEN 0 ELSE 1)
    BY <2>1, <2>3, LeadsOn
  <2> QED BY <1>3, <2>2, <2>4, <2>5 DEF Cheap, s, t, o
<1>4. CASE /\ j > 0 /\ s = Append(g[<<i, j - 1>>], Ins(j))
           /\ dp[i + 1][j + 1] = dp[i + 1][j] + 1
  <2> DEFINE t == g[<<i, j - 1>>]
             o == Ins(j)
  <2> HIDE DEF t, o
  <2>1. PICK a, b : Leads(t, a, b, ref, hyp, i, j - 1)
    BY <1>4 DEF Cheap, t
  <2>2. Misses(t, Len(t)) = dp[i + 1][j]
    <3>1. (j - 1) + 1 = j
      OBVIOUS
    <3> QED BY <1>4, <3>1 DEF Cheap, t
  <2>3. EditStep(o, ref, hyp, i, j - 1, i, j)
    BY DEF EditStep, o
  <2>4. o.op # "match"
    BY DEF o, Ins
  <2>5. /\ \E c, d : Leads(Append(t, o), c, d, ref, hyp, i, j)
        /\ Misses(Append(t, o), Len(Append(t, o))) =
             Misses(t, Len(t)) + (IF o.op = "match" THEN 0 ELSE 1)
    BY <2>1, <2>3, LeadsOn
  <2> QED BY <1>4, <2>2, <2>4, <2>5 DEF Cheap, s, t, o
<1> QED BY <1>0, <1>1, <1>2, <1>3, <1>4 DEF s

\* The operations of AlignOps cost what the last cell says.
LEMMA AlignCheap ==
  ASSUME NEW S, NEW ref \in Seq(S), NEW hyp \in Seq(S)
  PROVE  Cheap(AlignOps(ref, hyp), Costs(ref, hyp), ref, hyp, Len(ref), Len(hyp))
<1> DEFINE dp == Costs(ref, hyp)
           K == Len(ref) + Len(hyp) + 1
<1>1. CostRows(dp, ref, hyp, Len(ref)) /\ Len(ref) \in Nat /\ Len(hyp) \in Nat
  BY CostsAre
<1>2. PICK g : Filled(g, ref, hyp) /\ AlignOps(ref, hyp) = g[<<Len(ref), Len(hyp)>>]
  BY AlignFilled
<1>3. \A i \in 0 .. Len(ref) : \A j \in 0 .. Len(hyp) :
        g[<<i, j>>] = OpsStep(g, dp, ref, hyp, i, j)
  BY <1>2 DEF Filled
<1> HIDE DEF dp
<1> DEFINE C(i, j) == Cheap(g[<<i, j>>], dp, ref, hyp, i, j)
           T == { k \in 1 .. K : \A i \in 0 .. Len(ref) : \A j \in 0 .. Len(hyp) :
                                   i + j < k => C(i, j) }
<1>4. ASSUME NEW i \in 0 .. Len(ref), NEW j \in 0 .. Len(hyp),
             i > 0 /\ j > 0 => C(i - 1, j - 1), i > 0 => C(i - 1, j), j > 0 => C(i, j - 1)
      PROVE  C(i, j)
  BY <1>1, <1>3, <1>4, StepCheap
<1> HIDE DEF C
<1>0. K \in Nat /\ K >= 1
  BY <1>1
<1>5. 1 \in T
  <2>1. ASSUME NEW i \in 0 .. Len(ref), NEW j \in 0 .. Len(hyp), i + j < 1 PROVE C(i, j)
    <3>1. ~(i > 0) /\ ~(j > 0)
      BY <1>1, <2>1
    <3> QED BY <1>4, <3>1
  <2> QED BY <1>0, <2>1
<1>6. ASSUME NEW k \in 2 .. K, k - 1 \in T PROVE k \in T
  <2>1. ASSUME NEW i \in 0 .. Len(ref), NEW j \in 0 .. Len(hyp), i + j < k - 1 PROVE C(i, j)
    BY <1>6, <2>1
  <2>2. k \in 1 .. K
    BY <1>0
  <2>3. ASSUME NEW i \in 0 .. Len(ref), NEW j \in 0 .. Len(hyp), i + j < k PROVE C(i, j)
    <3> HIDE DEF T, K
    <3>1. i > 0 /\ j > 0 => C(i - 1, j - 1)
      <4> SUFFICES ASSUME i > 0, j > 0 PROVE C(i - 1, j - 1)
        OBVIOUS
      <4>1. i - 1 \in 0 .. Len(ref) /\ j - 1 \in 0 .. Len(hyp) /\ (i - 1) + (j - 1) < k - 1
        BY <1>1, <2>3
      <4> QED BY <2>1, <4>1
    <3>2. i > 0 => C(i - 1, j)
      <4> SUFFICES ASSUME i > 0 PROVE C(i - 1, j)
        OBVIOUS
      <4>1. i - 1 \in 0 .. Len(ref) /\ (i - 1) + j < k - 1
        BY <1>1, <2>3
      <4> QED BY <2>1, <4>1
    <3>3. j > 0 => C(i, j - 1)
      <4> SUFFICES ASSUME j > 0 PROVE C(i, j - 1)
        OBVIOUS
      <4>1. j - 1 \in 0 .. Len(hyp) /\ i + (j - 1) < k - 1
        BY <1>1, <2>3
      <4> QED BY <2>1, <4>1
    <3> QED BY <1>4, <3>1, <3>2, <3>3
  <2> QED BY <2>2, <2>3
<1>7. K \in T
  <2> HIDE DEF T, K
  <2>1. \A k \in 1 .. K : k \in T
    BY <1>0, <1>5, <1>6, AllReached
  <2> QED BY <1>0, <2>1
<1>8. C(Len(ref), Len(hyp))
  BY <1>1, <1>7
<1> QED BY <1>2, <1>8 DEF C, dp

-----------------------------------------------------------------------------
(* No edit script is cheaper than the table says.                          *)

\* No operation raises the table by more than it costs.
LEMMA CostsBound ==
  ASSUME NEW ref, NEW hyp, NEW dp, Len(ref) \in Nat, Len(hyp) \in Nat,
         CostRows(dp, ref, hyp, Len(ref)), NEW o,
         NEW i0 \in 0 .. Len(ref), NEW j0 \in 0 .. Len(hyp),
         NEW i \in 0 .. Len(ref), NEW j \in 0 .. Len(hyp), EditStep(o, ref, hyp, i0, j0, i, j)
  PROVE  dp[i + 1][j + 1] <= dp[i0 + 1][j0 + 1] + (IF o.op = "match" THEN 0 ELSE 1)
<1>1. \A p \in 0 .. Len(ref) : \A q \in 0 .. Len(hyp) : dp[p + 1][q + 1] \in Nat
  BY DEF CostRows
<1>2. ASSUME i \in 1 .. Len(ref), j \in 1 .. Len(hyp)
      PROVE  /\ dp[i][j] \in Nat /\ dp[i][j + 1] \in Nat /\ dp[i + 1][j] \in Nat
             /\ dp[i + 1][j + 1] \in Nat
             /\ dp[i + 1][j + 1] <= dp[i][j] + Differ(ref[i], hyp[j])
             /\ dp[i + 1][j + 1] <= dp[i][j + 1] + 1
             /\ dp[i + 1][j + 1] <= dp[i + 1][j] + 1
  <2>1. /\ i - 1 \in 0 .. Len(ref) /\ j - 1 \in 0 .. Len(hyp)
        /\ (i - 1) + 1 = i /\ (j - 1) + 1 = j
    BY <1>2
  <2>2. dp[i][j] \in Nat /\ dp[i][j + 1] \in Nat /\ dp[i + 1][j] \in Nat
    <3>1. /\ dp[(i - 1) + 1][(j - 1) + 1] \in Nat /\ dp[(i - 1) + 1][j + 1] \in Nat
          /\ dp[i + 1][(j - 1) + 1] \in Nat
      BY <1>1, <2>1
    <3> QED BY <2>1, <3>1
  <2> DEFINE a == dp[i][j] + Differ(ref[i], hyp[j])
             b == dp[i][j + 1] + 1
             c == dp[i + 1][j] + 1
  <2>3. a \in Nat /\ b \in Nat /\ c \in Nat
    <3>1. Differ(ref[i], hyp[j]) \in {0, 1}
      BY DifferIs
    <3>2. \A x \in Nat : \A y \in {0, 1} : x + y \in Nat /\ x + 1 \in Nat
      OBVIOUS
    <3> QED BY <2>2, <3>1, <3>2
  <2>4. dp[i + 1][j + 1] = Least({a, b, c})
    BY <1>2 DEF CostRows, Cell
  <2>5. Least({a, b, c}) <= a /\ Least({a, b, c}) <= b /\ Least({a, b, c}) <= c
    <3> HIDE DEF a, b, c
    <3> QED BY <2>3, LeastOfThree
  <2> QED BY <1>1, <2>2, <2>4, <2>5
<1>3. CASE i = i0 + 1 /\ j = j0 + 1 /\ o = Op(ref, hyp, i, j)
  <2>1. i \in 1 .. Len(ref) /\ j \in 1 .. Len(hyp) /\ i0 + 1 = i /\ j0 + 1 = j
    BY <1>3
  <2>2. (IF o.op = "match" THEN 0 ELSE 1) = Differ(ref[i], hyp[j])
    BY <1>3 DEF Op, Differ
  <2> QED BY <1>2, <2>1, <2>2
<1>4. CASE i = i0 + 1 /\ j = j0 /\ o = Del(i)
  <2>1. i \in 1 .. Len(ref) /\ i0 + 1 = i /\ o.op # "match"
    BY <1>4 DEF Del
  <2>2. CASE j = 0
    <3>1. dp[i + 1][1] = dp[i][1] + 1
      BY <2>1 DEF CostRows
    <3>2. dp[i0 + 1][0 + 1] \in Nat
      BY <1>1
    <3> QED BY <1>4, <2>1, <2>2, <3>1, <3>2
  <2>3. CASE j > 0
    BY <1>2, <1>4, <2>1, <2>3
  <2> QED BY <2>2, <2>3
<1>5. CASE i = i0 /\ j = j0 + 1 /\ o = Ins(j)
  <2>1. j \in 1 .. Len(hyp) /\ j0 + 1 = j /\ o.op # "match"
    BY <1>5 DEF Ins
  <2>2. CASE i = 0
    <3>1. dp[1][j + 1] = j /\ dp[1][j0 + 1] = j0
      BY DEF CostRows
    <3> QED BY <1>5, <2>1, <2>2, <3>1
  <2>3. CASE i > 0
    BY <1>2, <1>5, <2>1, <2>3
  <2> QED BY <2>2, <2>3
<1> QED BY <1>3, <1>4, <1>5 DEF EditStep

\* An edit script costs at least what the table says where it ends.
LEMMA NoCheaper ==
  ASSUME NEW ref, NEW hyp, NEW dp, Len(ref) \in Nat, Len(hyp) \in Nat,
         CostRows(dp, ref, hyp, Len(ref)), NEW s, NEW a, NEW b, NEW i, NEW j,
         Leads(s, a, b, ref, hyp, i, j)
  PROVE  dp[i + 1][j + 1] <= Misses(s, Len(s))
<1> DEFINE n == Len(s)
           T == { k \in 1 .. n + 1 : dp[a[k - 1] + 1][b[k - 1] + 1] <= Misses(s, k - 1) }
<1>1. /\ n \in Nat
      /\ \A k \in 0 .. n : a[k] \in 0 .. Len(ref) /\ b[k] \in 0 .. Len(hyp)
      /\ a[0] = 0 /\ b[0] = 0 /\ a[n] = i /\ b[n] = j
      /\ \A k \in 1 .. n : EditStep(s[k], ref, hyp, a[k - 1], b[k - 1], a[k], b[k])
  BY DEF Leads
<1> HIDE DEF n
<1>2. 1 \in T
  <2>1. dp[0 + 1][0 + 1] = 0 /\ Misses(s, 0) = 0
    BY NoMisses DEF CostRows
  <2>2. 1 - 1 = 0 /\ 1 \in 1 .. n + 1 /\ 0 + 1 = 1 /\ 0 <= 0
    BY <1>1
  <2> QED BY <1>1, <2>1, <2>2
<1>3. ASSUME NEW m \in 2 .. n + 1, m - 1 \in T PROVE m \in T
  <2> DEFINE k == m - 1
             x == IF s[k].op = "match" THEN 0 ELSE 1
  <2>1. k \in 1 .. n /\ k \in 0 .. n /\ k - 1 \in 0 .. n /\ k - 1 \in Nat /\ (k - 1) + 1 = k
        /\ m \in 1 .. n + 1
    BY <1>1
  <2>2. dp[a[k - 1] + 1][b[k - 1] + 1] <= Misses(s, k - 1)
    BY <1>3
  <2> HIDE DEF k, T
  <2>3. EditStep(s[k], ref, hyp, a[k - 1], b[k - 1], a[k], b[k])
    BY <1>1, <2>1
  <2>4. /\ a[k] \in 0 .. Len(ref) /\ b[k] \in 0 .. Len(hyp)
        /\ a[k - 1] \in 0 .. Len(ref) /\ b[k - 1] \in 0 .. Len(hyp)
    BY <1>1, <2>1
  <2>5. dp[a[k] + 1][b[k] + 1] <= dp[a[k - 1] + 1][b[k - 1] + 1] + x
    BY <2>3, <2>4, CostsBound
  <2>6. Misses(s, k - 1) \in Nat /\ Misses(s, k) = Misses(s, k - 1) + x
    <3>1. Misses(s, (k - 1) + 1) = Misses(s, k - 1) + (IF s[(k - 1) + 1].op = "match" THEN 0 ELSE 1)
          /\ Misses(s, k - 1) \in Nat
      BY <2>1, MissesNext
    <3> QED BY <2>1, <3>1
  <2>7. dp[a[k] + 1][b[k] + 1] \in Nat /\ dp[a[k - 1] + 1][b[k - 1] + 1] \in Nat
    BY <2>4 DEF CostRows
  <2>8. x \in Nat
    OBVIOUS
  <2> HIDE DEF x
  <2>9. dp[a[k] + 1][b[k] + 1] <= Misses(s, k)
    BY <2>2, <2>5, <2>6, <2>7, <2>8
  <2> QED BY <2>1, <2>9 DEF T, k
<1>4. n + 1 \in T
  <2> HIDE DEF T
  <2>1. n + 1 \in Nat /\ n + 1 \in 1 .. n + 1
    BY <1>1
  <2>2. \A m \in 1 .. n + 1 : m \in T
    BY <1>2, <1>3, <2>1, AllReached
  <2> QED BY <2>1, <2>2
<1>5. n + 1 - 1 = n
  BY <1>1
<1> QED BY <1>1, <1>4, <1>5 DEF n

\* s edits ref into hyp.
Edits(s, ref, hyp) == \E a, b : Leads(s, a, b, ref, hyp, Len(ref), Len(hyp))

\* What align_ops returns edits the golden text into the transcribed one, using
\* every character of both once and in order, and no other edit script has fewer
\* operations that are not a match.
THEOREM AlignCheapest ==
  ASSUME NEW S, NEW ref \in Seq(S), NEW hyp \in Seq(S)
  PROVE  /\ Edits(AlignOps(ref, hyp), ref, hyp)
         /\ \A s : Edits(s, ref, hyp) =>
              Misses(AlignOps(ref, hyp), Len(AlignOps(ref, hyp))) <= Misses(s, Len(s))
<1> DEFINE ops == AlignOps(ref, hyp)
           dp == Costs(ref, hyp)
<1>1. CostRows(dp, ref, hyp, Len(ref)) /\ Len(ref) \in Nat /\ Len(hyp) \in Nat
  BY CostsAre
<1>2. Cheap(ops, dp, ref, hyp, Len(ref), Len(hyp))
  BY AlignCheap
<1> HIDE DEF ops, dp
<1>3. ASSUME NEW s, Edits(s, ref, hyp) PROVE Misses(ops, Len(ops)) <= Misses(s, Len(s))
  <2>1. PICK a, b : Leads(s, a, b, ref, hyp, Len(ref), Len(hyp))
    BY <1>3 DEF Edits
  <2>2. dp[Len(ref) + 1][Len(hyp) + 1] <= Misses(s, Len(s))
    BY <1>1, <2>1, NoCheaper
  <2> QED BY <1>2, <2>2 DEF Cheap
<1> QED BY <1>2, <1>3 DEF Cheap, Edits, ops

-----------------------------------------------------------------------------
(* What that means for spans.                                              *)

\* Against the empty text every token is lost.
LEMMA NothingToProject ==
  ASSUME NEW S, NEW ref \in Seq(S), NEW first, NEW last
  PROVE  ProjectSpan(AlignOps(ref, <<>>), <<>>, first, last) = <<>>
<1> DEFINE ops == AlignOps(ref, <<>>)
<1>1. <<>> \in Seq(S) /\ Len(<<>>) = 0
  OBVIOUS
<1>2. Edits(ops, ref, <<>>)
  BY <1>1, AlignCheapest
<1> HIDE DEF ops
<1>3. PICK a, b : Leads(ops, a, b, ref, <<>>, Len(ref), Len(<<>>))
  BY <1>2 DEF Edits
<1>4. ASSUME NEW k \in DOMAIN ops PROVE ops[k].j = 0
  <2>1. k \in 1 .. Len(ops) /\ k \in 0 .. Len(ops) /\ k - 1 \in 0 .. Len(ops)
    BY <1>3 DEF Leads
  <2>2. b[k] \in 0 .. 0 /\ b[k - 1] \in 0 .. 0
    BY <1>1, <1>3, <2>1 DEF Leads
  <2>3. EditStep(ops[k], ref, <<>>, a[k - 1], b[k - 1], a[k], b[k])
    BY <1>3, <2>1 DEF Leads
  <2>4. ops[k] = Del(a[k])
    BY <2>2, <2>3 DEF EditStep
  <2> QED BY <2>4 DEF Del
<1>5. Touched(ops, first, last) \in SUBSET DOMAIN ops
  BY DEF Touched
<1>6. { ops[k].j : k \in Touched(ops, first, last) } \ {0} = {}
  BY <1>4, <1>5
<1> QED BY <1>6 DEF ProjectSpan, ops

\* What an edit script says of its k-th operation.
Along(s, a, b, ref, hyp, n) ==
  /\ n \in Nat /\ Len(s) = n /\ DOMAIN s = 1 .. n
  /\ \A k \in 0 .. n : a[k] \in 0 .. Len(ref) /\ b[k] \in 0 .. Len(hyp)
  /\ a[0] = 0 /\ b[0] = 0 /\ a[n] = Len(ref) /\ b[n] = Len(hyp)
  /\ \A k \in 1 .. n : EditStep(s[k], ref, hyp, a[k - 1], b[k - 1], a[k], b[k])

\* AlignOps is an edit script from the start of both texts to their ends.
LEMMA AlignAlong ==
  ASSUME NEW S, NEW ref \in Seq(S), NEW hyp \in Seq(S)
  PROVE  \E a, b, n : Along(AlignOps(ref, hyp), a, b, ref, hyp, n)
<1> DEFINE ops == AlignOps(ref, hyp)
<1>1. Edits(ops, ref, hyp)
  BY AlignCheapest
<1> HIDE DEF ops
<1>2. PICK a, b : Leads(ops, a, b, ref, hyp, Len(ref), Len(hyp))
  BY <1>1 DEF Edits
<1>3. DOMAIN ops = 1 .. Len(ops)
  BY <1>2 DEF Leads
<1>4. Along(ops, a, b, ref, hyp, Len(ops))
  BY <1>2, <1>3 DEF Along, Leads
<1> QED BY <1>4 DEF ops

\* The script of a text against itself: a match for every character.
LEMMA SelfEdits ==
  ASSUME NEW S, NEW ref \in Seq(S)
  PROVE  \E s : Edits(s, ref, ref) /\ Misses(s, Len(s)) = 0
<1> DEFINE n == Len(ref)
           s == [k \in 1 .. n |-> Op(ref, ref, k, k)]
           a == [k \in 0 .. n |-> k]
<1>1. n \in Nat
  OBVIOUS
<1>2. Len(s) = n /\ \A k \in 1 .. n : s[k] = Op(ref, ref, k, k)
  BY <1>1
<1>3. \A k \in 0 .. n : a[k] = k
  OBVIOUS
<1>4. s = [k \in 1 .. n |-> s[k]]
  OBVIOUS
<1> HIDE DEF s, a
<1>5. ASSUME NEW k \in 1 .. n
      PROVE  EditStep(s[k], ref, ref, a[k - 1], a[k - 1], a[k], a[k])
  <2>1. a[k - 1] = k - 1 /\ a[k] = k /\ (k - 1) + 1 = k
    BY <1>1, <1>3
  <2> QED BY <1>2, <2>1 DEF EditStep
<1>6. Leads(s, a, a, ref, ref, n, n)
  <2>1. \A k \in 0 .. n : a[k] \in 0 .. Len(ref)
    BY <1>3
  <2>2. a[0] = 0 /\ a[n] = n
    BY <1>1, <1>3
  <2> QED BY <1>1, <1>2, <1>4, <1>5, <2>1, <2>2 DEF Leads
<1>7. Misses(s, n) = 0
  <2>1. \A k \in 1 .. n : s[k].op = "match"
    <3> SUFFICES ASSUME NEW k \in 1 .. n PROVE s[k].op = "match"
      OBVIOUS
    <3>1. s[k] = Op(ref, ref, k, k)
      BY <1>2
    <3> QED BY <3>1 DEF Op
  <2>2. Missed(s, n) = {}
    BY <2>1 DEF Missed
  <2> QED BY <2>2, FS_EmptySet DEF Misses
<1>8. Edits(s, ref, ref)
  BY <1>6 DEF Edits
<1> QED BY <1>2, <1>7, <1>8

\* A text against itself is aligned character by character.
LEMMA SelfAligned ==
  ASSUME NEW S, NEW ref \in Seq(S)
  PROVE  LET ops == AlignOps(ref, ref)
         IN DOMAIN ops = 1 .. Len(ref) /\ \A k \in 1 .. Len(ref) : ops[k] = Op(ref, ref, k, k)
<1> DEFINE ops == AlignOps(ref, ref)
<1>1. PICK a, b, n : Along(ops, a, b, ref, ref, n)
  BY AlignAlong
<1>2. Misses(ops, Len(ops)) <= 0
  <2>1. PICK s : Edits(s, ref, ref) /\ Misses(s, Len(s)) = 0
    BY SelfEdits
  <2>2. Misses(ops, Len(ops)) <= Misses(s, Len(s))
    BY <2>1, AlignCheapest
  <2> HIDE DEF ops
  <2> QED BY <2>1, <2>2
<1> HIDE DEF ops
<1>3. /\ n \in Nat /\ Len(ops) = n /\ DOMAIN ops = 1 .. n
      /\ \A k \in 0 .. n : a[k] \in 0 .. Len(ref) /\ b[k] \in 0 .. Len(ref)
      /\ a[0] = 0 /\ b[0] = 0 /\ a[n] = Len(ref) /\ b[n] = Len(ref)
      /\ \A k \in 1 .. n : EditStep(ops[k], ref, ref, a[k - 1], b[k - 1], a[k], b[k])
  BY <1>1 DEF Along
<1>4. Missed(ops, n) = {}
  <2>1. IsFiniteSet(Missed(ops, n)) /\ Misses(ops, n) \in Nat
    BY <1>3, MissesNext
  <2>2. Cardinality(Missed(ops, n)) = 0
    BY <1>2, <1>3, <2>1 DEF Misses
  <2> QED BY <2>1, <2>2, FS_EmptySet
<1>5. ASSUME NEW k \in 1 .. n
      PROVE  a[k] = a[k - 1] + 1 /\ b[k] = b[k - 1] + 1 /\ ops[k] = Op(ref, ref, a[k], b[k])
  <2>1. ops[k].op = "match"
    BY <1>4 DEF Missed
  <2>2. ops[k] # Del(a[k]) /\ ops[k] # Ins(b[k])
    BY <2>1 DEF Del, Ins
  <2> QED BY <1>3, <2>2 DEF EditStep
<1> DEFINE T == { k \in 1 .. n + 1 : a[k - 1] = k - 1 /\ b[k - 1] = k - 1 }
<1>6. 1 \in T
  BY <1>3
<1>7. ASSUME NEW k \in 2 .. n + 1, k - 1 \in T PROVE k \in T
  <2>1. k - 1 \in 1 .. n /\ k \in 1 .. n + 1
    BY <1>3
  <2>2. a[(k - 1) - 1] = (k - 1) - 1 /\ b[(k - 1) - 1] = (k - 1) - 1
    BY <1>7
  <2>3. a[k - 1] = a[(k - 1) - 1] + 1 /\ b[k - 1] = b[(k - 1) - 1] + 1
    BY <1>5, <2>1
  <2> QED BY <2>1, <2>2, <2>3
<1>8. \A k \in 1 .. n + 1 : k \in T
  <2> HIDE DEF T
  <2>1. n + 1 \in Nat
    BY <1>3
  <2> QED BY <1>6, <1>7, <2>1, AllReached
<1>9. \A k \in 0 .. n : a[k] = k /\ b[k] = k
  <2> SUFFICES ASSUME NEW k \in 0 .. n PROVE a[k] = k /\ b[k] = k
    OBVIOUS
  <2>1. k + 1 \in 1 .. n + 1 /\ (k + 1) - 1 = k
    BY <1>3
  <2>2. a[(k + 1) - 1] = (k + 1) - 1 /\ b[(k + 1) - 1] = (k + 1) - 1
    BY <1>8, <2>1
  <2> QED BY <2>1, <2>2
<1>10. n = Len(ref)
  BY <1>3, <1>9
<1>11. ASSUME NEW k \in 1 .. n PROVE ops[k] = Op(ref, ref, k, k)
  <2>1. k \in 0 .. n
    OBVIOUS
  <2>2. a[k] = k /\ b[k] = k
    BY <1>9, <2>1
  <2> QED BY <1>5, <2>2
<1> QED BY <1>3, <1>10, <1>11 DEF ops

\* The ends of an interval.
LEMMA EndsOfInterval ==
  ASSUME NEW x \in Int, NEW y \in Int, x <= y
  PROVE  Least(x .. y) = x /\ Greatest(x .. y) = y
<1>1. x \in x .. y /\ y \in x .. y /\ \A k \in x .. y : x <= k /\ k <= y
  OBVIOUS
<1>2. \E n \in x .. y : \A k \in x .. y : n <= k
  BY <1>1
<1>3. \E n \in x .. y : \A k \in x .. y : k <= n
  BY <1>1
<1>4. Least(x .. y) \in x .. y /\ \A k \in x .. y : Least(x .. y) <= k
  BY <1>2 DEF Least
<1>5. Greatest(x .. y) \in x .. y /\ \A k \in x .. y : k <= Greatest(x .. y)
  BY <1>3 DEF Greatest
<1> QED BY <1>1, <1>4, <1>5

\* The operations on the characters of a span.
Inner(ops, first, last) == { k \in DOMAIN ops : ops[k].i \in first .. last }

\* When an operation counts for a span.
LEMMA TouchedIs ==
  ASSUME NEW ops, NEW first, NEW last
  PROVE  LET I == Inner(ops, first, last)
         IN \A k : k \in Touched(ops, first, last) <=>
              /\ k \in DOMAIN ops /\ I # {}
              /\ \/ k \in Least(I) .. Greatest(I)
                 \/ k < Least(I) /\ \A m \in k .. Least(I) - 1 : ops[m].op = "ins"
                 \/ k > Greatest(I) /\ \A m \in Greatest(I) + 1 .. k : ops[m].op = "ins"
BY DEF Touched, Inner

\* A turn that was transcribed as it was said: _project_span gives every token
\* the words of its own place, though other alignments of the text with itself
\* exist.
THEOREM SpanOfItself ==
  ASSUME NEW S, NEW ref \in Seq(S), NEW first \in 1 .. Len(ref), NEW last \in first .. Len(ref)
  PROVE  ProjectSpan(AlignOps(ref, ref), ref, first, last) = SubSeq(ref, first, last)
<1> DEFINE ops == AlignOps(ref, ref)
           n == Len(ref)
           I == first .. last
<1>1. n \in Nat /\ DOMAIN ops = 1 .. n /\ \A k \in 1 .. n : ops[k] = Op(ref, ref, k, k)
  BY SelfAligned
<1> HIDE DEF ops, n
<1>2. \A k \in 1 .. n : ops[k].i = k /\ ops[k].j = k /\ ops[k].op # "ins"
  BY <1>1 DEF Op
<1>3. /\ first \in Int /\ last \in Int /\ first <= last /\ \A k \in I : k \in 1 .. n
      /\ first \in I
  BY <1>1 DEF n
<1> HIDE DEF I
<1>4. Least(I) = first /\ Greatest(I) = last
  BY <1>3, EndsOfInterval DEF I
<1>5. Inner(ops, first, last) = I
  <2>1. { k \in DOMAIN ops : ops[k].i \in I } = I
    BY <1>1, <1>2, <1>3
  <2> QED BY <2>1 DEF Inner, I
<1>6. Touched(ops, first, last) = I
  <2>1. ASSUME NEW k \in 1 .. n, k < first PROVE \E m \in k .. first - 1 : ops[m].op # "ins"
    <3>1. k \in k .. first - 1
      BY <1>3, <2>1
    <3> QED BY <1>2, <3>1
  <2>2. ASSUME NEW k \in 1 .. n, k > last PROVE \E m \in last + 1 .. k : ops[m].op # "ins"
    <3>1. k \in last + 1 .. k
      BY <1>3, <2>2
    <3> QED BY <1>2, <3>1
  <2>3. ASSUME NEW k \in 1 .. n, k \in Touched(ops, first, last) PROVE k \in I
    <3>1. \/ k \in first .. last
          \/ k < first /\ \A m \in k .. first - 1 : ops[m].op = "ins"
          \/ k > last /\ \A m \in last + 1 .. k : ops[m].op = "ins"
      BY <1>4, <1>5, <2>3, TouchedIs DEF I
    <3> QED BY <2>1, <2>2, <3>1 DEF I
  <2>4. ASSUME NEW k \in I PROVE k \in Touched(ops, first, last)
    BY <1>1, <1>3, <1>4, <1>5, <2>4, TouchedIs DEF I
  <2>5. Touched(ops, first, last) \in SUBSET (1 .. n)
    BY <1>1, TouchedIs
  <2> QED BY <2>3, <2>4, <2>5
<1>7. { ops[k].j : k \in Touched(ops, first, last) } \ {0} = I
  <2>1. { ops[k].j : k \in I } = I
    BY <1>2, <1>3
  <2>2. 0 \notin I
    BY <1>1, <1>3
  <2> QED BY <1>6, <2>1, <2>2
<1>8. ProjectSpan(ops, ref, first, last) = SubSeq(ref, first, last)
  BY <1>3, <1>4, <1>7 DEF ProjectSpan
<1> QED BY <1>8 DEF ops

\* Along an edit script the places in both texts only grow.
LEMMA AlongGrows ==
  ASSUME NEW s, NEW a, NEW b, NEW ref, NEW hyp, NEW n, Along(s, a, b, ref, hyp, n),
         Len(ref) \in Nat, Len(hyp) \in Nat, NEW p \in 0 .. n
  PROVE  \A k \in p .. n : a[p] <= a[k] /\ b[p] <= b[k]
<1>1. /\ n \in Nat /\ \A k \in 0 .. n : a[k] \in 0 .. Len(ref) /\ b[k] \in 0 .. Len(hyp)
      /\ \A k \in 1 .. n : EditStep(s[k], ref, hyp, a[k - 1], b[k - 1], a[k], b[k])
  BY DEF Along
<1>2. \A k \in 0 .. n : a[k] \in Nat /\ b[k] \in Nat
  BY <1>1
<1> DEFINE N == n - p + 1
           T == { m \in 1 .. N : a[p] <= a[p + m - 1] /\ b[p] <= b[p + m - 1] }
<1>3. N \in Nat /\ 1 \in 1 .. N
  BY <1>1
<1>4. 1 \in T
  <2>1. p + 1 - 1 = p /\ a[p] <= a[p] /\ b[p] <= b[p]
    BY <1>2
  <2> QED BY <1>3, <2>1
<1>5. ASSUME NEW m \in 2 .. N, m - 1 \in T PROVE m \in T
  <2> DEFINE k == p + m - 1
  <2>1. k \in 1 .. n /\ k \in 0 .. n /\ k - 1 \in 0 .. n /\ p + (m - 1) - 1 = k - 1
        /\ m \in 1 .. N
    BY <1>1
  <2>2. a[p] <= a[k - 1] /\ b[p] <= b[k - 1]
    BY <1>5, <2>1
  <2> HIDE DEF k, T, N
  <2>3. a[k - 1] <= a[k] /\ b[k - 1] <= b[k]
    <3>1. a[k] \in {a[k - 1], a[k - 1] + 1} /\ b[k] \in {b[k - 1], b[k - 1] + 1}
      BY <1>1, <2>1 DEF EditStep
    <3> QED BY <1>2, <2>1, <3>1
  <2>4. a[p] <= a[k] /\ b[p] <= b[k]
    BY <1>2, <2>1, <2>2, <2>3
  <2> QED BY <2>1, <2>4 DEF T, k
<1>6. \A m \in 1 .. N : m \in T
  <2> HIDE DEF T, N
  <2> QED BY <1>3, <1>4, <1>5, AllReached
<1>7. ASSUME NEW k \in p .. n PROVE a[p] <= a[k] /\ b[p] <= b[k]
  <2>1. k - p + 1 \in 1 .. N /\ p + (k - p + 1) - 1 = k
    BY <1>1
  <2>2. k - p + 1 \in T
    BY <1>6, <2>1
  <2> QED BY <2>1, <2>2
<1> QED BY <1>7

\* c counts from 0 to N in n steps.
CountsTo(c, n, N) ==
  /\ n \in Nat /\ N \in Nat /\ c[0] = 0 /\ c[n] = N
  /\ \A k \in 0 .. n : c[k] \in 0 .. N
  /\ \A k \in 1 .. n : c[k] \in {c[k - 1], c[k - 1] + 1}

\* A count passes every number on its way.
LEMMA CountPasses ==
  ASSUME NEW c, NEW n, NEW N, CountsTo(c, n, N)
  PROVE  \A r \in 1 .. N : \E k \in 1 .. n : c[k] = r /\ c[k - 1] = r - 1
<1> SUFFICES ASSUME NEW r \in 1 .. N PROVE \E k \in 1 .. n : c[k] = r /\ c[k - 1] = r - 1
  OBVIOUS
<1>0. /\ n \in Nat /\ N \in Nat /\ c[0] = 0 /\ c[n] = N
      /\ \A k \in 0 .. n : c[k] \in 0 .. N
      /\ \A k \in 1 .. n : c[k] \in {c[k - 1], c[k - 1] + 1}
  BY DEF CountsTo
<1> DEFINE T == { k \in 0 .. n : c[k] >= r }
<1>1. T \in SUBSET Nat /\ n \in T
  BY <1>0
<1>2. PICK k \in T : \A m \in T : k <= m
  <2> HIDE DEF T
  <2> QED BY <1>1, LeastNatural
<1>3. k \in 1 .. n /\ k - 1 \in 0 .. n /\ c[k] >= r
  BY <1>0, <1>2
<1>4. ~(c[k - 1] >= r)
  <2>1. k - 1 \notin T
    BY <1>2, <1>3
  <2> QED BY <1>3, <2>1
<1>5. c[k] \in 0 .. N /\ c[k - 1] \in 0 .. N /\ c[k] \in {c[k - 1], c[k - 1] + 1}
  BY <1>0, <1>2, <1>3
<1>6. c[k] = r /\ c[k - 1] = r - 1
  BY <1>3, <1>4, <1>5
<1> QED BY <1>3, <1>6

\* Every character of either text has its operation.
LEMMA AlongReaches ==
  ASSUME NEW s, NEW a, NEW b, NEW ref, NEW hyp, NEW n, Along(s, a, b, ref, hyp, n),
         Len(ref) \in Nat, Len(hyp) \in Nat
  PROVE  /\ \A r \in 1 .. Len(ref) : \E k \in 1 .. n : a[k] = r /\ a[k - 1] = r - 1
         /\ \A r \in 1 .. Len(hyp) : \E k \in 1 .. n : b[k] = r /\ b[k - 1] = r - 1
<1>1. CountsTo(a, n, Len(ref)) /\ CountsTo(b, n, Len(hyp))
  BY DEF Along, EditStep, CountsTo
<1> QED BY <1>1, CountPasses

\* The extremes of a set of places of a script.
LEMMA EndsOfPlaces ==
  ASSUME NEW n \in Nat, NEW I \in SUBSET (1 .. n), I # {}
  PROVE  /\ Least(I) \in I /\ \A k \in I : Least(I) <= k
         /\ Greatest(I) \in I /\ \A k \in I : k <= Greatest(I)
<1>1. I \in SUBSET Nat
  OBVIOUS
<1>2. \E x \in I : \A k \in I : x <= k
  BY <1>1, LeastNatural
<1>3. \E x \in I : \A k \in I : k <= x
  <2>1. Max(I) \in I /\ \A k \in I : Max(I) >= k
    BY MaxIs
  <2>2. \A k \in I : k <= Max(I)
    BY <1>1, <2>1
  <2> QED BY <2>1, <2>2
<1> QED BY <1>2, <1>3 DEF Least, Greatest

\* Past the operation of a character on one side of a span, nothing is touched.
LEMMA TouchedStaysBefore ==
  ASSUME NEW s, NEW n \in Nat, DOMAIN s = 1 .. n, NEW first, NEW last, NEW p \in 1 .. n,
         s[p].op # "ins", \A k \in Inner(s, first, last) : k < p
  PROVE  \A k \in Touched(s, first, last) : k < p
<1> SUFFICES ASSUME NEW k \in Touched(s, first, last), ~(k < p) PROVE FALSE
  OBVIOUS
<1> DEFINE I == Inner(s, first, last)
<1>1. /\ k \in 1 .. n /\ I # {}
      /\ \/ k \in Least(I) .. Greatest(I)
         \/ k < Least(I) /\ \A m \in k .. Least(I) - 1 : s[m].op = "ins"
         \/ k > Greatest(I) /\ \A m \in Greatest(I) + 1 .. k : s[m].op = "ins"
  BY TouchedIs
<1>2. I \in SUBSET (1 .. n)
  BY DEF Inner
<1>3. /\ Least(I) \in 1 .. n /\ Greatest(I) \in 1 .. n /\ Least(I) < p /\ Greatest(I) < p
  <2>1. Least(I) \in I /\ Greatest(I) \in I
    <3> HIDE DEF I
    <3> QED BY <1>1, <1>2, EndsOfPlaces
  <2> QED BY <1>2, <2>1
<1> HIDE DEF I
<1>4. k > Greatest(I) /\ \A m \in Greatest(I) + 1 .. k : s[m].op = "ins"
  BY <1>1, <1>3
<1>5. p \in Greatest(I) + 1 .. k
  BY <1>1, <1>3
<1> QED BY <1>4, <1>5

\* The same on the other side.
LEMMA TouchedStaysBehind ==
  ASSUME NEW s, NEW n \in Nat, DOMAIN s = 1 .. n, NEW first, NEW last, NEW p \in 1 .. n,
         s[p].op # "ins", \A k \in Inner(s, first, last) : p < k
  PROVE  \A k \in Touched(s, first, last) : p < k
<1> SUFFICES ASSUME NEW k \in Touched(s, first, last), ~(p < k) PROVE FALSE
  OBVIOUS
<1> DEFINE I == Inner(s, first, last)
<1>1. /\ k \in 1 .. n /\ I # {}
      /\ \/ k \in Least(I) .. Greatest(I)
         \/ k < Least(I) /\ \A m \in k .. Least(I) - 1 : s[m].op = "ins"
         \/ k > Greatest(I) /\ \A m \in Greatest(I) + 1 .. k : s[m].op = "ins"
  BY TouchedIs
<1>2. I \in SUBSET (1 .. n)
  BY DEF Inner
<1>3. /\ Least(I) \in 1 .. n /\ Greatest(I) \in 1 .. n /\ p < Least(I) /\ p < Greatest(I)
  <2>1. Least(I) \in I /\ Greatest(I) \in I
    <3> HIDE DEF I
    <3> QED BY <1>1, <1>2, EndsOfPlaces
  <2> QED BY <1>2, <2>1
<1> HIDE DEF I
<1>4. k < Least(I) /\ \A m \in k .. Least(I) - 1 : s[m].op = "ins"
  BY <1>1, <1>3
<1>5. p \in k .. Least(I) - 1
  BY <1>1, <1>3
<1> QED BY <1>4, <1>5

\* The places of the transcript that _project_span puts into a span.
PlacesHeard(ref, hyp, first, last) ==
  LET ops == AlignOps(ref, hyp)
  IN { ops[k].j : k \in Touched(ops, first, last) } \ {0}

\* No part of the transcript counts for two tokens that a character stands
\* between, however much was inserted or lost around them, and what is heard for
\* the first comes before what is heard for the second.
THEOREM SpansApart ==
  ASSUME NEW S, NEW ref \in Seq(S), NEW hyp \in Seq(S),
         NEW first1 \in 1 .. Len(ref), NEW last1 \in first1 .. Len(ref),
         NEW first2 \in 1 .. Len(ref), NEW last2 \in first2 .. Len(ref), last1 + 1 < first2
  PROVE  \A x \in PlacesHeard(ref, hyp, first1, last1) : \A y \in PlacesHeard(ref, hyp, first2, last2) :
           x < y
<1> DEFINE ops == AlignOps(ref, hyp)
           r == last1 + 1
<1>1. PICK a, b, n : Along(ops, a, b, ref, hyp, n)
  BY AlignAlong
<1>2. Len(ref) \in Nat /\ Len(hyp) \in Nat /\ r \in 1 .. Len(ref)
      /\ last1 \in Int /\ first1 \in Int /\ first2 \in Int /\ last2 \in Int
      /\ first1 >= 1 /\ first2 >= 1 /\ last1 < r /\ r < first2
  OBVIOUS
<1> HIDE DEF ops, r
<1>3. /\ n \in Nat /\ DOMAIN ops = 1 .. n
      /\ \A k \in 0 .. n : a[k] \in 0 .. Len(ref) /\ b[k] \in 0 .. Len(hyp)
      /\ \A k \in 1 .. n : EditStep(ops[k], ref, hyp, a[k - 1], b[k - 1], a[k], b[k])
  BY <1>1 DEF Along
<1>4. PICK p \in 1 .. n : a[p] = r /\ a[p - 1] = r - 1
  BY <1>1, <1>2, AlongReaches
<1>5. ops[p].op # "ins"
  <2>1. p \in 0 .. n /\ p - 1 \in 0 .. n
    BY <1>3
  <2>4. a[p] # a[p - 1]
    BY <1>2, <1>4
  <2>5. EditStep(ops[p], ref, hyp, a[p - 1], b[p - 1], a[p], b[p])
    BY <1>3
  <2>2. ops[p] = Op(ref, hyp, a[p], b[p]) \/ ops[p] = Del(a[p])
    BY <2>4, <2>5 DEF EditStep
  <2>3. Op(ref, hyp, a[p], b[p]).op # "ins" /\ Del(a[p]).op # "ins"
    BY DEF Op, Del
  <2> QED BY <2>2, <2>3
<1>6. ASSUME NEW k \in 1 .. n, ops[k].i # 0 PROVE ops[k].i = a[k]
  BY <1>3, <1>6 DEF EditStep, Op, Del, Ins
<1>7. ASSUME NEW k \in 1 .. n, ops[k].j # 0 PROVE ops[k].j = b[k] /\ b[k] = b[k - 1] + 1
  BY <1>3, <1>7 DEF EditStep, Op, Del, Ins
<1>8. \A k \in Inner(ops, first1, last1) : k < p
  <2> SUFFICES ASSUME NEW k \in Inner(ops, first1, last1), ~(k < p) PROVE FALSE
    OBVIOUS
  <2>1. k \in 1 .. n /\ ops[k].i \in first1 .. last1
    BY <1>3 DEF Inner
  <2>2. a[k] \in first1 .. last1
    BY <1>2, <1>6, <2>1
  <2>3. p \in 0 .. n /\ k \in p .. n
    BY <1>3, <2>1
  <2>4. a[p] <= a[k]
    BY <1>1, <1>2, <2>3, AlongGrows
  <2> QED BY <1>2, <1>4, <2>2, <2>4
<1>9. \A k \in Inner(ops, first2, last2) : p < k
  <2> SUFFICES ASSUME NEW k \in Inner(ops, first2, last2), ~(p < k) PROVE FALSE
    OBVIOUS
  <2>1. k \in 1 .. n /\ ops[k].i \in first2 .. last2
    BY <1>3 DEF Inner
  <2>2. a[k] \in first2 .. last2
    BY <1>2, <1>6, <2>1
  <2>3. k \in 0 .. n /\ p \in k .. n
    BY <1>3, <2>1
  <2>4. a[k] <= a[p]
    BY <1>1, <1>2, <2>3, AlongGrows
  <2> QED BY <1>2, <1>4, <2>2, <2>4
<1>10. ASSUME NEW x \in PlacesHeard(ref, hyp, first1, last1), NEW y \in PlacesHeard(ref, hyp, first2, last2)
       PROVE  x < y
  <2>1. PICK k \in Touched(ops, first1, last1) : x = ops[k].j /\ x # 0
    BY DEF PlacesHeard, ops
  <2>2. PICK m \in Touched(ops, first2, last2) : y = ops[m].j /\ y # 0
    BY DEF PlacesHeard, ops
  <2>3. k < p /\ p < m
    BY <1>3, <1>5, <1>8, <1>9, TouchedStaysBefore, TouchedStaysBehind
  <2>4. k \in 1 .. n /\ m \in 1 .. n
    BY <1>3, TouchedIs
  <2>5. x = b[k] /\ y = b[m] /\ b[m] = b[m - 1] + 1
    BY <1>7, <2>1, <2>2, <2>4
  <2>6. k \in 0 .. n /\ m - 1 \in k .. n /\ m - 1 \in 0 .. n
    BY <1>3, <2>3, <2>4
  <2>7. b[k] <= b[m - 1]
    BY <1>1, <1>2, <2>6, AlongGrows
  <2>8. b[k] \in Nat /\ b[m - 1] \in Nat
    BY <1>3, <2>6
  <2> QED BY <2>5, <2>7, <2>8
<1> QED BY <1>10

\* Character i of ref is put opposite character j of hyp; the two texts start
\* together and end together.
Opposite(ops, ref, hyp, i, j) ==
  \/ <<i, j>> \in {<<0, 0>>, <<Len(ref) + 1, Len(hyp) + 1>>}
  \/ i # 0 /\ j # 0 /\ \E k \in DOMAIN ops : ops[k].i = i /\ ops[k].j = j

\* Past two such characters the script stands behind both ...
LEMMA OppositeBehind ==
  ASSUME NEW s, NEW a, NEW b, NEW ref, NEW hyp, NEW n, Along(s, a, b, ref, hyp, n),
         Len(ref) \in Nat, Len(hyp) \in Nat, NEW i \in 0 .. Len(ref), NEW j \in Nat,
         Opposite(s, ref, hyp, i, j)
  PROVE  \E p \in 0 .. n : a[p] = i /\ b[p] = j /\ (p = 0 \/ s[p].op # "ins")
<1>1. /\ n \in Nat /\ DOMAIN s = 1 .. n /\ a[0] = 0 /\ b[0] = 0
      /\ \A k \in 1 .. n : EditStep(s[k], ref, hyp, a[k - 1], b[k - 1], a[k], b[k])
  BY DEF Along
<1>2. CASE i = 0 /\ j = 0
  <2>1. 0 \in 0 .. n
    BY <1>1
  <2> QED BY <1>1, <1>2, <2>1
<1>3. CASE i # 0 /\ j # 0 /\ \E k \in DOMAIN s : s[k].i = i /\ s[k].j = j
  <2>1. PICK k \in 1 .. n : s[k].i = i /\ s[k].j = j
    BY <1>1, <1>3
  <2>2. s[k] = Op(ref, hyp, a[k], b[k])
    BY <1>1, <1>3, <2>1 DEF EditStep, Del, Ins
  <2>3. a[k] = i /\ b[k] = j /\ s[k].op # "ins"
    BY <2>1, <2>2 DEF Op
  <2>4. k \in 0 .. n
    OBVIOUS
  <2> QED BY <2>3, <2>4
<1>4. i # Len(ref) + 1
  OBVIOUS
<1> QED BY <1>2, <1>3, <1>4 DEF Opposite

\* The script stands in front of the places i + 1 and j + 1.
StandsBefore(s, a, b, n, i, j) ==
  \E q \in 0 .. n : a[q] = i /\ b[q] = j /\ (q = n \/ s[q + 1].op # "ins")

\* ... and before them in front of both.
LEMMA OppositeBefore ==
  ASSUME NEW s, NEW a, NEW b, NEW ref, NEW hyp, NEW n, Along(s, a, b, ref, hyp, n),
         Len(ref) \in Nat, Len(hyp) \in Nat, NEW i \in 0 .. Len(ref), NEW j \in Nat,
         NEW i1, NEW j1, i1 = i + 1, j1 = j + 1, Opposite(s, ref, hyp, i1, j1)
  PROVE  StandsBefore(s, a, b, n, i, j)
<1>1. /\ n \in Nat /\ DOMAIN s = 1 .. n /\ a[n] = Len(ref) /\ b[n] = Len(hyp)
      /\ \A k \in 0 .. n : a[k] \in 0 .. Len(ref) /\ b[k] \in 0 .. Len(hyp)
      /\ \A k \in 1 .. n : EditStep(s[k], ref, hyp, a[k - 1], b[k - 1], a[k], b[k])
  BY DEF Along
<1>2. CASE i = Len(ref) /\ j = Len(hyp)
  <2>1. n \in 0 .. n
    BY <1>1
  <2> QED BY <1>1, <1>2, <2>1 DEF StandsBefore
<1>3. CASE \E k \in DOMAIN s : s[k].i = i + 1 /\ s[k].j = j + 1
  <2>1. PICK k \in 1 .. n : s[k].i = i + 1 /\ s[k].j = j + 1
    BY <1>1, <1>3
  <2>2. i + 1 # 0 /\ j + 1 # 0
    OBVIOUS
  <2>3. s[k] # Del(a[k]) /\ s[k] # Ins(b[k])
    BY <2>1, <2>2 DEF Del, Ins
  <2>4. s[k] = Op(ref, hyp, a[k], b[k]) /\ a[k] = a[k - 1] + 1 /\ b[k] = b[k - 1] + 1
    BY <1>1, <2>3 DEF EditStep
  <2>5. a[k] = i + 1 /\ b[k] = j + 1 /\ s[k].op # "ins"
    BY <2>1, <2>4 DEF Op
  <2>6. k - 1 \in 0 .. n /\ (k - 1) + 1 = k
    BY <1>1
  <2>7. a[k - 1] = i /\ b[k - 1] = j
    <3>1. a[k - 1] \in Int /\ b[k - 1] \in Int
      BY <1>1, <2>6
    <3> QED BY <2>4, <2>5, <3>1
  <2> QED BY <2>5, <2>6, <2>7 DEF StandsBefore
<1>4. i + 1 # 0 /\ (i + 1 = Len(ref) + 1 => i = Len(ref)) /\ (j + 1 = Len(hyp) + 1 => j = Len(hyp))
  OBVIOUS
<1> QED BY <1>2, <1>3, <1>4 DEF Opposite, StandsBefore

\* Characters j + 1 to e of the transcript stand between the two neighbours that a
\* span has in the golden text.
HeardBetween(ops, ref, hyp, first, last, j, e) ==
  Opposite(ops, ref, hyp, first - 1, j) /\ Opposite(ops, ref, hyp, last + 1, e + 1)

\* Wherever the neighbours of a span were put opposite something, _project_span
\* gives the span all that was heard between them and nothing else: no insertion
\* at its edges is lost, and none is taken from beyond a neighbour.
THEOREM SpanBetweenNeighbours ==
  ASSUME NEW S, NEW ref \in Seq(S), NEW hyp \in Seq(S),
         NEW first \in 1 .. Len(ref), NEW last \in first .. Len(ref), NEW j \in Nat, NEW e \in Nat,
         HeardBetween(AlignOps(ref, hyp), ref, hyp, first, last, j, e)
  PROVE  ProjectSpan(AlignOps(ref, hyp), hyp, first, last) = SubSeq(hyp, j + 1, e)
<1> DEFINE ops == AlignOps(ref, hyp)
           i == first - 1
<1>1. Len(ref) \in Nat /\ Len(hyp) \in Nat
  OBVIOUS
<1>2. PICK a, b, n : Along(ops, a, b, ref, hyp, n)
  BY AlignAlong
<1> HIDE DEF ops
<1>3. /\ i \in 0 .. Len(ref) /\ last \in 0 .. Len(ref) /\ first = i + 1 /\ i < last
      /\ first \in Nat /\ i \in Nat /\ last \in Nat
  BY <1>1
<1>4. Opposite(ops, ref, hyp, i, j) /\ Opposite(ops, ref, hyp, last + 1, e + 1)
  BY DEF HeardBetween, ops
<1> HIDE DEF i
<1>5. /\ n \in Nat /\ DOMAIN ops = 1 .. n
      /\ \A k \in 0 .. n : a[k] \in Nat /\ b[k] \in Nat
      /\ a[n] = Len(ref) /\ b[n] = Len(hyp)
      /\ \A k \in 1 .. n : EditStep(ops[k], ref, hyp, a[k - 1], b[k - 1], a[k], b[k])
  BY <1>1, <1>2 DEF Along
<1>6. PICK p \in 0 .. n : a[p] = i /\ b[p] = j /\ (p = 0 \/ ops[p].op # "ins")
  BY <1>1, <1>2, <1>3, <1>4, OppositeBehind
<1>7. PICK q \in 0 .. n : a[q] = last /\ b[q] = e /\ (q = n \/ ops[q + 1].op # "ins")
  <2> DEFINE i1 == last + 1
             j1 == e + 1
  <2>1. i1 = last + 1 /\ j1 = e + 1 /\ Opposite(ops, ref, hyp, i1, j1)
    BY <1>4
  <2> HIDE DEF i1, j1
  <2>2. StandsBefore(ops, a, b, n, last, e)
    BY <1>1, <1>2, <1>3, <2>1, OppositeBefore
  <2> QED BY <2>2 DEF StandsBefore
<1>8. /\ \A k \in 0 .. n : k <= p => a[k] <= i /\ b[k] <= j
      /\ \A k \in 0 .. n : k >= p => i <= a[k] /\ j <= b[k]
      /\ \A k \in 0 .. n : k <= q => a[k] <= last /\ b[k] <= e
      /\ \A k \in 0 .. n : k >= q => last <= a[k] /\ e <= b[k]
  <2>1. \A k, m \in 0 .. n : k <= m => a[k] <= a[m] /\ b[k] <= b[m]
    <3> SUFFICES ASSUME NEW k \in 0 .. n, NEW m \in 0 .. n, k <= m
                 PROVE  a[k] <= a[m] /\ b[k] <= b[m]
      OBVIOUS
    <3>1. m \in k .. n
      BY <1>5
    <3> QED BY <1>1, <1>2, <3>1, AlongGrows
  <2> QED BY <1>6, <1>7, <2>1
<1>9. p \in Nat /\ q \in Nat /\ p < q /\ q <= n /\ n \in Nat
  <2>1. ~(p >= q)
    BY <1>3, <1>6, <1>8
  <2> QED BY <1>5, <2>1
<1>10. ASSUME NEW k \in 1 .. n
       PROVE  /\ k \in 0 .. n /\ k - 1 \in 0 .. n
              /\ ops[k].op # "ins" => ops[k].i = a[k] /\ a[k] = a[k - 1] + 1
              /\ ops[k].i # 0 => ops[k].op # "ins"
              /\ ops[k].j # 0 => ops[k].j = b[k] /\ b[k] = b[k - 1] + 1
              /\ b[k] # b[k - 1] => ops[k].j = b[k]
              /\ a[k] # a[k - 1] => ops[k].op # "ins"
  <2>1. k \in 0 .. n /\ k - 1 \in 0 .. n
    BY <1>5
  <2>2. EditStep(ops[k], ref, hyp, a[k - 1], b[k - 1], a[k], b[k])
    BY <1>5
  <2> QED BY <2>1, <2>2 DEF EditStep, Op, Del, Ins
<1> DEFINE I == Inner(ops, first, last)
           P == p + 1 .. q
<1>11. ASSUME NEW k \in I PROVE k \in P /\ k \in 1 .. n
  <2>1. k \in 1 .. n /\ ops[k].i \in first .. last
    BY <1>5 DEF Inner
  <2>2. ops[k].i = a[k] /\ a[k] = a[k - 1] + 1 /\ k \in 0 .. n /\ k - 1 \in 0 .. n
    <3>1. ops[k].i # 0
      BY <1>3, <2>1
    <3> QED BY <1>10, <2>1, <3>1
  <2>3. i < a[k] /\ a[k - 1] < last /\ a[k] \in Nat /\ a[k - 1] \in Nat
    BY <1>3, <1>5, <2>1, <2>2
  <2>4. ~(k <= p)
    BY <1>3, <1>8, <2>2, <2>3
  <2>5. ~(k - 1 >= q)
    BY <1>3, <1>8, <2>2, <2>3
  <2> QED BY <1>9, <2>1, <2>4, <2>5
<1>12. ASSUME NEW k \in P, k \notin I PROVE ops[k].op = "ins"
  <2> SUFFICES ASSUME ops[k].op # "ins" PROVE FALSE
    OBVIOUS
  <2>1. k \in 1 .. n /\ k - 1 >= p /\ k <= q
    BY <1>9
  <2>2. ops[k].i = a[k] /\ a[k] = a[k - 1] + 1 /\ k \in 0 .. n /\ k - 1 \in 0 .. n
    BY <1>10, <2>1
  <2>3. i <= a[k - 1] /\ a[k] <= last /\ a[k - 1] \in Nat /\ a[k] \in Nat
    BY <1>5, <1>8, <2>1, <2>2
  <2>4. ops[k].i \in first .. last
    BY <1>3, <2>2, <2>3
  <2> QED BY <1>5, <1>12, <2>1, <2>4 DEF Inner
<1>13. I # {}
  <2>1. PICK k \in 1 .. n : a[k] = first /\ a[k - 1] = first - 1
    BY <1>1, <1>2, AlongReaches
  <2>2. ops[k].i = first
    BY <1>3, <1>10, <2>1
  <2>3. k \in I
    BY <1>3, <1>5, <2>2 DEF Inner
  <2> QED BY <2>3
<1>14. /\ Least(I) \in I /\ Greatest(I) \in I
       /\ \A k \in I : Least(I) <= k /\ k <= Greatest(I)
  <2>1. I \in SUBSET (1 .. n)
    BY <1>11
  <2> HIDE DEF I
  <2> QED BY <1>5, <1>13, <2>1, EndsOfPlaces
<1>15. ASSUME NEW k \in P PROVE k \in Touched(ops, first, last)
  <2> DEFINE x == Least(I)
             y == Greatest(I)
  <2>1. x \in P /\ y \in P /\ \A m \in I : x <= m /\ m <= y
    BY <1>11, <1>14
  <2> HIDE DEF x, y
  <2>2. k < x => \A m \in k .. x - 1 : ops[m].op = "ins"
    <3> SUFFICES ASSUME NEW m \in k .. x - 1 PROVE ops[m].op = "ins"
      OBVIOUS
    <3>1. m \in P /\ ~(x <= m)
      BY <1>9, <2>1
    <3> QED BY <1>12, <2>1, <3>1
  <2>3. k > y => \A m \in y + 1 .. k : ops[m].op = "ins"
    <3> SUFFICES ASSUME NEW m \in y + 1 .. k PROVE ops[m].op = "ins"
      OBVIOUS
    <3>1. m \in P /\ ~(m <= y)
      BY <1>9, <2>1
    <3> QED BY <1>12, <2>1, <3>1
  <2>4. k \in 1 .. n
    BY <1>9
  <2>5. k \in x .. y \/ k < x \/ k > y
    BY <1>9, <2>1
  <2>6. k \in DOMAIN ops
    BY <1>5, <2>4
  <2> HIDE DEF P
  <2> QED BY <1>13, <2>2, <2>3, <2>5, <2>6, TouchedIs DEF x, y
<1> HIDE DEF P
<1>16. ASSUME NEW k \in Touched(ops, first, last) PROVE k \in P
  <2>1. k \in 1 .. n
    BY <1>5, TouchedIs
  <2>2. p < k
    <3>1. CASE p = 0
      BY <2>1, <3>1
    <3>2. CASE p # 0
      <4>1. p \in 1 .. n /\ ops[p].op # "ins" /\ \A m \in Inner(ops, first, last) : p < m
        BY <1>5, <1>6, <1>9, <1>11, <3>2 DEF P
      <4> QED BY <1>5, <4>1, TouchedStaysBehind
    <3> QED BY <3>1, <3>2
  <2>3. k <= q
    <3>1. CASE q = n
      BY <2>1, <3>1
    <3>2. CASE q # n
      <4>1. q + 1 \in 1 .. n /\ ops[q + 1].op # "ins" /\ \A m \in Inner(ops, first, last) : m < q + 1
        BY <1>5, <1>7, <1>9, <1>11, <3>2 DEF P
      <4>2. k < q + 1
        BY <1>5, <4>1, TouchedStaysBefore
      <4> QED BY <1>9, <2>1, <4>2
    <3> QED BY <3>1, <3>2
  <2> QED BY <1>9, <2>1, <2>2, <2>3 DEF P
<1> DEFINE J == j + 1 .. e
<1>17. { ops[k].j : k \in Touched(ops, first, last) } \ {0} = J
  <2>1. ASSUME NEW k \in P, ops[k].j # 0 PROVE ops[k].j \in J
    <3>1. k \in 1 .. n /\ k - 1 >= p /\ k <= q
      BY <1>9 DEF P
    <3>2. ops[k].j = b[k] /\ b[k] = b[k - 1] + 1 /\ k \in 0 .. n /\ k - 1 \in 0 .. n
      BY <1>10, <2>1, <3>1
    <3>3. j <= b[k - 1] /\ b[k] <= e /\ b[k] \in Nat /\ b[k - 1] \in Nat
      BY <1>5, <1>8, <3>1, <3>2
    <3> QED BY <3>2, <3>3
  <2>2. ASSUME NEW x \in J PROVE \E k \in P : ops[k].j = x
    <3>1. x \in 1 .. Len(hyp)
      <4>1. e <= Len(hyp)
        BY <1>2, <1>7 DEF Along
      <4> QED BY <1>1, <4>1
    <3>2. PICK k \in 1 .. n : b[k] = x /\ b[k - 1] = x - 1
      BY <1>1, <1>2, <3>1, AlongReaches
    <3>3. ops[k].j = x /\ k \in 0 .. n /\ k - 1 \in 0 .. n
      <4>1. b[k] # b[k - 1]
        BY <3>1, <3>2
      <4> QED BY <1>10, <3>2, <4>1
    <3>4. ~(k <= p) /\ ~(k - 1 >= q)
      BY <1>8, <3>2, <3>3
    <3>5. k \in P
      BY <1>9, <3>2, <3>4 DEF P
    <3> QED BY <3>3, <3>5
  <2>3. 0 \notin J
    OBVIOUS
  <2> HIDE DEF J
  <2> QED BY <1>15, <1>16, <2>1, <2>2, <2>3
<1>18. CASE j < e
  <2>1. j + 1 \in Int /\ e \in Int /\ j + 1 <= e /\ j + 1 \in J
    BY <1>18
  <2>2. Least(J) = j + 1 /\ Greatest(J) = e /\ J # {}
    BY <2>1, EndsOfInterval
  <2> HIDE DEF J
  <2> QED BY <1>17, <2>2 DEF ProjectSpan, ops
<1>19. CASE ~(j < e)
  <2>1. J = {} /\ SubSeq(hyp, j + 1, e) = <<>>
    BY <1>19
  <2> HIDE DEF J
  <2> QED BY <1>17, <2>1 DEF ProjectSpan, ops
<1> QED BY <1>18, <1>19
=============================================================================
