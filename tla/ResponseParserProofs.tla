------------------------ MODULE ResponseParserProofs ------------------------
(***************************************************************************)
(* Which value of a free-form answer is taken, for a response of any       *)
(* number of pieces with any number of elements.                           *)
(*                                                                         *)
(* A first part says what the scanner can meet: which candidates a piece   *)
(* holds, and that the candidates of a later piece come later.  A second   *)
(* part is the invariant of the scan: best and fallback are the best of    *)
(* the candidates passed so far, best the last of equals, fallback never   *)
(* without a flag.                                                         *)
(***************************************************************************)
EXTENDS ResponseParser, SequenceFacts, FiniteSetTheorems

LOCAL INSTANCE SequencesExt

-----------------------------------------------------------------------------
(* What the scanner meets.                                                 *)

LEMMA FlagLikeNat ==
  ASSUME NEW elems \in Seq(Kinds)
  PROVE  /\ FlagLike(elems) \in Nat
         /\ (\E n \in DOMAIN elems : elems[n] = "flag") <=> FlagLike(elems) > 0
<1> DEFINE F == { n \in DOMAIN elems : elems[n] = "flag" }
<1>1. IsFiniteSet(1 .. Len(elems)) /\ F \subseteq 1 .. Len(elems)
  BY FS_Interval
<1>2. IsFiniteSet(F)
  BY <1>1, FS_Subset
<1>3. Cardinality(F) \in Nat /\ (Cardinality(F) = 0 <=> F = {})
  BY <1>2, FS_CardinalityType, FS_EmptySet
<1>4. FlagLike(elems) = Cardinality(F)
  BY DEF FlagLike
<1> QED BY <1>3, <1>4

LEMMA OneFlag == <<"flag">> \in Seq(Kinds) /\ FlagLike(<<"flag">>) = 1
<1>1. { n \in DOMAIN <<"flag">> : <<"flag">>[n] = "flag" } = {1}
  OBVIOUS
<1>2. Cardinality({1}) = 1
  BY FS_Singleton
<1> QED BY <1>1, <1>2 DEF FlagLike, Kinds

\* The candidates among the elements are single flags and other objects, and
\* a flag among the elements is a candidate of its own.
LEMMA ElementCandidates ==
  ASSUME NEW elems \in Seq(Kinds), NEW k \in Nat,
         NEW cs, cs = FlattenSeq([n \in DOMAIN elems |-> ElementOpenings(elems[n], k)])
  PROVE  /\ cs \in Seq(Candidate)
         /\ \A i \in 1 .. Len(cs) : \/ cs[i] = Opening("single", <<"flag">>, k)
                                    \/ cs[i].form = "other"
         /\ FlagLike(elems) > 0 =>
              \E i \in 1 .. Len(cs) : cs[i] = Opening("single", <<"flag">>, k)
<1> DEFINE N == Len(elems)
           ss == [n \in 1 .. N |-> ElementOpenings(elems[n], k)]
           one == Opening("single", <<"flag">>, k)
           other == Opening("other", <<>>, k)
<1>1. /\ N \in Nat /\ DOMAIN elems = 1 .. N
      /\ one \in Candidate /\ other \in Candidate /\ other.form = "other"
  BY OneFlag DEF Opening, Candidate
<1> HIDE DEF one, other, N
<1>2. \A n \in 1 .. N : ss[n] = IF elems[n] = "flag" THEN <<one>>
                                ELSE IF elems[n] = "object" THEN <<other>> ELSE <<>>
  <2> TAKE n \in 1 .. N
  <2>1. elems[n] \in Kinds
    BY DEF N
  <2> QED BY <2>1 DEF ElementOpenings, Kinds, one, other
<1>3. \A n \in 1 .. N : ss[n] \in Seq(Candidate)
  <2>1. <<one>> \in Seq(Candidate) /\ <<other>> \in Seq(Candidate)
        /\ <<>> \in Seq(Candidate)
    BY <1>1
  <2> HIDE DEF ss
  <2> QED BY <1>2, <2>1
<1>4. cs = FlattenSeq(ss)
  BY <1>1
<1>5. ss = [n \in 1 .. N |-> ss[n]]
  OBVIOUS
<1> HIDE DEF ss
<1>6. cs \in Seq(Candidate)
  BY <1>1, <1>3, <1>4, <1>5, FlattenParts
<1>7. PICK at : Laid(ss, N, cs, at)
  BY <1>1, <1>3, <1>4, <1>5, FlattenParts
<1>8. ASSUME NEW i \in 1 .. Len(cs) PROVE cs[i] = one \/ cs[i].form = "other"
  <2>1. PICK n \in 1 .. N : \E m \in 1 .. Len(ss[n]) : cs[i] = ss[n][m]
    BY <1>7 DEF Laid
  <2>2. PICK m \in 1 .. Len(ss[n]) : cs[i] = ss[n][m]
    BY <2>1
  <2> QED BY <1>1, <1>2, <2>2
<1>9. ASSUME FlagLike(elems) > 0 PROVE \E i \in 1 .. Len(cs) : cs[i] = one
  <2>1. PICK n \in 1 .. N : elems[n] = "flag"
    BY <1>1, <1>9, FlagLikeNat
  <2>2. ss[n] = <<one>> /\ ss[n] \in Seq(Candidate)
    BY <1>2, <1>3, <2>1
  <2>3. 1 \in 1 .. Len(ss[n]) /\ ss[n][1] = one
    BY <2>2
  <2>4. at[n] + 1 \in 1 .. Len(cs) /\ cs[at[n] + 1] = one
    BY <1>7, <2>3 DEF Laid
  <2> QED BY <2>4
<1> QED BY <1>6, <1>8, <1>9 DEF one

\* The candidates of a piece: itself when it is whole, its list when that is
\* whole, and its elements.
LEMMA PieceCandidates ==
  ASSUME NEW p \in Pieces, NEW k \in Nat, NEW cs, cs = PieceOpenings(p, k),
         p.form \in {"single", "other"} => p.elems = <<>>
  PROVE  /\ cs \in Seq(Candidate)
         /\ \A i \in 1 .. Len(cs) :
              \/ cs[i] = Opening("wrapped", p.elems, k) /\ Whole(p)
              \/ cs[i] = Opening("list", p.elems, k)
              \/ cs[i] = Opening("single", <<"flag">>, k)
              \/ cs[i].form = "other"
         /\ Whole(p) => \E i \in 1 .. Len(cs) : cs[i] = Opening("wrapped", p.elems, k)
         /\ p.form = "list" /\ p.cut = "no" =>
              \E i \in 1 .. Len(cs) : cs[i] = Opening("list", p.elems, k)
         /\ p.form = "single" \/ FlagLike(p.elems) > 0 =>
              \E i \in 1 .. Len(cs) : cs[i] = Opening("single", <<"flag">>, k)
<1> DEFINE es == FlattenSeq([n \in DOMAIN p.elems |-> ElementOpenings(p.elems[n], k)])
           W == Opening("wrapped", p.elems, k)
           L == Opening("list", p.elems, k)
           I == Opening("single", <<"flag">>, k)
           O == Opening("other", <<>>, k)
           list == IF p.cut = "inside" THEN <<>> ELSE <<L>>
           own == IF p.cut = "no" THEN <<W>> ELSE <<>>
<1>0. p.elems \in Seq(Kinds) /\ p.form \in {"wrapped", "list", "single", "other"}
  BY DEF Pieces
<1>1. /\ es \in Seq(Candidate)
      /\ \A i \in 1 .. Len(es) : es[i] = I \/ es[i].form = "other"
      /\ FlagLike(p.elems) > 0 => \E i \in 1 .. Len(es) : es[i] = I
  BY <1>0, ElementCandidates
<1>2. cs = CASE p.form = "wrapped" -> own \o list \o es
             [] p.form = "list"    -> list \o es
             [] p.form = "single"  -> <<I>>
             [] p.form = "other"   -> <<O>>
  BY DEF PieceOpenings
<1>3. W \in Candidate /\ L \in Candidate /\ I \in Candidate /\ O \in Candidate
      /\ O.form = "other"
  BY <1>0, OneFlag DEF Opening, Candidate
<1>4. ~(FlagLike(<<>>) > 0)
  <2>1. <<>> \in Seq(Kinds) /\ DOMAIN <<>> = {}
    OBVIOUS
  <2> QED BY <2>1, FlagLikeNat
<1> HIDE DEF es, W, L, I, O
<1>5. /\ list \in Seq(Candidate) /\ own \in Seq(Candidate)
      /\ Len(list) = (IF p.cut = "inside" THEN 0 ELSE 1)
      /\ Len(own) = (IF p.cut = "no" THEN 1 ELSE 0)
      /\ \A i \in 1 .. Len(list) : list[i] = L
      /\ \A i \in 1 .. Len(own) : own[i] = W
  BY <1>3
<1>6. CASE p.form = "single"
  BY <1>0, <1>2, <1>3, <1>6 DEF Whole, I
<1>7. CASE p.form = "other"
  BY <1>0, <1>2, <1>3, <1>4, <1>7 DEF Whole
<1> HIDE DEF list, own
<1>8. CASE p.form = "list"
  <2>1. cs \in Seq(Candidate) /\ HasBoth(cs, list, es)
    BY <1>1, <1>2, <1>5, <1>8, ConcatElements
  <2>2. \A j \in 1 .. Len(cs) : cs[j] = L \/ cs[j] = I \/ cs[j].form = "other"
    BY <1>1, <1>5, <2>1 DEF HasBoth
  <2>3. p.cut = "no" => \E j \in 1 .. Len(cs) : cs[j] = L
    BY <1>5, <2>1 DEF HasBoth
  <2>4. FlagLike(p.elems) > 0 => \E j \in 1 .. Len(cs) : cs[j] = I
    BY <1>1, <2>1 DEF HasBoth
  <2> QED BY <1>8, <2>1, <2>2, <2>3, <2>4 DEF Whole, W, L, I
<1>9. CASE p.form = "wrapped"
  <2> DEFINE front == own \o list
  <2>1. front \in Seq(Candidate) /\ HasBoth(front, own, list)
    BY <1>5, ConcatElements
  <2>2. cs = front \o es
    BY <1>2, <1>9
  <2> HIDE DEF front
  <2>3. cs \in Seq(Candidate) /\ HasBoth(cs, front, es)
    BY <1>1, <2>1, <2>2, ConcatElements
  <2>4. \A j \in 1 .. Len(front) : front[j] = L \/ (front[j] = W /\ p.cut = "no")
    <3>1. \A i \in 1 .. Len(own) : own[i] = W /\ p.cut = "no"
      BY <1>5
    <3> QED BY <1>5, <2>1, <3>1 DEF HasBoth
  <2>5. \A j \in 1 .. Len(cs) : \/ cs[j] = L \/ (cs[j] = W /\ p.cut = "no")
                                \/ cs[j] = I \/ cs[j].form = "other"
    BY <1>1, <2>3, <2>4 DEF HasBoth
  <2>6. p.cut = "no" => \E j \in 1 .. Len(cs) : cs[j] = W
    BY <1>5, <2>1, <2>3 DEF HasBoth
  <2>7. FlagLike(p.elems) > 0 => \E j \in 1 .. Len(cs) : cs[j] = I
    BY <1>1, <2>3 DEF HasBoth
  <2> QED BY <1>9, <2>3, <2>5, <2>6, <2>7 DEF Whole, W, L, I
<1> QED BY <1>0, <1>6, <1>7, <1>8, <1>9 DEF W, L, I

Parts == [k \in 1 .. Len(response) |-> PieceOpenings(response[k], k)]

WrappedAt(i, k) == Openings[i] = Opening("wrapped", response[k].elems, k)

\* All the scanner can meet: each candidate is of a piece, each whole piece
\* and each flag is a candidate, and wrapped ones come in the order of the
\* pieces.
LEMMA Met ==
  ASSUME response \in Responses
  PROVE  /\ Openings \in Seq(Candidate)
         /\ \A i \in 1 .. Len(Openings) : \E k \in DOMAIN response :
              LET p == response[k]
              IN \/ WrappedAt(i, k) /\ Whole(p)
                 \/ Openings[i] = Opening("list", p.elems, k)
                 \/ Openings[i] = Opening("single", <<"flag">>, k)
                 \/ Openings[i].form = "other"
         /\ \A k \in DOMAIN response :
              LET p == response[k]
              IN /\ Whole(p) => \E i \in 1 .. Len(Openings) : WrappedAt(i, k)
                 /\ p.form = "list" /\ p.cut = "no" =>
                      \E i \in 1 .. Len(Openings) : Openings[i] = Opening("list", p.elems, k)
                 /\ p.form = "single" \/ FlagLike(p.elems) > 0 =>
                      \E i \in 1 .. Len(Openings) : Openings[i] = Opening("single", <<"flag">>, k)
         /\ \A i, j \in 1 .. Len(Openings) : \A k, l \in DOMAIN response :
              WrappedAt(i, k) /\ WrappedAt(j, l) /\ k < l => i < j
<1> DEFINE N == Len(response)
           D == DOMAIN Openings
<1>1. /\ N \in Nat /\ DOMAIN response = 1 .. N
      /\ \A k \in 1 .. N : /\ response[k] \in Pieces
                           /\ response[k].form \in {"single", "other"} => response[k].elems = <<>>
  BY ResponsesAssumption
<1> HIDE DEF N
<1>2. ASSUME NEW k \in 1 .. N
      PROVE  /\ Parts[k] \in Seq(Candidate)
             /\ \A i \in 1 .. Len(Parts[k]) :
                  \/ Parts[k][i] = Opening("wrapped", response[k].elems, k) /\ Whole(response[k])
                  \/ Parts[k][i] = Opening("list", response[k].elems, k)
                  \/ Parts[k][i] = Opening("single", <<"flag">>, k)
                  \/ Parts[k][i].form = "other"
             /\ Whole(response[k]) =>
                  \E i \in 1 .. Len(Parts[k]) : Parts[k][i] = Opening("wrapped", response[k].elems, k)
             /\ response[k].form = "list" /\ response[k].cut = "no" =>
                  \E i \in 1 .. Len(Parts[k]) : Parts[k][i] = Opening("list", response[k].elems, k)
             /\ response[k].form = "single" \/ FlagLike(response[k].elems) > 0 =>
                  \E i \in 1 .. Len(Parts[k]) : Parts[k][i] = Opening("single", <<"flag">>, k)
  <2>1. Parts[k] = PieceOpenings(response[k], k)
    BY DEF Parts, N
  <2>2. k \in Nat
    BY <1>1
  <2> QED BY <1>1, <2>1, <2>2, PieceCandidates
<1>3. Openings = FlattenSeq(Parts) /\ Parts = [k \in 1 .. N |-> Parts[k]]
  BY <1>1 DEF Openings, Parts, N
<1>4. Openings \in Seq(Candidate) /\ \E at : Laid(Parts, N, Openings, at)
  BY <1>1, <1>2, <1>3, FlattenParts
<1>5. PICK at : Laid(Parts, N, Openings, at)
  BY <1>4
<1>6. ASSUME NEW i \in 1 .. Len(Openings)
      PROVE  \E k \in 1 .. N : /\ \E m \in 1 .. Len(Parts[k]) : i = at[k] + m
                               /\ \/ WrappedAt(i, k) /\ Whole(response[k])
                                  \/ Openings[i] = Opening("list", response[k].elems, k)
                                  \/ Openings[i] = Opening("single", <<"flag">>, k)
                                  \/ Openings[i].form = "other"
  <2>1. PICK k \in 1 .. N : \E m \in 1 .. Len(Parts[k]) : i = at[k] + m /\ Openings[i] = Parts[k][m]
    BY <1>5 DEF Laid
  <2>2. PICK m \in 1 .. Len(Parts[k]) : i = at[k] + m /\ Openings[i] = Parts[k][m]
    BY <2>1
  <2>3. \/ Parts[k][m] = Opening("wrapped", response[k].elems, k) /\ Whole(response[k])
        \/ Parts[k][m] = Opening("list", response[k].elems, k)
        \/ Parts[k][m] = Opening("single", <<"flag">>, k)
        \/ Parts[k][m].form = "other"
    BY <1>2
  <2> QED BY <2>2, <2>3 DEF WrappedAt
<1>7. ASSUME NEW k \in 1 .. N, NEW m \in 1 .. Len(Parts[k])
      PROVE  \E i \in 1 .. Len(Openings) : Openings[i] = Parts[k][m]
  BY <1>5 DEF Laid
<1>8. ASSUME NEW i \in 1 .. Len(Openings), NEW j \in 1 .. Len(Openings),
             NEW k \in 1 .. N, NEW l \in 1 .. N, WrappedAt(i, k), WrappedAt(j, l), k < l
      PROVE  i < j
  <2>1. ASSUME NEW x \in 1 .. Len(Openings), NEW y \in 1 .. N, WrappedAt(x, y)
        PROVE  \E m \in 1 .. Len(Parts[y]) : x = at[y] + m
    <3>1. PICK z \in 1 .. N : /\ \E m \in 1 .. Len(Parts[z]) : x = at[z] + m
                              /\ \/ WrappedAt(x, z) /\ Whole(response[z])
                                 \/ Openings[x] = Opening("list", response[z].elems, z)
                                 \/ Openings[x] = Opening("single", <<"flag">>, z)
                                 \/ Openings[x].form = "other"
      BY <1>6
    <3>2. Openings[x].form = "wrapped" /\ Openings[x].piece = y
      BY <2>1 DEF WrappedAt, Opening
    <3>3. WrappedAt(x, z)
      BY <3>1, <3>2 DEF Opening
    <3>4. z = y
      BY <3>2, <3>3 DEF WrappedAt, Opening
    <3> QED BY <3>1, <3>4
  <2>2. PICK m \in 1 .. Len(Parts[k]) : i = at[k] + m
    BY <1>8, <2>1
  <2>3. PICK n \in 1 .. Len(Parts[l]) : j = at[l] + n
    BY <1>8, <2>1
  <2> QED BY <1>5, <1>8, <2>2, <2>3 DEF Laid
<1>9. ASSUME NEW k \in 1 .. N
      PROVE  /\ Whole(response[k]) => \E i \in 1 .. Len(Openings) : WrappedAt(i, k)
             /\ response[k].form = "list" /\ response[k].cut = "no" =>
                  \E i \in 1 .. Len(Openings) : Openings[i] = Opening("list", response[k].elems, k)
             /\ response[k].form = "single" \/ FlagLike(response[k].elems) > 0 =>
                  \E i \in 1 .. Len(Openings) : Openings[i] = Opening("single", <<"flag">>, k)
  BY <1>2, <1>7 DEF WrappedAt
<1> QED BY <1>1, <1>4, <1>6, <1>8, <1>9

-----------------------------------------------------------------------------
(* The scan.                                                               *)

Flags(i) == FlagLike(Openings[i].elems)

Seen == 1 .. opening - 1

IsWrapped(i) == Openings[i].form = "wrapped"
IsBare(i) == Openings[i].form \in {"list", "single"}

RType == /\ response \in Responses
         /\ opening \in 1 .. Len(Openings) + 1
         /\ best # None => best \in Candidate
         /\ fallback # None => fallback \in Candidate
         /\ outcome \in {"scanning", "flags", "error", "loaded", "unloadable"}

\* best is the last of the wrapped candidates passed that have most flags.
BestSoFar ==
  /\ best = None => \A i \in Seen : ~IsWrapped(i)
  /\ best # None =>
       \E i \in Seen : /\ best = Openings[i] /\ IsWrapped(i)
                       /\ \A j \in Seen : IsWrapped(j) =>
                            IF j <= i THEN Flags(j) <= Flags(i) ELSE Flags(j) < Flags(i)

\* fallback is a bare candidate passed, with a flag and as many as any.
FallbackSoFar ==
  /\ fallback = None => \A i \in Seen : IsBare(i) => Flags(i) = 0
  /\ fallback # None =>
       \E i \in Seen : /\ fallback = Openings[i] /\ IsBare(i) /\ Flags(i) > 0
                       /\ \A j \in Seen : IsBare(j) => Flags(j) <= Flags(i)

RInv == /\ RType
        /\ outcome = "scanning" => BestSoFar /\ FallbackSoFar
        /\ outcome = "flags" => best # None /\ ~Hollow(best.elems)
        /\ AnswerNotStolen /\ ZeroMeansNone /\ CutOffIsRefused /\ LoaderTakesIt

\* The counts are numbers, and a single flag counts one.
LEMMA Counts ==
  ASSUME response \in Responses
  PROVE  /\ Openings \in Seq(Candidate) /\ Len(Openings) \in Nat
         /\ DOMAIN Openings = 1 .. Len(Openings)
         /\ \A i \in 1 .. Len(Openings) :
              /\ Openings[i] \in Candidate /\ Openings[i] # None /\ Flags(i) \in Nat
              /\ Openings[i].form = "single" => Flags(i) = 1
<1>1. Openings \in Seq(Candidate)
  BY Met
<1>2. ASSUME NEW i \in 1 .. Len(Openings)
      PROVE  /\ Openings[i] \in Candidate /\ Openings[i] # None /\ Flags(i) \in Nat
             /\ Openings[i].form = "single" => Flags(i) = 1
  <2>1. Openings[i] \in Candidate /\ Openings[i] # None
    BY <1>1, NoneAssumption
  <2>2. Flags(i) \in Nat
    BY <2>1, FlagLikeNat DEF Flags, Candidate
  <2>3. Openings[i].form = "single" => Openings[i].elems = <<"flag">>
    <3>1. PICK k \in DOMAIN response :
            \/ WrappedAt(i, k) /\ Whole(response[k])
            \/ Openings[i] = Opening("list", response[k].elems, k)
            \/ Openings[i] = Opening("single", <<"flag">>, k)
            \/ Openings[i].form = "other"
      BY Met
    <3> QED BY <3>1 DEF Opening, WrappedAt
  <2> QED BY <2>1, <2>2, <2>3, OneFlag DEF Flags
<1> QED BY <1>1, <1>2

LEMMA InitRInv == RInit => RInv
<1> SUFFICES ASSUME RInit PROVE RInv
  OBVIOUS
<1>1. Len(Openings) \in Nat
  BY Counts DEF RInit
<1> QED BY <1>1 DEF RInit, RInv, RType, BestSoFar, FallbackSoFar, Seen, AnswerNotStolen,
           ZeroMeansNone, CutOffIsRefused, LoaderTakesIt, Returned

\* While the scan goes on nothing is claimed but that it is right so far.
LEMMA ScanRInv ==
  ASSUME RInv, outcome = "scanning", opening \in DOMAIN Openings,
         opening' = opening + 1, UNCHANGED <<response, outcome>>,
         \/ best' = best /\ ~IsWrapped(opening)
         \/ /\ IsWrapped(opening)
            /\ best' = IF Flags(opening) >= BestN THEN Openings[opening] ELSE best,
         \/ fallback' = fallback /\ ~IsBare(opening)
         \/ fallback' = fallback /\ IsBare(opening) /\ Flags(opening) <= FallbackN
         \/ fallback' = Openings[opening] /\ IsBare(opening) /\ Flags(opening) > FallbackN
  PROVE  RInv'
<1>1. RType
  BY DEF RInv
<1>2. /\ Len(Openings) \in Nat /\ DOMAIN Openings = 1 .. Len(Openings)
      /\ \A i \in 1 .. Len(Openings) :
           Openings[i] \in Candidate /\ Openings[i] # None /\ Flags(i) \in Nat
  BY <1>1, Counts DEF RType
<1>3. Openings' = Openings
  BY DEF Openings
<1>4. /\ opening \in 1 .. Len(Openings)
      /\ Seen \subseteq 1 .. Len(Openings) /\ Seen' = Seen \cup {opening}
      /\ \A i \in Seen : i < opening
  BY <1>2 DEF Seen
<1>5. RType'
  BY <1>1, <1>2, <1>3, <1>4 DEF RType
<1>6. /\ \A i \in Seen \cup {opening} :
           (IsWrapped(i)' <=> IsWrapped(i)) /\ (IsBare(i)' <=> IsBare(i)) /\ Flags(i)' = Flags(i)
      /\ \A i \in Seen \cup {opening} : Openings'[i] = Openings[i]
  BY <1>3 DEF IsWrapped, IsBare, Flags
<1>7. BestSoFar /\ FallbackSoFar
  BY DEF RInv
<1>8. BestSoFar'
  <2>1. SUFFICES /\ best' = None => \A i \in Seen \cup {opening} : ~IsWrapped(i)
                 /\ best' # None =>
                      \E i \in Seen \cup {opening} :
                        /\ best' = Openings[i] /\ IsWrapped(i)
                        /\ \A j \in Seen \cup {opening} : IsWrapped(j) =>
                             IF j <= i THEN Flags(j) <= Flags(i) ELSE Flags(j) < Flags(i)
    BY <1>4, <1>6 DEF BestSoFar
  <2>2. CASE best' = best /\ ~IsWrapped(opening)
    BY <1>7, <2>2 DEF BestSoFar
  <2>3. CASE IsWrapped(opening) /\ best = None
    <3>1. best' = Openings[opening] /\ best' # None
      BY <1>2, <1>4, <2>3 DEF BestN
    <3>2. \A j \in Seen \cup {opening} : IsWrapped(j) => j = opening
      BY <1>7, <2>3 DEF BestSoFar
    <3>3. Flags(opening) <= Flags(opening) /\ opening <= opening
      BY <1>2, <1>4
    <3> QED BY <2>3, <3>1, <3>2, <3>3
  <2>4. CASE IsWrapped(opening) /\ best # None
    <3>1. PICK i \in Seen : /\ best = Openings[i] /\ IsWrapped(i)
                            /\ \A j \in Seen : IsWrapped(j) =>
                                 IF j <= i THEN Flags(j) <= Flags(i) ELSE Flags(j) < Flags(i)
      BY <1>7, <2>4 DEF BestSoFar
    <3>2. BestN = Flags(i) /\ Flags(i) \in Nat /\ Flags(opening) \in Nat /\ i < opening
          /\ i \in Int /\ opening \in Int
      BY <1>2, <1>4, <2>4, <3>1 DEF BestN, Flags
    <3>3. CASE Flags(opening) >= Flags(i)
      <4>1. best' = Openings[opening] /\ best' # None
        BY <1>2, <1>4, <2>4, <3>2, <3>3
      <4>2. ASSUME NEW j \in Seen, IsWrapped(j)
            PROVE  j <= opening /\ Flags(j) <= Flags(opening)
        <5>1. Flags(j) \in Nat /\ Flags(j) <= Flags(i) /\ j < opening /\ j \in Int
          BY <1>2, <1>4, <3>1, <3>2, <4>2
        <5> QED BY <3>2, <3>3, <5>1
      <4>3. \A j \in Seen \cup {opening} : IsWrapped(j) =>
              IF j <= opening THEN Flags(j) <= Flags(opening) ELSE Flags(j) < Flags(opening)
        BY <3>2, <4>2
      <4> QED BY <2>4, <4>1, <4>3
    <3>4. CASE ~(Flags(opening) >= Flags(i))
      <4>1. best' = best /\ Flags(opening) < Flags(i) /\ ~(opening <= i)
        BY <2>4, <3>2, <3>4
      <4> QED BY <2>4, <3>1, <4>1
    <3> QED BY <3>3, <3>4
  <2> QED BY <2>2, <2>3, <2>4
<1>9. FallbackSoFar'
  <2>1. SUFFICES /\ fallback' = None =>
                      \A i \in Seen \cup {opening} : IsBare(i) => Flags(i) = 0
                 /\ fallback' # None =>
                      \E i \in Seen \cup {opening} :
                        /\ fallback' = Openings[i] /\ IsBare(i) /\ Flags(i) > 0
                        /\ \A j \in Seen \cup {opening} : IsBare(j) => Flags(j) <= Flags(i)
    BY <1>4, <1>6 DEF FallbackSoFar
  <2>2. /\ FallbackN \in Nat
        /\ \A j \in Seen : IsBare(j) => Flags(j) <= FallbackN
        /\ fallback = None => FallbackN = 0
        /\ fallback # None =>
             \E i \in Seen : fallback = Openings[i] /\ IsBare(i) /\ Flags(i) > 0
                             /\ Flags(i) = FallbackN
    BY <1>2, <1>4, <1>7 DEF FallbackSoFar, FallbackN, Flags
  <2>3. Flags(opening) \in Nat /\ \A j \in Seen : Flags(j) \in Nat
    BY <1>2, <1>4
  <2>4. CASE fallback' = fallback /\ (IsBare(opening) => Flags(opening) <= FallbackN)
    <3>1. \A j \in Seen \cup {opening} : IsBare(j) => Flags(j) <= FallbackN
      BY <2>2, <2>4
    <3> QED BY <2>2, <2>3, <2>4, <3>1
  <2>5. CASE fallback' = Openings[opening] /\ IsBare(opening) /\ Flags(opening) > FallbackN
    <3>1. \A j \in Seen \cup {opening} : IsBare(j) => Flags(j) <= Flags(opening)
      BY <2>2, <2>3, <2>5
    <3>2. Flags(opening) > 0 /\ Openings[opening] # None
      BY <1>2, <1>4, <2>2, <2>3, <2>5
    <3> QED BY <2>5, <3>1, <3>2
  <2> QED BY <2>4, <2>5
<1> QED BY <1>5, <1>8, <1>9 DEF RInv, AnswerNotStolen, ZeroMeansNone, CutOffIsRefused,
           LoaderTakesIt, Returned

\* Piece k has the "flags" object AnswerNotStolen speaks of.
ChampionObject(k) ==
  /\ Whole(response[k]) /\ FlagLike(response[k].elems) > 0
  /\ \A j \in DOMAIN response \ {k} : Whole(response[j]) =>
       IF j < k THEN FlagLike(response[j].elems) <= FlagLike(response[k].elems)
       ELSE FlagLike(response[j].elems) < FlagLike(response[k].elems)

\* Piece k is the list it speaks of.
ChampionList(k) ==
  /\ ~NamesFlags /\ response[k].form = "list" /\ response[k].cut = "no"
  /\ FlagLike(response[k].elems) > 1
  /\ \A j \in DOMAIN response \ {k} :
       FlagLike(response[j].elems) < FlagLike(response[k].elems)

\* A list with a flag holds an object.
LEMMA FlagsAreObjects ==
  ASSUME NEW elems \in Seq(Kinds), FlagLike(elems) > 0
  PROVE  ~Hollow(elems)
<1>1. PICK n \in DOMAIN elems : elems[n] = "flag"
  BY FlagLikeNat
<1>2. n \in Objects(elems)
  BY <1>1 DEF Objects
<1> QED BY <1>2 DEF Hollow

\* The elements of a piece, and how many of them are flags.
LEMMA ResponseType ==
  ASSUME response \in Responses
  PROVE  /\ DOMAIN response \subseteq Nat
         /\ \A j \in DOMAIN response : /\ response[j].elems \in Seq(Kinds)
                                       /\ FlagLike(response[j].elems) \in Nat
<1>1. response \in Seq(Pieces)
  BY ResponsesAssumption
<1>2. DOMAIN response = 1 .. Len(response) /\ Len(response) \in Nat
      /\ \A j \in DOMAIN response : response[j] \in Pieces
  BY <1>1
<1>3. \A j \in DOMAIN response : response[j].elems \in Seq(Kinds)
  BY <1>2 DEF Pieces
<1> QED BY <1>2, <1>3, FlagLikeNat

\* What is known when every opening has been passed.
LEMMA AllSeen ==
  ASSUME RInv, Scanned
  PROVE  /\ RType /\ Seen = 1 .. Len(Openings) /\ BestSoFar /\ FallbackSoFar
         /\ \A i \in Seen : /\ Openings[i] \in Candidate /\ Openings[i] # None
                            /\ Flags(i) \in Nat
                            /\ Openings[i].form = "single" => Flags(i) = 1
<1>1. RType /\ BestSoFar /\ FallbackSoFar
  BY DEF RInv, Scanned
<1>2. opening = Len(Openings) + 1 /\ Len(Openings) \in Nat
  BY <1>1, Counts DEF RType, Scanned
<1> QED BY <1>1, <1>2, Counts DEF RType, Seen

\* best is then the "flags" object of a whole piece.
LEMMA BestIsWhole ==
  ASSUME RInv, Scanned, best # None
  PROVE  \E l \in DOMAIN response, b \in Seen :
           /\ best = Openings[b] /\ IsWrapped(b) /\ WrappedAt(b, l) /\ Whole(response[l])
           /\ \A j \in Seen : IsWrapped(j) =>
                IF j <= b THEN Flags(j) <= Flags(b) ELSE Flags(j) < Flags(b)
<1>1. PICK b \in Seen : /\ best = Openings[b] /\ IsWrapped(b)
                        /\ \A j \in Seen : IsWrapped(j) =>
                             IF j <= b THEN Flags(j) <= Flags(b) ELSE Flags(j) < Flags(b)
  BY AllSeen DEF BestSoFar
<1>2. PICK l \in DOMAIN response :
        \/ WrappedAt(b, l) /\ Whole(response[l])
        \/ Openings[b] = Opening("list", response[l].elems, l)
        \/ Openings[b] = Opening("single", <<"flag">>, l)
        \/ Openings[b].form = "other"
  BY AllSeen, Met DEF RType
<1>3. WrappedAt(b, l) /\ Whole(response[l])
  BY <1>1, <1>2 DEF IsWrapped, Opening
<1> QED BY <1>1, <1>3

\* The "flags" object AnswerNotStolen speaks of is best, and nothing keeps it
\* from being returned.
LEMMA ObjectWins ==
  ASSUME RInv, Scanned, NEW k \in DOMAIN response, ChampionObject(k)
  PROVE  /\ best = Opening("wrapped", response[k].elems, k) /\ best # None
         /\ ~Yields /\ ~Hollow(best.elems)
<1> DEFINE n(j) == FlagLike(response[j].elems)
<1>1. /\ response \in Responses /\ DOMAIN response \subseteq Nat
      /\ \A j \in DOMAIN response : response[j].elems \in Seq(Kinds) /\ n(j) \in Nat
  BY AllSeen, ResponseType DEF RType
<1>2. PICK i \in Seen : WrappedAt(i, k)
  BY <1>1, AllSeen, Met DEF ChampionObject
<1>3. IsWrapped(i) /\ Flags(i) = n(k)
  BY <1>2 DEF WrappedAt, IsWrapped, Flags, Opening
<1>4. best # None
  BY <1>3, AllSeen DEF BestSoFar
<1>5. PICK l \in DOMAIN response, b \in Seen :
        /\ best = Openings[b] /\ IsWrapped(b) /\ WrappedAt(b, l) /\ Whole(response[l])
        /\ \A j \in Seen : IsWrapped(j) =>
             IF j <= b THEN Flags(j) <= Flags(b) ELSE Flags(j) < Flags(b)
  BY <1>4, BestIsWhole
<1>6. Flags(b) = n(l) /\ IF i <= b THEN n(k) <= n(l) ELSE n(k) < n(l)
  BY <1>3, <1>5 DEF WrappedAt, Flags, Opening
<1>7. l = k
  <2>1. k \in Nat /\ l \in Nat /\ n(k) \in Nat /\ n(l) \in Nat /\ i \in Int /\ b \in Int
    BY <1>1 DEF Seen
  <2>2. \A x, y \in Seen : \A p, q \in DOMAIN response :
          WrappedAt(x, p) /\ WrappedAt(y, q) /\ p < q => x < y
    BY <1>1, AllSeen, Met
  <2>3. CASE l < k
    <3>1. b < i
      BY <1>2, <1>5, <2>2, <2>3
    <3>2. n(l) <= n(k)
      BY <1>5, <2>1, <2>3 DEF ChampionObject
    <3> QED BY <1>6, <2>1, <3>1, <3>2
  <2>4. CASE k < l
    <3>1. i < b
      BY <1>2, <1>5, <2>2, <2>4
    <3>2. n(l) < n(k)
      BY <1>5, <2>1, <2>4 DEF ChampionObject
    <3> QED BY <1>6, <2>1, <3>1, <3>2
  <2> QED BY <2>1, <2>3, <2>4
<1>8. best = Opening("wrapped", response[k].elems, k)
  BY <1>5, <1>7 DEF WrappedAt
<1>9. best.elems = response[k].elems /\ BestN = n(k) /\ n(k) > 0
  BY <1>4, <1>8 DEF Opening, BestN, ChampionObject
<1>10. ~Yields
  BY <1>9 DEF Yields
<1>11. ~Hollow(best.elems)
  BY <1>1, <1>9, FlagsAreObjects
<1> QED BY <1>4, <1>8, <1>10, <1>11

\* The list AnswerNotStolen speaks of is fallback, and nothing stands before it.
LEMMA ListWins ==
  ASSUME RInv, Scanned, NEW k \in DOMAIN response, ChampionList(k)
  PROVE  best = None /\ MayFallBack /\ fallback = Opening("list", response[k].elems, k)
<1> DEFINE n(j) == FlagLike(response[j].elems)
<1>1. /\ response \in Responses
      /\ \A j \in DOMAIN response : n(j) \in Nat
  BY AllSeen, ResponseType DEF RType
<1>2. best = None
  BY BestIsWhole DEF Whole, ChampionList, NamesFlags
<1>3. PICK i \in Seen : Openings[i] = Opening("list", response[k].elems, k)
  BY <1>1, AllSeen, Met DEF ChampionList
<1>4. IsBare(i) /\ Flags(i) = n(k) /\ n(k) > 1 /\ n(k) \in Nat
  BY <1>1, <1>3 DEF IsBare, Flags, Opening, ChampionList
<1>5. fallback # None
  BY <1>4, AllSeen DEF FallbackSoFar
<1>6. PICK f \in Seen : fallback = Openings[f] /\ IsBare(f) /\ Flags(i) <= Flags(f)
  BY <1>4, <1>5, AllSeen DEF FallbackSoFar
<1>7. Flags(f) > 1 /\ Openings[f].form = "list"
  BY <1>4, <1>6, AllSeen DEF IsBare
<1>8. PICK l \in DOMAIN response :
        \/ WrappedAt(f, l) /\ Whole(response[l])
        \/ Openings[f] = Opening("list", response[l].elems, l)
        \/ Openings[f] = Opening("single", <<"flag">>, l)
        \/ Openings[f].form = "other"
  BY <1>1, AllSeen, Met
<1>9. Openings[f] = Opening("list", response[l].elems, l)
  BY <1>7, <1>8 DEF WrappedAt, Opening
<1>10. n(k) <= n(l) /\ n(l) \in Nat
  BY <1>1, <1>4, <1>6, <1>9 DEF Flags, Opening
<1>11. l = k
  BY <1>4, <1>10 DEF ChampionList
<1> QED BY <1>2, <1>5, <1>6, <1>9, <1>11 DEF MayFallBack, ChampionList

\* A list or a lone flag is only taken with a flag in it, and none is taken
\* only when there is no flag anywhere.
LEMMA FallbackHasFlags ==
  ASSUME RInv, Scanned
  PROVE  /\ fallback # None => /\ FlagLike(fallback.elems) > 0
                               /\ fallback.elems \in Seq(Kinds)
                               /\ FallbackN > 0
         /\ fallback = None => \A k \in DOMAIN response :
              response[k].form # "single" /\ FlagLike(response[k].elems) = 0
<1>1. ASSUME fallback # None
      PROVE  /\ FlagLike(fallback.elems) > 0 /\ fallback.elems \in Seq(Kinds)
             /\ FallbackN > 0
  BY <1>1, AllSeen DEF FallbackSoFar, Flags, FallbackN, Candidate
<1>2. ASSUME fallback = None, NEW k \in DOMAIN response
      PROVE  response[k].form # "single" /\ FlagLike(response[k].elems) = 0
  <2>1. response \in Responses
    BY AllSeen DEF RType
  <2>3. FlagLike(response[k].elems) \in Nat
    BY <2>1, ResponseType
  <2>4. SUFFICES ASSUME response[k].form = "single" \/ FlagLike(response[k].elems) > 0
                 PROVE  FALSE
    BY <2>3
  <2>5. PICK i \in Seen : Openings[i] = Opening("single", <<"flag">>, k)
    BY <2>1, <2>4, AllSeen, Met
  <2>6. IsBare(i) /\ Flags(i) = 1
    BY <2>5, AllSeen DEF IsBare, Opening
  <2> QED BY <1>2, <2>6, AllSeen DEF FallbackSoFar
<1> QED BY <1>1, <1>2

\* AnswerNotStolen, in the words of the two predicates above.
LEMMA NotStolen ==
  ASSUME outcome # "scanning" =>
           \A k \in DOMAIN response :
             /\ ChampionObject(k) =>
                  Returned /\ best = Opening("wrapped", response[k].elems, k)
             /\ ChampionList(k) =>
                  Returned /\ best = Opening("list", response[k].elems, k)
  PROVE  AnswerNotStolen
BY DEF AnswerNotStolen, ChampionObject, ChampionList

\* The scan ends in the best it met.
LEMMA ReturnRInv ==
  ASSUME RInv, ReturnBest \/ ReturnFallback
  PROVE  RInv'
<1>1. Scanned /\ RType
  BY DEF ReturnBest, ReturnFallback, RInv
<1>2. response' = response /\ opening' = opening /\ fallback' = fallback /\ outcome' = "flags"
  BY DEF ReturnBest, ReturnFallback
<1>3. Openings' = Openings
  BY <1>2 DEF Openings
<1>4. CASE ReturnBest
  <2>1. best' = best /\ best # None /\ ~Yields /\ ~Hollow(best.elems)
    BY <1>4 DEF ReturnBest
  <2>2. RType'
    BY <1>1, <1>2, <1>3, <2>1 DEF RType
  <2>3. \A k \in DOMAIN response : ~ChampionList(k)
    BY <1>1, <2>1, ListWins
  <2>4. AnswerNotStolen'
    BY <1>1, <1>2, <2>1, <2>3, ObjectWins
       DEF AnswerNotStolen, ChampionObject, ChampionList, Returned, NamesFlags
  <2>5. ZeroMeansNone'
    <3>1. ASSUME FlagLike(best.elems) = 0 PROVE fallback = None
      BY <1>1, <2>1, <3>1, FallbackHasFlags DEF Yields, BestN
    <3> QED BY <1>1, <1>2, <2>1, <3>1, FallbackHasFlags DEF ZeroMeansNone
  <2>6. CutOffIsRefused'
    <3>1. \E k \in DOMAIN response : Whole(response[k])
      BY <1>1, <2>1, BestIsWhole
    <3> QED BY <1>2, <3>1 DEF CutOffIsRefused
  <2>7. Hollow(best.elems)' = Hollow(best.elems)
    BY <2>1
  <2> QED BY <1>2, <2>1, <2>2, <2>4, <2>5, <2>6, <2>7 DEF RInv, LoaderTakesIt
<1>5. CASE ReturnFallback
  <2>1. MayFallBack /\ best' = fallback /\ fallback # None
    BY <1>5 DEF ReturnFallback, MayFallBack
  <2>2. RType'
    BY <1>1, <1>2, <1>3, <2>1 DEF RType
  <2>3. \A k \in DOMAIN response : ~ChampionObject(k)
    BY <1>1, <2>1, ObjectWins DEF MayFallBack
  <2>4. AnswerNotStolen'
    BY <1>1, <1>2, <2>1, <2>3, ListWins
       DEF AnswerNotStolen, ChampionObject, ChampionList, Returned, NamesFlags
  <2>5. FlagLike(fallback.elems) > 0 /\ fallback.elems \in Seq(Kinds)
    BY <1>1, <2>1, FallbackHasFlags
  <2>6. ZeroMeansNone'
    BY <2>1, <2>5 DEF ZeroMeansNone
  <2>7. CutOffIsRefused'
    <3>1. NamesFlags => \E k \in DOMAIN response : Whole(response[k])
      BY <1>1, <2>1, BestIsWhole DEF MayFallBack, Yields
    <3> QED BY <1>2, <3>1 DEF CutOffIsRefused, NamesFlags
  <2>8. ~Hollow(fallback.elems)
    BY <2>5, FlagsAreObjects
  <2> QED BY <1>2, <2>1, <2>2, <2>4, <2>6, <2>7, <2>8 DEF RInv, LoaderTakesIt
<1> QED BY <1>4, <1>5

LEMMA RaiseRInv ==
  ASSUME RInv, Raise
  PROVE  RInv'
<1>1. Scanned /\ RType
  BY DEF Raise, RInv
<1>2. UNCHANGED <<response, opening, best, fallback>> /\ outcome' = "error"
  BY DEF Raise
<1>3. RType'
  <2>1. Openings' = Openings
    BY <1>2 DEF Openings
  <2> QED BY <1>1, <1>2, <2>1 DEF RType
<1>4. \A k \in DOMAIN response : ~ChampionObject(k)
  BY <1>1, ObjectWins DEF Raise
<1>5. \A k \in DOMAIN response : ~ChampionList(k)
  BY <1>1, ListWins DEF Raise
<1>6. AnswerNotStolen'
  BY <1>2, <1>4, <1>5 DEF AnswerNotStolen, ChampionObject, ChampionList, NamesFlags
<1> QED BY <1>2, <1>3, <1>6 DEF RInv, ZeroMeansNone, CutOffIsRefused, LoaderTakesIt, Returned

LEMMA StepRInv == RInv /\ [RNext]_rvars => RInv'
<1> SUFFICES ASSUME RInv, [RNext]_rvars PROVE RInv'
  OBVIOUS
<1>1. RType
  BY DEF RInv
<1>2. CASE ScanWrapped
  <2>1. IsWrapped(opening) /\ ~IsBare(opening)
    BY <1>2 DEF ScanWrapped, Now, IsWrapped, IsBare
  <2> QED BY <1>2, <2>1, ScanRInv DEF ScanWrapped, Scanning, Now, Flags
<1>3. CASE ScanList
  <2>1. ~IsWrapped(opening) /\ IsBare(opening)
    BY <1>3 DEF ScanList, Now, IsWrapped, IsBare
  <2>2. Flags(opening) \in Nat /\ FallbackN \in Int
    BY <1>1, <1>3, Counts, FlagLikeNat
       DEF RType, ScanList, Scanning, FallbackN, Candidate
  <2>3. \/ fallback' = fallback /\ Flags(opening) <= FallbackN
        \/ fallback' = Openings[opening] /\ Flags(opening) > FallbackN
    BY <1>3, <2>2 DEF ScanList, Now, Flags
  <2> QED BY <1>3, <2>1, <2>3, ScanRInv DEF ScanList, Scanning
<1>4. CASE ScanSingle
  <2>1. ~IsWrapped(opening) /\ IsBare(opening)
    BY <1>4 DEF ScanSingle, Now, IsWrapped, IsBare
  <2>2. Flags(opening) = 1 /\ FallbackN \in Int
    BY <1>1, <1>4, Counts, FlagLikeNat
       DEF RType, ScanSingle, Scanning, Now, FallbackN, Candidate
  <2>3. \/ fallback' = fallback /\ Flags(opening) <= FallbackN
        \/ fallback' = Openings[opening] /\ Flags(opening) > FallbackN
    BY <1>4, <2>2 DEF ScanSingle, Now
  <2> QED BY <1>4, <2>1, <2>3, ScanRInv DEF ScanSingle, Scanning
<1>5. CASE ScanOther
  <2>1. ~IsWrapped(opening) /\ ~IsBare(opening)
    BY <1>5 DEF ScanOther, Now, IsWrapped, IsBare
  <2> QED BY <1>5, <2>1, ScanRInv DEF ScanOther, Scanning
<1>6. CASE ReturnBest \/ ReturnFallback
  BY <1>6, ReturnRInv
<1>7. CASE Raise
  BY <1>7, RaiseRInv
<1>8. CASE Load
  <2>1. UNCHANGED <<response, opening, best, fallback>> /\ outcome' = "loaded"
    BY <1>8 DEF Load, RInv, Hollow
  <2>2. Openings' = Openings
    BY <2>1 DEF Openings
  <2>3. RType'
    BY <1>1, <2>1, <2>2 DEF RType
  <2> QED BY <1>8, <2>1, <2>3
          DEF Load, RInv, AnswerNotStolen, ZeroMeansNone, CutOffIsRefused, LoaderTakesIt,
              Returned, NamesFlags
<1>9. CASE UNCHANGED rvars
  <2>1. Openings' = Openings
    BY <1>9 DEF rvars, Openings
  <2>2. Seen' = Seen
    BY <1>9 DEF rvars, Seen
  <2>3. RType'
    BY <1>1, <1>9, <2>1 DEF rvars, RType
  <2>4. BestSoFar' = BestSoFar /\ FallbackSoFar' = FallbackSoFar
    BY <1>9, <2>1, <2>2 DEF rvars, BestSoFar, FallbackSoFar, IsWrapped, IsBare, Flags
  <2> QED BY <1>9, <2>3, <2>4
          DEF rvars, RInv, AnswerNotStolen, ZeroMeansNone, CutOffIsRefused, LoaderTakesIt,
              Returned, NamesFlags
<1> QED BY <1>2, <1>3, <1>4, <1>5, <1>6, <1>7, <1>8, <1>9 DEF RNext

LEMMA AlwaysRInv == RSpec => []RInv
<1>1. RInit => RInv
  BY InitRInv
<1>2. RInv /\ [RNext]_rvars => RInv'
  BY StepRInv
<1> QED BY <1>1, <1>2, PTL DEF RSpec

-----------------------------------------------------------------------------
(* Theorems.                                                               *)

\* Of any response, the complete "flags" object with the most flags, or
\* without that word the list with the most, is the answer
\* (parse_detection_response): nothing around it takes its place.
THEOREM AnswerIsTheRichest == RSpec => []AnswerNotStolen
<1>1. RInv => AnswerNotStolen
  BY DEF RInv
<1> QED BY <1>1, AlwaysRInv, PTL

\* An answer without flags is only given of a response in which no complete
\* flag can be read.
THEOREM SilenceIsTrue == RSpec => []ZeroMeansNone
<1>1. RInv => ZeroMeansNone
  BY DEF RInv
<1> QED BY <1>1, AlwaysRInv, PTL

\* A response that names "flags" and has no complete object of that name is
\* refused.
THEOREM TruncationIsRefused == RSpec => []CutOffIsRefused
<1>1. RInv => CutOffIsRefused
  BY DEF RInv
<1> QED BY <1>1, AlwaysRInv, PTL

\* No answer of the parser is refused by the loader behind it
\* (labels.pred_flags_from_items).
THEOREM ParserFitsLoader == RSpec => []LoaderTakesIt
<1>1. RInv => LoaderTakesIt
  BY DEF RInv
<1> QED BY <1>1, AlwaysRInv, PTL
=============================================================================
