-------------------------- MODULE GoldenClipProofs --------------------------
(***************************************************************************)
(* The golden clips of the speech-to-text bench, for every script and      *)
(* every transcript.                                                       *)
(*                                                                         *)
(* The markup (module GoldenMarkup): a clip that passed the gate marks the *)
(* words its author bracketed, apart and in order, and a clip that was     *)
(* built and not edited fails for two reasons only.  The induction carries *)
(* where each token came from (FromScript), that the offsets grow along    *)
(* the tokens (InOrder), and that they point at the surfaces as long as    *)
(* nobody edits the file (Untouched).                                      *)
(*                                                                         *)
(* The bench (module TokenScoring): the gate refuses what was built when   *)
(* ids repeat or parts of a turn join, and never else; a report judges     *)
(* every token once, loses those of a turn that was not heard, hits those  *)
(* of a turn that was heard as it was said, and judges the others by what  *)
(* was heard between their neighbours, where these were aligned.  ScoreInv *)
(* follows the loops of score_meeting: the scores so far are those of the  *)
(* tokens passed (Counts), and each is just.                               *)
(***************************************************************************)
EXTENDS AlignmentProofs, GoldenMarkup, TokenScoring

LOCAL INSTANCE SequencesExt

\* The pieces of a text: strings, among them the two that the module adds to
\* texts itself.
Piece == STRING \cup {"han", "x"}

-----------------------------------------------------------------------------
(* Ranks.                                                                  *)

UpTo(S, n) == { m \in S : m <= n }

\* A larger member has a larger rank.
LEMMA RanksDiffer ==
  ASSUME NEW S \in SUBSET Int, IsFiniteSet(S), NEW n \in S, NEW p \in S, n < p
  PROVE  Cardinality(UpTo(S, n)) # Cardinality(UpTo(S, p))
<1>1. UpTo(S, n) \in SUBSET UpTo(S, p) /\ p \in UpTo(S, p) /\ p \notin UpTo(S, n)
  <2>1. n \in Int /\ p \in Int /\ \A m \in S : m \in Int
    OBVIOUS
  <2>2. \A m \in S : m <= n => m <= p
    BY <2>1
  <2>3. p <= p /\ ~(p <= n)
    BY <2>1
  <2> QED BY <2>2, <2>3 DEF UpTo
<1>2. IsFiniteSet(UpTo(S, p))
  BY FS_Subset DEF UpTo
<1> QED BY <1>1, <1>2, FS_Subset

\* A finite set of numbers has a k-th smallest member for each k up to its
\* size.
LEMMA NthRanks ==
  ASSUME NEW S \in SUBSET Int, IsFiniteSet(S), NEW k \in 1 .. Cardinality(S)
  PROVE  Nth(S, k) \in S /\ Cardinality(UpTo(S, Nth(S, k))) = k
<1> DEFINE c == Cardinality(S)
           I == 1 .. c
           r == [n \in S |-> Cardinality(UpTo(S, n))]
<1>1. c \in Nat
  BY FS_CardinalityType
<1>2. IsFiniteSet(I) /\ Cardinality(I) = c
  BY <1>1, FS_Interval
<1>3. ASSUME NEW n \in S PROVE Cardinality(UpTo(S, n)) \in I
  <2>1. UpTo(S, n) \in SUBSET S /\ n \in UpTo(S, n)
    BY DEF UpTo
  <2>2. IsFiniteSet(UpTo(S, n)) /\ Cardinality(UpTo(S, n)) <= c
    BY <2>1, FS_Subset
  <2>3. Cardinality(UpTo(S, n)) \in Nat /\ Cardinality(UpTo(S, n)) # 0
    BY <2>1, <2>2, FS_CardinalityType, FS_EmptySet
  <2> QED BY <1>1, <2>2, <2>3
<1>4. r \in Injection(S, I)
  <2>1. r \in [S -> I]
    BY <1>3
  <2>2. \A n, p \in S : r[n] = r[p] => n = p
    BY RanksDiffer
  <2> QED BY <2>1, <2>2 DEF Injection, IsInjective
<1>5. \A n \in S : r[n] = Cardinality(UpTo(S, n))
  OBVIOUS
<1> HIDE DEF r
<1>6. r \in Surjection(S, I)
  BY <1>2, <1>4, FS_Injection
<1>7. PICK n \in S : r[n] = k
  BY <1>6 DEF Surjection
<1>8. \E m \in S : Cardinality(UpTo(S, m)) = k
  BY <1>5, <1>7
<1> QED BY <1>8 DEF Nth, UpTo

\* Among the first L numbers, the k-th smallest is k.
LEMMA NthOfInterval ==
  ASSUME NEW L \in Nat, NEW k \in 1 .. L
  PROVE  Nth(1 .. L, k) = k
<1> DEFINE S == 1 .. L
           n == Nth(S, k)
<1>1. S \in SUBSET Int /\ IsFiniteSet(S) /\ Cardinality(S) = L
  BY FS_Interval
<1>2. n \in S /\ Cardinality(UpTo(S, n)) = k
  <2> HIDE DEF S
  <2> QED BY <1>1, NthRanks
<1>3. UpTo(S, n) = 1 .. n
  BY <1>2 DEF UpTo
<1> HIDE DEF n
<1>4. Cardinality(1 .. n) = n
  BY <1>2, FS_Interval
<1> QED BY <1>2, <1>3, <1>4 DEF n

-----------------------------------------------------------------------------
(* Normalising.                                                            *)

Kept(s) == { n \in DOMAIN s : ~Closes(s, n) }

\* What normalising keeps of a text.
LEMMA KeptIsFinite ==
  ASSUME NEW A, NEW s \in Seq(A)
  PROVE  /\ Kept(s) \in SUBSET Int /\ IsFiniteSet(Kept(s)) /\ Kept(s) \subseteq 1 .. Len(s)
         /\ Cardinality(Kept(s)) \in Nat
<1>1. Kept(s) \in SUBSET (1 .. Len(s)) /\ Len(s) \in Nat
  BY DEF Kept
<1>2. IsFiniteSet(1 .. Len(s))
  BY <1>1, FS_Interval
<1> QED BY <1>1, <1>2, FS_Subset, FS_CardinalityType

\* A normalised text is a text.
LEMMA NfcIsText ==
  ASSUME NEW s \in Seq(Piece)
  PROVE  Nfc(s) \in Seq(Piece)
<1> DEFINE c == Cardinality(Kept(s))
<1>1. ASSUME NEW k \in 1 .. c PROVE Nth(Kept(s), k) \in 1 .. Len(s)
  BY KeptIsFinite, NthRanks
<1>2. Nfc(s) = [k \in 1 .. c |-> IF Closes(s, Nth(Kept(s), k) + 1) THEN "han"
                                 ELSE s[Nth(Kept(s), k)]]
  BY DEF Nfc, Kept
<1>3. ASSUME NEW k \in 1 .. c
      PROVE  (IF Closes(s, Nth(Kept(s), k) + 1) THEN "han" ELSE s[Nth(Kept(s), k)]) \in Piece
  <2>1. \A i \in 1 .. Len(s) : s[i] \in Piece
    OBVIOUS
  <2>2. s[Nth(Kept(s), k)] \in Piece
    BY <1>1, <2>1
  <2>3. "han" \in Piece
    BY DEF Piece
  <2> QED BY <2>2, <2>3, Zenon
<1>4. c \in Nat
  BY KeptIsFinite
<1> HIDE DEF c
<1> QED BY <1>2, <1>3, <1>4

\* Text without a consonant behind an open syllable is in NFC.
LEMMA ApartIsNfc ==
  ASSUME NEW A, NEW s \in Seq(A), \A n \in DOMAIN s : ~Closes(s, n)
  PROVE  Nfc(s) = s
<1> DEFINE L == Len(s)
<1>1. L \in Nat /\ DOMAIN s = 1 .. L
  OBVIOUS
<1>2. Kept(s) = 1 .. L
  BY DEF Kept
<1>3. Cardinality(1 .. L) = L
  BY <1>1, FS_Interval
<1>4. \A k \in 1 .. L : Nth(1 .. L, k) = k
  BY <1>1, NthOfInterval
<1>5. \A n : ~Closes(s, n)
  BY DEF Closes
<1>6. Nfc(s) = [k \in 1 .. Cardinality(Kept(s)) |->
                  IF Closes(s, Nth(Kept(s), k) + 1) THEN "han" ELSE s[Nth(Kept(s), k)]]
  BY DEF Nfc, Kept
<1>7. Nfc(s) = [k \in 1 .. L |-> s[k]]
  BY <1>2, <1>3, <1>4, <1>5, <1>6
<1> QED BY <1>1, <1>7

\* Text with a consonant behind an open syllable is not in NFC.
LEMMA JoinedIsNotNfc ==
  ASSUME NEW A, NEW s \in Seq(A), NEW n, Closes(s, n)
  PROVE  Nfc(s) # s
<1> DEFINE c == Cardinality(Kept(s))
<1>1. n \in 1 .. Len(s) /\ Len(s) \in Nat /\ DOMAIN s = 1 .. Len(s)
  BY DEF Closes
<1>2. Kept(s) \in SUBSET (1 .. Len(s)) /\ n \notin Kept(s)
  BY <1>1 DEF Kept
<1>3. IsFiniteSet(1 .. Len(s)) /\ Cardinality(1 .. Len(s)) = Len(s)
  BY <1>1, FS_Interval
<1>4. c # Len(s)
  BY <1>1, <1>2, <1>3, FS_Subset
<1>5. c \in Nat
  BY KeptIsFinite
<1>6. Nfc(s) = [k \in 1 .. c |-> IF Closes(s, Nth(Kept(s), k) + 1) THEN "han"
                                 ELSE s[Nth(Kept(s), k)]]
  BY DEF Nfc, Kept
<1> HIDE DEF c
<1>7. Len(Nfc(s)) = c
  BY <1>5, <1>6
<1> QED BY <1>4, <1>7

-----------------------------------------------------------------------------
(* Slices.                                                                 *)

\* The first of several fields is the text in front of the first bar.
LEMMA FirstField ==
  ASSUME NEW s \in Seq(Piece), Len(SplitAtBars(s)) >= 2
  PROVE  \E c \in DOMAIN s : s[c] = "|" /\ SplitAtBars(s)[1] = SubSeq(s, 1, c - 1)
<1> DEFINE L == Len(s)
           bars == { n \in DOMAIN s : s[n] = "|" }
           cuts == {0, L + 1} \cup bars
           C == Cardinality(cuts)
<1>1. L \in Nat /\ DOMAIN s = 1 .. L
  OBVIOUS
<1>2. cuts \in SUBSET (0 .. L + 1) /\ cuts \in SUBSET Int
  BY <1>1
<1>3. IsFiniteSet(cuts) /\ C \in Nat
  <2>1. IsFiniteSet(0 .. L + 1)
    BY <1>1, FS_Interval
  <2> HIDE DEF cuts
  <2> QED BY <1>2, <2>1, FS_Subset, FS_CardinalityType
<1>4. SplitAtBars(s) = [k \in 1 .. C - 1 |-> SubSeq(s, Nth(cuts, k) + 1, Nth(cuts, k + 1) - 1)]
  BY DEF SplitAtBars
<1>5. 0 \in cuts /\ L + 1 \in cuts /\ \A n \in cuts : n >= 0 /\ n <= L + 1
  BY <1>2
<1>6. \A n \in cuts : n # 0 /\ n # L + 1 => n \in DOMAIN s /\ s[n] = "|"
  OBVIOUS
<1> HIDE DEF cuts, C, L
<1>7. Len(SplitAtBars(s)) = C - 1
  <2>1. CASE C = 0
    <3>1. cuts = {}
      BY <1>3, <2>1, FS_EmptySet DEF C
    <3> QED BY <1>5, <3>1
  <2>2. CASE C >= 1
    BY <1>3, <1>4, <2>2
  <2> QED BY <1>3, <2>1, <2>2
<1>8. C >= 3
  BY <1>3, <1>7
<1>9. /\ Nth(cuts, 1) \in cuts /\ Cardinality(UpTo(cuts, Nth(cuts, 1))) = 1
      /\ Nth(cuts, 2) \in cuts /\ Cardinality(UpTo(cuts, Nth(cuts, 2))) = 2
  <2>1. 1 \in 1 .. Cardinality(cuts) /\ 2 \in 1 .. Cardinality(cuts)
    BY <1>3, <1>8 DEF C
  <2> QED BY <1>2, <1>3, <2>1, NthRanks
<1>10. UpTo(cuts, 0) = {0} /\ UpTo(cuts, L + 1) = cuts
  <2>1. \A n \in cuts : n \in Int /\ (n <= 0 <=> n = 0)
    BY <1>2, <1>5
  <2> QED BY <1>5, <2>1 DEF UpTo
<1>11. Cardinality(UpTo(cuts, 0)) = 1 /\ Cardinality(UpTo(cuts, L + 1)) >= 3
  BY <1>8, <1>10, FS_Singleton DEF C
<1>12. Nth(cuts, 1) = 0
  <2>1. Nth(cuts, 1) \in Int /\ Nth(cuts, 1) >= 0
    BY <1>2, <1>5, <1>9
  <2>2. CASE 0 < Nth(cuts, 1)
    <3>1. Cardinality(UpTo(cuts, 0)) # Cardinality(UpTo(cuts, Nth(cuts, 1)))
      BY <1>2, <1>3, <1>5, <1>9, <2>2, RanksDiffer
    <3> QED BY <1>9, <1>11, <3>1
  <2> QED BY <2>1, <2>2
<1>13. Nth(cuts, 2) # 0 /\ Nth(cuts, 2) # L + 1
  BY <1>9, <1>11
<1> DEFINE c == Nth(cuts, 2)
<1>14. c \in DOMAIN s /\ s[c] = "|"
  BY <1>6, <1>9, <1>13
<1>15. SplitAtBars(s)[1] = SubSeq(s, 0 + 1, c - 1)
  <2>1. 1 \in 1 .. C - 1
    BY <1>3, <1>8
  <2>2. SplitAtBars(s)[1] = SubSeq(s, Nth(cuts, 1) + 1, Nth(cuts, 1 + 1) - 1)
    BY <1>4, <2>1
  <2>3. 1 + 1 = 2
    OBVIOUS
  <2>4. SplitAtBars(s)[1] = SubSeq(s, 0 + 1, Nth(cuts, 2) - 1)
    BY <1>12, <2>2, <2>3, Zenon
  <2> QED BY <2>4
<1> HIDE DEF c
<1>16. SplitAtBars(s)[1] = SubSeq(s, 1, c - 1)
  BY <1>15
<1> QED BY <1>14, <1>16

\* What stands in a text stays in its place when text is added behind it.
LEMMA PrefixSlice ==
  ASSUME NEW s \in Seq(Piece), NEW t \in Seq(Piece),
         NEW a \in Nat \ {0}, NEW b \in Nat, b <= Len(s)
  PROVE  SubSeq(s \o t, a, b) = SubSeq(s, a, b)
<1>1. CASE b < a
  BY <1>1, SubSeqEmpty
<1>2. CASE a <= b
  <2>1. a \in 1 .. Len(s) /\ b \in 1 .. Len(s)
    BY <1>2
  <2> QED BY <2>1, SubSeqOfConcat1
<1> QED BY <1>1, <1>2

\* What is added behind a text stands there.
LEMMA SuffixSlice ==
  ASSUME NEW s \in Seq(Piece), NEW t \in Seq(Piece), t # <<>>
  PROVE  SubSeq(s \o t, Len(s) + 1, Len(s) + Len(t)) = t
<1> DEFINE a == Len(s)  b == Len(t)
<1>1. a \in Nat /\ b \in Nat /\ b # 0
  OBVIOUS
<1>2. /\ a + 1 \in a + 1 .. a + b /\ a + b \in a + 1 .. a + b
      /\ (a + 1) - a = 1 /\ (a + b) - a = b
  BY <1>1
<1>3. SubSeq(s \o t, a + 1, a + b) = SubSeq(t, (a + 1) - a, (a + b) - a)
  BY <1>2, SubSeqOfConcat2
<1>4. SubSeq(s \o t, a + 1, a + b) = SubSeq(t, 1, b)
  BY <1>2, <1>3
<1> QED BY <1>4, SubSeqFull

\* A part of a text is text.
LEMMA SliceIsText ==
  ASSUME NEW s \in Seq(Piece), NEW a \in Nat \ {0}, NEW b \in Int, b <= Len(s)
  PROVE  /\ SubSeq(s, a, b) \in Seq(Piece)
         /\ a <= b => Len(SubSeq(s, a, b)) = b - a + 1
<1>1. \A i \in a .. b : s[i] \in Piece
  OBVIOUS
<1> QED BY <1>1, SubSeqProperties

\* A text continued by a text.
LEMMA TextJoined ==
  ASSUME NEW s \in Seq(Piece), NEW t \in Seq(Piece)
  PROVE  s \o t \in Seq(Piece) /\ Len(s \o t) = Len(s) + Len(t)
BY ConcatProperties

-----------------------------------------------------------------------------
(* The induction.                                                          *)

IsText == raw \in Seq(Piece) /\ clean \in Seq(Piece) /\ idx \in 0 .. Len(raw)


Bracketed(surface) ==
  \E i, j \in DOMAIN raw : /\ raw[i] = "[[" /\ raw[j] = "|" /\ i < j
                           /\ SubSeq(raw, i + 1, j - 1) = surface

\* Every token has its words between a "[[" and a bar of the script.
FromScript == \A k \in DOMAIN spans : Bracketed(spans[k].surface)

\* The offsets are 1-based and grow along the tokens.
InOrder ==
  \A k \in DOMAIN spans :
    /\ spans[k].first \in Nat \ {0} /\ spans[k].last \in Nat
    /\ k > 1 => spans[k - 1].last < spans[k].first

\* Until a hand edits the file the offsets point at the surfaces.
Untouched == ~edited => \A k \in DOMAIN spans : InSlice(spans[k])

\* What each state of the clip says.
Stage ==
  /\ clip \in {"stripping", "stripped"} => ~edited
  /\ clip \in {"built", "loaded", "unloadable", "passed", "refused"} =>
       \A k \in DOMAIN spans : Derivable(spans[k])
  /\ clip = "passed" => \A k \in DOMAIN spans : InSlice(spans[k])
  /\ clip = "unloadable" => \E k \in DOMAIN spans : spans[k].type \notin Known
  /\ clip = "refused" => \/ Nfc(clean) # clean
                         \/ \E k \in DOMAIN spans : ~InSlice(spans[k])

MInv == IsText /\ IsList(spans) /\ FromScript /\ InOrder /\ Untouched /\ Stage

\* A turn that has been normalised, before the first token.
LEMMA InitMarked == MInit => MInv
<1> SUFFICES ASSUME MInit PROVE MInv
  OBVIOUS
<1>1. PICK s \in Scripts : raw = Nfc(s)
  BY DEF MInit
<1>2. s \in Seq(Piece)
  <2>1. s \in Seq(STRING)
    BY ScriptsAssumption
  <2>2. \A n \in 1 .. Len(s) : s[n] \in Piece
    BY <2>1 DEF Piece
  <2> QED BY <2>1, <2>2
<1>3. raw \in Seq(Piece)
  BY <1>1, <1>2, NfcIsText
<1>4. IsText /\ IsList(spans)
  BY <1>3 DEF MInit, IsText, IsList
<1>5. DOMAIN spans = {}
  BY DEF MInit
<1> QED BY <1>4, <1>5 DEF MInit, MInv, FromScript, InOrder, Untouched, Stage

\* Adding a token to the list.
LEMMA Appended ==
  ASSUME IsList(spans), NEW sp
  PROVE  LET app == Append(spans, sp)  n == Len(spans)
         IN /\ n \in Nat /\ DOMAIN spans = 1 .. n
            /\ Len(app) = n + 1 /\ DOMAIN app = 1 .. n + 1
            /\ app = [k \in 1 .. n + 1 |-> app[k]]
            /\ \A k \in 1 .. n : app[k] = spans[k]
            /\ app[n + 1] = sp
<1> DEFINE app == Append(spans, sp)
<1>1. /\ IsList(app) /\ Len(app) = Len(spans) + 1 /\ app[Len(spans) + 1] = sp
      /\ \A k \in 1 .. Len(spans) : app[k] = spans[k]
  BY ListGrows
<1>2. Len(spans) \in Nat /\ DOMAIN spans = 1 .. Len(spans)
  BY DEF IsList
<1> HIDE DEF app
<1>3. DOMAIN app = 1 .. Len(spans) + 1 /\ app = [k \in 1 .. Len(spans) + 1 |-> app[k]]
  BY <1>1, <1>2 DEF IsList
<1> QED BY <1>1, <1>2, <1>3 DEF app

\* Where a token is found, and what stands in it.
LEMMA TokenFound ==
  ASSUME IsText, Starts # {}, WellMarked
  PROVE  /\ Start \in idx + 1 .. Len(raw) /\ Stop \in 1 .. Len(raw)
         /\ Fields[1] \in Seq(Piece) /\ Fields[1] # <<>>
         /\ Bracketed(Fields[1])
<1>1. Starts \in SUBSET Nat /\ Starts # {}
  BY DEF Starts, IsText
<1>2. Start \in Starts
  <2>1. \E n \in Starts : \A m \in Starts : n <= m
    BY <1>1, LeastNatural
  <2> QED BY <2>1 DEF Start, Lowest
<1>3. Ends(Start) \in SUBSET Nat /\ Ends(Start) # {}
  BY <1>2 DEF Ends, Starts, IsText
<1>4. Stop \in Ends(Start)
  <2>1. \E n \in Ends(Start) : \A m \in Ends(Start) : n <= m
    BY <1>3, LeastNatural
  <2> QED BY <2>1 DEF Stop, Lowest
<1> DEFINE L == Len(raw)
           a == Start
           b == Stop
           s == SubSeq(raw, a + 1, b - 1)
<1>5. /\ a \in idx + 1 .. L /\ b \in a + 2 .. L /\ raw[a] = "[["
      /\ L \in Nat /\ idx \in 0 .. L /\ DOMAIN raw = 1 .. L
  BY <1>2, <1>4 DEF Starts, Ends, IsText
<1>6. Fields = SplitAtBars(s) /\ Len(Fields) >= 2 /\ Fields[1] # <<>>
  BY DEF WellMarked, Fields
<1> HIDE DEF a, b, L
<1>7. /\ s \in Seq(Piece) /\ Len(s) = b - a - 1
      /\ \A i \in 1 .. b - a - 1 : s[i] = raw[a + i]
  <2>1. /\ a + 1 \in Nat \ {0} /\ b - 1 \in Int /\ b - 1 <= Len(raw) /\ a + 1 <= b - 1
        /\ (b - 1) - (a + 1) + 1 = b - a - 1
    BY <1>5 DEF L
  <2>2. \A i \in a + 1 .. b - 1 : raw[i] \in Piece
    BY <2>1 DEF IsText
  <2>3. /\ s \in Seq(Piece) /\ Len(s) = (b - 1) - (a + 1) + 1
        /\ \A i \in 1 .. (b - 1) - (a + 1) + 1 : s[i] = raw[a + 1 + i - 1]
    BY <2>1, <2>2, SubSeqProperties
  <2>4. a \in Int /\ b \in Int
    BY <1>5
  <2>5. \A i \in 1 .. b - a - 1 : /\ a + 1 + i - 1 = a + i
                                  /\ i \in 1 .. (b - 1) - (a + 1) + 1
    BY <2>4
  <2>6. \A i \in 1 .. b - a - 1 : s[i] = raw[a + i]
    BY <2>3, <2>5
  <2> QED BY <2>1, <2>3, <2>6
<1> HIDE DEF s
<1>8. PICK c \in DOMAIN s : s[c] = "|" /\ Fields[1] = SubSeq(s, 1, c - 1)
  BY <1>6, <1>7, FirstField
<1>9. /\ c \in 1 .. b - a - 1 /\ raw[a + c] = "|"
      /\ a + c \in DOMAIN raw /\ a \in DOMAIN raw /\ a < a + c
  <2>1. c \in 1 .. b - a - 1
    BY <1>7
  <2> QED BY <1>5, <1>7, <1>8, <2>1
<1>10. Fields[1] = SubSeq(raw, a + 1, a + c - 1)
  <2>1. CASE c = 1
    <3>1. SubSeq(s, 1, c - 1) = <<>>
      BY <2>1, SubSeqEmpty
    <3> QED BY <1>6, <1>8, <3>1
  <2>2. CASE c > 1
    <3> DEFINE i0 == a + 1  j0 == b - 1  n0 == c - 1
    <3>1. /\ i0 \in 1 .. Len(raw) /\ j0 \in 1 .. Len(raw)
          /\ 1 \in 1 .. j0 - i0 + 1 /\ n0 \in 1 .. j0 - i0 + 1
      BY <1>5, <1>9, <2>2 DEF L
    <3>3. i0 + 1 - 1 = a + 1 /\ i0 + n0 - 1 = a + c - 1
      BY <1>5, <1>9
    <3>4. s = SubSeq(raw, i0, j0) /\ Fields[1] = SubSeq(s, 1, n0) /\ raw \in Seq(Piece)
      BY <1>8 DEF s, IsText
    <3> HIDE DEF i0, j0, n0
    <3>2. SubSeq(SubSeq(raw, i0, j0), 1, n0) = SubSeq(raw, i0 + 1 - 1, i0 + n0 - 1)
      BY <3>1, <3>4, SubSeqOfSubSeq
    <3> QED BY <3>2, <3>3, <3>4
  <2> QED BY <1>9, <2>1, <2>2
<1>11. Fields[1] \in Seq(Piece)
  <2> DEFINE n0 == c - 1
  <2>1. 1 \in Nat \ {0} /\ n0 \in Int /\ n0 <= Len(s)
    BY <1>5, <1>7, <1>9
  <2>2. Fields[1] = SubSeq(s, 1, n0)
    BY <1>8
  <2> HIDE DEF n0
  <2> QED BY <1>7, <2>1, <2>2, SliceIsText
<1>12. Bracketed(Fields[1])
  <2>1. a < a + c /\ SubSeq(raw, a + 1, (a + c) - 1) = Fields[1]
    <3>1. a + c - 1 = (a + c) - 1
      BY <1>5, <1>9
    <3> QED BY <1>9, <1>10, <3>1, Zenon
  <2> QED BY <1>5, <1>9, <2>1 DEF Bracketed
<1> QED BY <1>5, <1>6, <1>11, <1>12 DEF a, b, L
\* The clip moves on and nothing else changes.
LEMMA MovedOn ==
  ASSUME MInv, UNCHANGED <<raw, idx, clean, spans, edited>>
  PROVE  IsText' /\ IsList(spans)' /\ FromScript' /\ InOrder' /\ Untouched'
BY DEF MInv, IsText, IsList, FromScript, Bracketed, InOrder, Untouched, InSlice

\* A token taken out of its brackets.
LEMMA StripTokenMarks == MInv /\ StripToken => MInv'
<1> SUFFICES ASSUME MInv, StripToken PROVE MInv'
  OBVIOUS
<1> DEFINE f == Fields[1]
           n == Len(spans)
           new == [surface |-> Fields[1], type |-> Fields[2],
                   manual |-> Extra.manual, key |-> Extra.key,
                   first |-> Len(Ahead) + 1,
                   last |-> Len(Ahead) + Len(Fields[1])]
<1>1. /\ clean' = Ahead \o f /\ spans' = Append(spans, new)
      /\ idx' = Stop /\ UNCHANGED <<raw, edited, clip>>
      /\ clip = "stripping" /\ Starts # {} /\ WellMarked
  BY DEF StripToken
<1>2. /\ Start \in idx + 1 .. Len(raw) /\ Stop \in 1 .. Len(raw)
      /\ f \in Seq(Piece) /\ f # <<>> /\ Bracketed(f)
  BY <1>1, TokenFound DEF MInv
<1>3. /\ n \in Nat /\ DOMAIN spans = 1 .. n
      /\ Len(spans') = n + 1 /\ DOMAIN spans' = 1 .. n + 1
      /\ spans' = [k \in 1 .. n + 1 |-> spans'[k]]
      /\ \A k \in 1 .. n : spans'[k] = spans[k]
      /\ spans'[n + 1] = new
  BY <1>1, Appended DEF MInv
<1> DEFINE gap == SubSeq(raw, idx + 1, Start - 1)
<1>4. /\ clean \in Seq(Piece) /\ Len(clean) \in Nat
      /\ gap \in Seq(Piece) /\ Len(gap) \in Nat
  <2>1. /\ idx + 1 \in Nat \ {0} /\ Start - 1 \in Int /\ Start - 1 <= Len(raw)
        /\ raw \in Seq(Piece)
    BY <1>2 DEF MInv, IsText
  <2>2. gap \in Seq(Piece)
    BY <2>1, SliceIsText
  <2> QED BY <2>2 DEF MInv, IsText
<1>5. /\ Ahead = clean \o gap /\ Ahead \in Seq(Piece)
      /\ Len(Ahead) = Len(clean) + Len(gap)
  BY <1>4, TextJoined DEF Ahead
<1> HIDE DEF gap
<1>6. clean' \in Seq(Piece) /\ Len(clean') = Len(Ahead) + Len(f)
  BY <1>1, <1>2, <1>5, TextJoined
<1>7. Len(f) \in Nat /\ Len(Ahead) \in Nat /\ Len(clean) <= Len(Ahead)
  BY <1>2, <1>4, <1>5
<1>8. new.first = Len(Ahead) + 1 /\ new.last = Len(Ahead) + Len(f) /\ new.surface = f
  OBVIOUS
<1> HIDE DEF new, f, n
<1>9. IsText'
  <2>1. Stop \in 0 .. Len(raw)
    BY <1>2 DEF MInv, IsText
  <2> QED BY <1>1, <1>6, <2>1 DEF MInv, IsText
<1>10. IsList(spans)'
  <2>1. n + 1 \in Nat
    BY <1>3
  <2> QED BY <1>3, <2>1 DEF IsList
<1>11. ASSUME NEW k \in DOMAIN spans', k # n + 1
       PROVE  k \in 1 .. n /\ k \in DOMAIN spans /\ spans'[k] = spans[k]
  BY <1>3, <1>11
<1>12. FromScript'
  <2> SUFFICES ASSUME NEW k \in DOMAIN spans'
               PROVE  Bracketed(spans'[k].surface)
    BY <1>1 DEF FromScript, Bracketed
  <2>1. CASE k = n + 1
    BY <1>2, <1>3, <1>8, <2>1
  <2>2. CASE k # n + 1
    BY <1>11, <2>2 DEF MInv, FromScript
  <2> QED BY <2>1, <2>2
<1>13. \A k \in DOMAIN spans : /\ spans[k].first \in Nat \ {0} /\ spans[k].last \in Nat
                               /\ spans[k].last <= Len(clean)
                               /\ InSlice(spans[k])
  BY <1>1 DEF MInv, InOrder, Stage, Untouched, InSlice
<1>14. InOrder'
  <2> SUFFICES ASSUME NEW k \in DOMAIN spans'
               PROVE  /\ spans'[k].first \in Nat \ {0} /\ spans'[k].last \in Nat
                      /\ k > 1 => spans'[k - 1].last < spans'[k].first
    BY DEF InOrder
  <2>1. CASE k = n + 1
    <3>1. spans'[k].first = Len(Ahead) + 1 /\ spans'[k].last = Len(Ahead) + Len(f)
      BY <1>3, <1>8, <2>1
    <3>2. CASE k > 1
      <4>1. k - 1 \in 1 .. n /\ spans'[k - 1] = spans[k - 1]
        BY <1>3, <2>1, <3>2
      <4>2. spans[k - 1].last \in Nat /\ spans[k - 1].last <= Len(clean)
        BY <1>3, <1>13, <4>1
      <4>3. spans'[k - 1].last < spans'[k].first
        BY <1>4, <1>7, <3>1, <4>1, <4>2
      <4> QED BY <1>7, <3>1, <4>3
    <3> QED BY <1>7, <3>1, <3>2
  <2>2. CASE k # n + 1
    <3>1. k \in 1 .. n /\ k \in DOMAIN spans /\ spans'[k] = spans[k]
      BY <1>11, <2>2
    <3>2. k > 1 => k - 1 \in 1 .. n /\ spans'[k - 1] = spans[k - 1]
      BY <1>3, <3>1
    <3> QED BY <3>1, <3>2 DEF MInv, InOrder
  <2> QED BY <2>1, <2>2
<1>15. Untouched'
  <2> SUFFICES ASSUME NEW k \in DOMAIN spans'
               PROVE  /\ spans'[k].last <= Len(clean')
                      /\ SubSeq(clean', spans'[k].first, spans'[k].last) = spans'[k].surface
    BY DEF Untouched, InSlice
  <2>1. CASE k = n + 1
    <3>1. SubSeq(Ahead \o f, Len(Ahead) + 1, Len(Ahead) + Len(f)) = f
      BY <1>2, <1>5, SuffixSlice
    <3>2. /\ spans'[k].first = Len(Ahead) + 1 /\ spans'[k].last = Len(Ahead) + Len(f)
          /\ spans'[k].surface = f
      BY <1>3, <1>8, <2>1
    <3> QED BY <1>1, <1>6, <1>7, <3>1, <3>2
  <2>2. CASE k # n + 1
    <3>1. k \in DOMAIN spans /\ spans'[k] = spans[k]
      BY <1>11, <2>2
    <3> DEFINE a == spans[k].first  b == spans[k].last
    <3>2. /\ a \in Nat \ {0} /\ b \in Nat /\ b <= Len(clean)
          /\ SubSeq(clean, a, b) = spans[k].surface
      BY <1>13, <3>1 DEF InSlice
    <3> HIDE DEF a, b
    <3>3. SubSeq(clean \o gap, a, b) = SubSeq(clean, a, b)
      BY <1>4, <3>2, PrefixSlice
    <3>4. b <= Len(Ahead)
      BY <1>4, <1>7, <3>2
    <3>5. SubSeq(Ahead \o f, a, b) = SubSeq(Ahead, a, b)
      BY <1>2, <1>5, <3>2, <3>4, PrefixSlice
    <3>6. SubSeq(clean', a, b) = spans[k].surface
      BY <1>1, <1>5, <3>2, <3>3, <3>5
    <3>7. b <= Len(clean')
      BY <1>6, <1>7, <3>2, <3>4
    <3> QED BY <3>1, <3>6, <3>7 DEF a, b
  <2> QED BY <2>1, <2>2
<1>16. Stage'
  BY <1>1 DEF MInv, Stage
<1> QED BY <1>9, <1>10, <1>12, <1>14, <1>15, <1>16 DEF MInv

\* The text behind the last token.
LEMMA StripRestMarks == MInv /\ StripRest => MInv'
<1> SUFFICES ASSUME MInv, StripRest PROVE MInv'
  OBVIOUS
<1> DEFINE rest == SubSeq(raw, idx + 1, Len(raw))
<1>1. /\ clean' = clean \o rest /\ UNCHANGED <<raw, idx, spans, edited>>
      /\ clip = "stripping" /\ clip' \in {"malformed", "stripped"}
  BY DEF StripRest
<1>2. /\ clean \in Seq(Piece) /\ Len(clean) \in Nat
      /\ rest \in Seq(Piece) /\ Len(rest) \in Nat
  <2>1. /\ idx + 1 \in Nat \ {0} /\ Len(raw) \in Int /\ Len(raw) <= Len(raw)
        /\ raw \in Seq(Piece)
    BY DEF MInv, IsText
  <2>2. rest \in Seq(Piece)
    BY <2>1, SliceIsText
  <2> QED BY <2>2 DEF MInv, IsText
<1> HIDE DEF rest
<1>3. clean' \in Seq(Piece) /\ Len(clean') = Len(clean) + Len(rest)
  BY <1>1, <1>2, TextJoined
<1>4. IsText' /\ IsList(spans)' /\ FromScript' /\ InOrder'
  BY <1>1, <1>3 DEF MInv, IsText, IsList, FromScript, Bracketed, InOrder
<1>5. Untouched'
  <2> SUFFICES ASSUME NEW k \in DOMAIN spans
               PROVE  /\ spans[k].last <= Len(clean')
                      /\ SubSeq(clean', spans[k].first, spans[k].last) = spans[k].surface
    BY <1>1 DEF Untouched, InSlice
  <2> DEFINE a == spans[k].first  b == spans[k].last
  <2>1. /\ a \in Nat \ {0} /\ b \in Nat /\ b <= Len(clean)
        /\ SubSeq(clean, a, b) = spans[k].surface
    BY <1>1 DEF MInv, InOrder, Stage, Untouched, InSlice
  <2> HIDE DEF a, b
  <2>2. SubSeq(clean \o rest, a, b) = SubSeq(clean, a, b)
    BY <1>2, <2>1, PrefixSlice
  <2>3. b <= Len(clean')
    BY <1>2, <1>3, <2>1
  <2> QED BY <1>1, <2>1, <2>2, <2>3 DEF a, b
<1>6. Stage'
  BY <1>1 DEF MInv, Stage
<1> QED BY <1>4, <1>5, <1>6 DEF MInv

\* The golden file edited by hand.
LEMMA EditTextMarks == MInv /\ EditText => MInv'
<1> SUFFICES ASSUME MInv, EditText PROVE MInv'
  OBVIOUS
<1>1. /\ clip = "built" /\ edited' = TRUE /\ UNCHANGED <<raw, idx, spans, clip>>
  BY DEF EditText
<1>2. clean' \in Seq(Piece)
  <2>1. PICK n \in 0 .. Len(clean) :
          \/ clean' = SubSeq(clean, 1, n) \o <<"x">> \o SubSeq(clean, n + 1, Len(clean))
          \/ n > 0 /\ clean' = SubSeq(clean, 1, n - 1) \o SubSeq(clean, n + 1, Len(clean))
    BY DEF EditText
  <2>2. clean \in Seq(Piece) /\ Len(clean) \in Nat
    BY DEF MInv, IsText
  <2>3. SubSeq(clean, 1, n) \in Seq(Piece) /\ SubSeq(clean, 1, n - 1) \in Seq(Piece)
    <3>1. n \in Int /\ n <= Len(clean) /\ n - 1 \in Int /\ n - 1 <= Len(clean)
          /\ 1 \in Nat \ {0}
      BY <2>2
    <3> QED BY <2>2, <3>1, SliceIsText
  <2>4. SubSeq(clean, n + 1, Len(clean)) \in Seq(Piece)
    <3>1. n + 1 \in Nat \ {0} /\ Len(clean) \in Int /\ Len(clean) <= Len(clean)
      BY <2>2
    <3> QED BY <2>2, <3>1, SliceIsText
  <2>5. <<"x">> \in Seq(Piece)
    BY DEF Piece
  <2>6. \A s, t \in Seq(Piece) : s \o t \in Seq(Piece)
    BY TextJoined
  <2> QED BY <2>1, <2>3, <2>4, <2>5, <2>6, Zenon
<1>3. IsText' /\ IsList(spans)' /\ FromScript' /\ InOrder'
  BY <1>1, <1>2 DEF MInv, IsText, IsList, FromScript, Bracketed, InOrder
<1>4. Untouched' /\ Stage'
  BY <1>1 DEF MInv, Untouched, Stage, Derivable
<1> QED BY <1>3, <1>4 DEF MInv

\* Every step keeps the marks.
LEMMA StepMarks == MInv /\ [MNext]_mvars => MInv'
<1> SUFFICES ASSUME MInv, [MNext]_mvars PROVE MInv'
  OBVIOUS
<1>1. CASE TokenFails
  <2>1. clip' = "malformed" /\ UNCHANGED <<raw, idx, clean, spans, edited>>
    BY <1>1 DEF TokenFails, End
  <2>2. Stage'
    BY <2>1 DEF Stage
  <2> QED BY <2>1, <2>2, MovedOn DEF MInv
<1>2. CASE StripToken
  BY <1>2, StripTokenMarks
<1>3. CASE StripRest
  BY <1>3, StripRestMarks
<1>4. CASE BuildClip
  <2>1. /\ clip' = IF \A k \in DOMAIN spans : Derivable(spans[k]) THEN "built" ELSE "malformed"
        /\ UNCHANGED <<raw, idx, clean, spans, edited>>
    BY <1>4 DEF BuildClip, End
  <2>2. Stage'
    BY <2>1 DEF Stage, Derivable
  <2> QED BY <2>1, <2>2, MovedOn DEF MInv
<1>5. CASE EditText
  BY <1>5, EditTextMarks
<1>6. CASE LoadClip
  <2>1. /\ clip = "built"
        /\ clip' = IF \A k \in DOMAIN spans : spans[k].type \in Known
                   THEN "loaded" ELSE "unloadable"
        /\ UNCHANGED <<raw, idx, clean, spans, edited>>
    BY <1>6 DEF LoadClip, End
  <2>2. Stage'
    BY <2>1 DEF MInv, Stage, Derivable
  <2> QED BY <2>1, <2>2, MovedOn DEF MInv
<1>7. CASE GateClip
  <2>1. /\ clip = "loaded"
        /\ clip' = IF Nfc(clean) = clean /\ \A k \in DOMAIN spans : InSlice(spans[k])
                   THEN "passed" ELSE "refused"
        /\ UNCHANGED <<raw, idx, clean, spans, edited>>
    BY <1>7 DEF GateClip, End
  <2>2. Nfc(clean)' = Nfc(clean)
    BY <2>1
  <2>3. Stage'
    BY <2>1, <2>2 DEF MInv, Stage, Derivable, InSlice
  <2> QED BY <2>1, <2>3, MovedOn DEF MInv
<1>8. CASE UNCHANGED mvars
  <2>1. UNCHANGED <<raw, idx, clean, spans, edited, clip>>
    BY <1>8 DEF mvars
  <2>2. Nfc(clean)' = Nfc(clean)
    BY <2>1
  <2>3. Stage'
    BY <2>1, <2>2 DEF MInv, Stage, Derivable, InSlice
  <2> QED BY <2>1, <2>3, MovedOn DEF MInv
<1> QED BY <1>1, <1>2, <1>3, <1>4, <1>5, <1>6, <1>7, <1>8 DEF MNext

\* The invariant of the markup.
LEMMA AlwaysMarked == MSpec => []MInv
<1> QED BY InitMarked, StepMarks, PTL DEF MSpec

-----------------------------------------------------------------------------
(* The properties of the run.                                              *)

\* The tokens of a clip that passed stand apart, in order, and mark the words
\* the author put in brackets, however the file was edited in between.
THEOREM GateKeepsMarks == MSpec => []PassedMarksScript
<1>1. ASSUME MInv PROVE PassedMarksScript
  <2> SUFFICES ASSUME clip = "passed", NEW k \in DOMAIN spans
               PROVE  /\ k > 1 => spans[k - 1].last < spans[k].first
                      /\ spans[k].last <= Len(clean)
                      /\ \E i, j \in DOMAIN raw :
                           /\ raw[i] = "[[" /\ raw[j] = "|" /\ i < j
                           /\ SubSeq(raw, i + 1, j - 1)
                                = SubSeq(clean, spans[k].first, spans[k].last)
    BY DEF PassedMarksScript
  <2>1. InSlice(spans[k])
    BY <1>1 DEF MInv, Stage
  <2>2. k > 1 => spans[k - 1].last < spans[k].first
    BY <1>1 DEF MInv, InOrder
  <2>3. Bracketed(SubSeq(clean, spans[k].first, spans[k].last))
    BY <1>1, <2>1 DEF MInv, FromScript, InSlice
  <2> QED BY <2>1, <2>2, <2>3 DEF InSlice, Bracketed
<1> QED BY <1>1, AlwaysMarked, PTL

\* A clip that was built and not edited fails for two reasons only: a token
\* given by hand has a type that is none, or taking the markup out joins a
\* consonant to the syllable before it.
BuiltFailsForTwoReasons ==
  ~edited =>
    /\ clip = "unloadable" =>
         \E k \in DOMAIN spans : spans[k].manual /\ spans[k].type \notin Known
    /\ clip = "refused" =>
         \E n \in DOMAIN clean : n > 1 /\ clean[n - 1] = "ha" /\ clean[n] = "n"

\* A clip that nobody edited is refused only where taking the markup out
\* joined two pieces, and unloadable only for a type the author gave by hand.
THEOREM OnlyTwoReasons == MSpec => []BuiltFailsForTwoReasons
<1>1. ASSUME MInv PROVE BuiltFailsForTwoReasons
  <2> SUFFICES ASSUME ~edited
               PROVE  /\ clip = "unloadable" =>
                           \E k \in DOMAIN spans : /\ spans[k].manual
                                                   /\ spans[k].type \notin Known
                      /\ clip = "refused" =>
                           \E n \in DOMAIN clean :
                             n > 1 /\ clean[n - 1] = "ha" /\ clean[n] = "n"
    BY DEF BuiltFailsForTwoReasons
  <2>1. CASE clip = "unloadable"
    <3>1. PICK k \in DOMAIN spans : spans[k].type \notin Known
      BY <1>1, <2>1 DEF MInv, Stage
    <3>2. Derivable(spans[k])
      BY <1>1, <2>1 DEF MInv, Stage
    <3>3. spans[k].manual
      BY <3>1, <3>2 DEF Derivable, Known
    <3> QED BY <2>1, <3>1, <3>3
  <2>2. CASE clip = "refused"
    <3>1. Nfc(clean) # clean
      BY <1>1, <2>2 DEF MInv, Stage, Untouched
    <3>2. clean \in Seq(Piece)
      BY <1>1 DEF MInv, IsText
    <3>3. \E n \in DOMAIN clean : Closes(clean, n)
      BY <3>1, <3>2, ApartIsNfc
    <3> QED BY <2>2, <3>3 DEF Closes
  <2> QED BY <2>1, <2>2
<1> QED BY <1>1, AlwaysMarked, PTL

-----------------------------------------------------------------------------
(* What is built.                                                          *)

\* The golden file has a list of tokens for each of a list of turns, and texts of
\* characters.
Listed(clips) ==
  /\ IsList(clips)
  /\ \A n \in DOMAIN clips :
       /\ clips[n].text \in Seq(Char)
       /\ IsList(clips[n].tokens)
       /\ \A k \in DOMAIN clips[n].tokens : clips[n].tokens[k].manual \in BOOLEAN

\* What is built is listed, turn by turn of the script.
LEMMA BuiltListed ==
  ASSUME meeting \in Meetings
  PROVE  /\ Listed(Built) /\ DOMAIN Built = DOMAIN meeting.script
         /\ \A n \in DOMAIN Built : Built[n].id = meeting.script[n].id
<1> DEFINE script == meeting.script
<1>1. /\ script \in Seq(Range(script))
      /\ \A n \in DOMAIN script :
           /\ script[n].parts \in Seq(Range(script[n].parts))
           /\ \A k \in DOMAIN script[n].parts :
                /\ script[n].parts[k].surface \in Seq(Char)
                /\ script[n].parts[k].manual \in BOOLEAN
  BY MeetingsAssumption DEF Range
<1>2. Len(script) \in Nat /\ DOMAIN script = 1 .. Len(script)
  BY <1>1
<1> HIDE DEF script
<1>3. Built = [n \in DOMAIN script |-> BuiltTurn(script[n])]
  BY DEF Built, script
<1>4. Len(Built) = Len(script) /\ IsList(Built) /\ DOMAIN Built = DOMAIN script
  BY <1>2, <1>3 DEF IsList
<1>5. ASSUME NEW n \in DOMAIN script
      PROVE  /\ Built[n].id = script[n].id
             /\ Built[n].text \in Seq(Char)
             /\ IsList(Built[n].tokens)
             /\ \A k \in DOMAIN Built[n].tokens : Built[n].tokens[k].manual \in BOOLEAN
  <2> DEFINE parts == script[n].parts
             ns == TokenParts(parts)
             ss == [k \in DOMAIN parts |-> parts[k].surface]
  <2>1. /\ Len(parts) \in Nat /\ DOMAIN parts = 1 .. Len(parts)
        /\ \A k \in DOMAIN parts : parts[k].surface \in Seq(Char) /\ parts[k].manual \in BOOLEAN
    BY <1>1
  <2>2. Built[n] = [id |-> script[n].id, text |-> Text(parts),
                    tokens |-> [k \in DOMAIN ns |-> Token(parts, ns[k])]]
    BY <1>3 DEF BuiltTurn
  <2> HIDE DEF parts
  <2>3. Text(parts) \in Seq(Char)
    <3> DEFINE N == Len(parts)
    <3>1. N \in Nat /\ ss = [k \in 1 .. N |-> ss[k]] /\ \A k \in 1 .. N : ss[k] \in Seq(Char)
      BY <2>1
    <3> HIDE DEF ss, N
    <3>2. FlattenSeq(ss) \in Seq(Char)
      BY <3>1, FlattenParts
    <3> QED BY <3>2 DEF Text, ss
  <2>4. Len(ns) \in Nat /\ DOMAIN ns = 1 .. Len(ns) /\ \A k \in DOMAIN ns : ns[k] \in DOMAIN parts
    <3> DEFINE marked == { k \in DOMAIN parts : parts[k].type # "text" }
    <3>1. marked \in SUBSET Int /\ IsFiniteSet(marked) /\ Cardinality(marked) \in Nat
      <4>1. IsFiniteSet(DOMAIN parts) /\ DOMAIN parts \in SUBSET Int
        BY <2>1, FS_Interval
      <4>2. IsFiniteSet(marked)
        BY <4>1, FS_Subset
      <4> QED BY <4>1, <4>2, FS_CardinalityType
    <3>2. ns = [k \in 1 .. Cardinality(marked) |-> Nth(marked, k)]
      BY DEF TokenParts
    <3> HIDE DEF marked
    <3>3. \A k \in 1 .. Cardinality(marked) : Nth(marked, k) \in marked
      BY <3>1, NthRanks
    <3>4. marked \in SUBSET DOMAIN parts
      BY DEF marked
    <3> DEFINE c == Cardinality(marked)
    <3> HIDE DEF ns
    <3>5. c \in Nat /\ ns = [k \in 1 .. c |-> Nth(marked, k)]
      BY <3>1, <3>2
    <3> HIDE DEF c
    <3>6. Len(ns) = c /\ DOMAIN ns = 1 .. c
      BY <3>5
    <3>7. \A k \in 1 .. c : ns[k] \in DOMAIN parts
      BY <3>3, <3>4, <3>5 DEF c
    <3> QED BY <3>5, <3>6, <3>7
  <2> HIDE DEF ns
  <2>5. IsList([k \in DOMAIN ns |-> Token(parts, ns[k])])
    BY <2>4 DEF IsList
  <2>6. \A k \in DOMAIN ns : Token(parts, ns[k]).manual \in BOOLEAN
    BY <2>1, <2>4 DEF Token
  <2> QED BY <2>2, <2>3, <2>5, <2>6
<1>6. Listed(Built)
  BY <1>4, <1>5 DEF Listed
<1> QED BY <1>4, <1>5, <1>6 DEF script

\* The text of parts: their characters.
Parted(parts) ==
  /\ Len(parts) \in Nat /\ parts = [k \in 1 .. Len(parts) |-> parts[k]]
  /\ \A k \in 1 .. Len(parts) : parts[k].surface \in Seq(Char)

\* The offset of a part is the length of what the parts before it flatten to.
LEMMA OffsetIsPrior ==
  ASSUME NEW parts, Parted(parts), NEW n \in DOMAIN parts
  PROVE  Offset(parts, n) = Len(Prior([k \in DOMAIN parts |-> parts[k].surface], n))
<1> DEFINE N == Len(parts)
           ss == [k \in DOMAIN parts |-> parts[k].surface]
           pre == SubSeq(parts, 1, n - 1)
<1>1. N \in Nat /\ DOMAIN parts = 1 .. N /\ n \in 1 .. N
  BY DEF Parted
<1>2. \A k \in 1 .. N : ss[k] = parts[k].surface
  BY <1>1
<1>3. [k \in DOMAIN pre |-> pre[k].surface] = [k \in 1 .. n - 1 |-> ss[k]]
  <2>1. parts \in Seq({ parts[k] : k \in 1 .. N })
    <3> DEFINE A == { parts[k] : k \in 1 .. N }
    <3>1. \A k \in 1 .. N : parts[k] \in A
      OBVIOUS
    <3> HIDE DEF A, N
    <3>2. parts \in [1 .. N -> A]
      BY <3>1 DEF Parted, N
    <3>3. parts \in Seq(A)
      BY <1>1, <3>2
    <3> QED BY <3>3 DEF A
  <2>2. DOMAIN pre = 1 .. n - 1 /\ \A k \in 1 .. n - 1 : pre[k] = parts[k]
    BY <1>1, <2>1
  <2> HIDE DEF pre
  <2>3. \A k \in 1 .. n - 1 : k \in DOMAIN parts
    BY <1>1
  <2> QED BY <2>2, <2>3
<1> HIDE DEF ss, pre
<1>4. Text(pre) = FlattenSeq([k \in 1 .. n - 1 |-> ss[k]])
  BY <1>3 DEF Text
<1> QED BY <1>4 DEF Offset, Prior, ss, pre

\* The surface of a part stands at its offset in the text.
LEMMA OffsetIs ==
  ASSUME NEW parts, Parted(parts), NEW n \in DOMAIN parts
  PROVE  /\ Offset(parts, n) \in Nat
         /\ Offset(parts, n) + Len(parts[n].surface) <= Len(Text(parts))
         /\ \A m \in 1 .. Len(parts[n].surface) :
              Text(parts)[Offset(parts, n) + m] = parts[n].surface[m]
<1> DEFINE N == Len(parts)
           ss == [k \in DOMAIN parts |-> parts[k].surface]
<1>1. N \in Nat /\ DOMAIN parts = 1 .. N /\ n \in 1 .. N
  BY DEF Parted
<1>2. /\ ss = [k \in 1 .. N |-> ss[k]]
      /\ \A k \in 1 .. N : ss[k] = parts[k].surface /\ ss[k] \in Seq(Char)
  BY <1>1 DEF Parted
<1>3. Text(parts) = FlattenSeq(ss)
  BY DEF Text
<1>4. Offset(parts, n) = Len(Prior(ss, n))
  BY OffsetIsPrior
<1> HIDE DEF ss, N
<1>5. /\ Offset(parts, n) \in Nat /\ Offset(parts, n) + Len(ss[n]) <= Len(Text(parts))
      /\ \A m \in 1 .. Len(ss[n]) : Text(parts)[Offset(parts, n) + m] = ss[n][m]
  <2>1. Lists(ss, N, Char)
    BY <1>2 DEF Lists
  <2>2. Behind(FlattenSeq(ss), Len(Prior(ss, n)), ss[n])
    BY <1>1, <2>1, PartBehindPrefix
  <2> QED BY <1>3, <1>4, <2>2 DEF Behind
<1> QED BY <1>1, <1>2, <1>5

\* Every place of the text is in one of the parts.
LEMMA InSomePart ==
  ASSUME NEW parts, Parted(parts), NEW i \in DOMAIN Text(parts), Text(parts) \in Seq(Char)
  PROVE  \E n \in DOMAIN parts : \E m \in 1 .. Len(parts[n].surface) : i = Offset(parts, n) + m
<1> DEFINE N == Len(parts)
           ss == [k \in DOMAIN parts |-> parts[k].surface]
<1>1. N \in Nat /\ DOMAIN parts = 1 .. N
  BY DEF Parted
<1>2. /\ ss = [k \in 1 .. N |-> ss[k]]
      /\ \A k \in 1 .. N : ss[k] = parts[k].surface /\ ss[k] \in Seq(Char)
  BY <1>1 DEF Parted
<1>3. Text(parts) = FlattenSeq(ss) /\ \A n \in 1 .. N : Offset(parts, n) = Len(Prior(ss, n))
  BY <1>1, OffsetIsPrior DEF Text
<1> HIDE DEF ss, N
<1>4. Lists(ss, N, Char)
  BY <1>2 DEF Lists
<1>5. i \in 1 .. Len(FlattenSeq(ss))
  BY <1>3
<1>6. InPart(ss, N, i)
  BY <1>1, <1>4, <1>5, PlaceInPart
<1>7. PICK n \in 1 .. N : \E m \in 1 .. Len(ss[n]) : i = Len(Prior(ss, n)) + m
  BY <1>6 DEF InPart
<1> QED BY <1>1, <1>2, <1>3, <1>7

\* A token of a text stands at its offsets.
Stood(token, text) ==
  /\ token.surface \in Seq(Char) /\ text \in Seq(Char)
  /\ token.first \in Nat \ {0} /\ token.last = token.first + Len(token.surface) - 1
  /\ token.last <= Len(text) /\ InPlace(token, text)

\* What is known of a token that was built.
Derived(token) ==
  ~token.manual =>
    /\ token.canon = Canonical(token.type, token.surface)
    /\ token.canon # Underivable

\* Every token that is built stands where it says, with its derived value.
LEMMA BuiltStands ==
  ASSUME meeting \in Meetings, Buildable
  PROVE  \A n \in DOMAIN Built : \A k \in DOMAIN Built[n].tokens :
           Stood(Built[n].tokens[k], Built[n].text) /\ Derived(Built[n].tokens[k])
<1> SUFFICES ASSUME NEW n \in DOMAIN Built, NEW k \in DOMAIN Built[n].tokens
             PROVE  Stood(Built[n].tokens[k], Built[n].text) /\ Derived(Built[n].tokens[k])
  OBVIOUS
<1> DEFINE turn == meeting.script[n]
           parts == turn.parts
           ns == TokenParts(parts)
<1>1. /\ n \in DOMAIN meeting.script
      /\ Built[n] = BuiltTurn(turn)
  BY BuiltListed DEF Built
<1>2. /\ parts \in Seq(Range(parts))
      /\ \A p \in DOMAIN parts : parts[p].surface \in Seq(Char) /\ parts[p].manual \in BOOLEAN
  BY <1>1, MeetingsAssumption DEF Range
<1>3. /\ \A p \in DOMAIN parts :
           parts[p].type # "text" /\ ~parts[p].manual =>
             Canonical(parts[p].type, parts[p].surface) # Underivable
  BY <1>1 DEF Buildable, Range
<1> HIDE DEF turn
<1>4. /\ Built[n].text = Text(parts)
      /\ Built[n].tokens = [m \in DOMAIN ns |-> Token(parts, ns[m])]
  BY <1>1 DEF BuiltTurn
<1> HIDE DEF parts
<1>5. Parted(parts) /\ DOMAIN parts = 1 .. Len(parts)
  BY <1>2 DEF Parted
<1>6. k \in DOMAIN ns /\ ns[k] \in DOMAIN parts /\ parts[ns[k]].type # "text"
  <2> DEFINE marked == { m \in DOMAIN parts : parts[m].type # "text" }
  <2>1. marked \in SUBSET Int /\ IsFiniteSet(marked)
    <3>0. Len(parts) \in Int /\ 1 \in Int
      BY <1>5 DEF Parted
    <3>2. IsFiniteSet(1 .. Len(parts))
      BY <3>0, FS_Interval
    <3>1. IsFiniteSet(DOMAIN parts) /\ DOMAIN parts \in SUBSET Int
      BY <1>5, <3>0, <3>2
    <3> QED BY <3>1, FS_Subset
  <2>2. ns = [m \in 1 .. Cardinality(marked) |-> Nth(marked, m)]
    BY DEF TokenParts
  <2> HIDE DEF marked
  <2>3. k \in DOMAIN ns
    BY <1>4
  <2>4. k \in 1 .. Cardinality(marked) /\ ns[k] = Nth(marked, k)
    BY <2>2, <2>3
  <2>5. ns[k] \in marked
    BY <2>1, <2>4, NthRanks
  <2> QED BY <2>3, <2>5 DEF marked
<1> DEFINE p == ns[k]
           token == Token(parts, p)
           text == Text(parts)
           s == parts[p].surface
           o == Offset(parts, p)
<1>7. Built[n].tokens[k] = token /\ Built[n].text = text
  BY <1>4, <1>6
<1>8. text \in Seq(Char)
  BY <1>7, BuiltListed DEF Listed
<1> HIDE DEF ns
<1>9. /\ o \in Nat /\ o + Len(s) <= Len(text) /\ s \in Seq(Char)
      /\ \A m \in 1 .. Len(s) : text[o + m] = s[m]
  BY <1>2, <1>5, <1>6, OffsetIs
<1>10. /\ token.surface = s /\ token.first = o + 1 /\ token.last = o + Len(s)
       /\ token.type = parts[p].type /\ token.manual = parts[p].manual
       /\ ~parts[p].manual => token.canon = Canonical(token.type, token.surface)
  BY DEF Token
<1> HIDE DEF token, text, s, o, p
<1>11. SubSeq(text, o + 1, o + Len(s)) = s
  <2> DEFINE u == SubSeq(text, o + 1, o + Len(s))
  <2>1. Len(s) \in Nat /\ s = [m \in 1 .. Len(s) |-> s[m]]
    BY <1>9
  <2>2. u = [m \in 1 .. Len(s) |-> text[o + m]]
    <3>1. /\ u \in Seq(Char) /\ Len(u) = Len(s)
          /\ \A m \in 1 .. Len(s) : u[m] = text[o + m]
      BY <1>8, <1>9, <2>1
    <3> HIDE DEF u
    <3> QED BY <3>1
  <2> QED BY <1>9, <2>1, <2>2
<1>12. Stood(token, text)
  <2>1. Len(s) \in Nat
    BY <1>9
  <2> QED BY <1>8, <1>9, <1>10, <1>11, <2>1 DEF Stood, InPlace
<1>13. Derived(token)
  BY <1>3, <1>6, <1>10 DEF Derived, p, s
<1> QED BY <1>7, <1>12, <1>13

\* A value derived again is the one that was derived.
LEMMA AgreesAgain ==
  ASSUME NEW token, Derived(token), token.manual \in BOOLEAN
  PROVE  Consistent(token)
<1> DEFINE r == ParseNumber[token.surface]
           c == Canonical(token.type, token.surface)
           said == Said(token.type, token.surface)
<1>1. CASE token.manual
  BY <1>1 DEF Consistent, Agrees
<1>2. CASE ~token.manual /\ token.type \notin Numeric
  BY <1>2 DEF Consistent, Agrees, Derived
<1>3. CASE ~token.manual /\ token.type \in Numeric
  <2>1. c = CanonicalOf(token.type, token.surface, r, said) /\ c # Underivable /\ token.canon = c
    BY <1>3 DEF Canonical, Derived
  <2>2. said = {}
    BY <1>3 DEF Said, Numeric
  <2> HIDE DEF c, r, said
  <2>3. CASE token.type = "AMOUNT"
    <3>1. c = [kind |-> "AMOUNT", value |-> r.value, unit |-> CurrencyOf(r.unit)]
      BY <2>1, <2>2, <2>3 DEF CanonicalOf, Underivable
    <3>2. Same(c.value, c.value) /\ SameUnit(token, r.unit)
      BY <2>1, <2>3, <3>1 DEF Same, SameUnit
    <3> QED BY <1>3, <2>1, <3>2 DEF Consistent, Agrees, c, r
  <2>4. CASE token.type = "UNIT_QUANTITY"
    <3>1. c = [kind |-> "UNIT_QUANTITY", value |-> r.value, unit |-> r.unit]
      BY <2>1, <2>2, <2>4 DEF CanonicalOf, Underivable
    <3>2. Same(c.value, c.value) /\ SameUnit(token, r.unit)
      BY <2>1, <2>4, <3>1 DEF Same, SameUnit
    <3> QED BY <1>3, <2>1, <3>2 DEF Consistent, Agrees, c, r
  <2>5. CASE token.type \in {"NUMBER", "PERCENT"}
    <3>1. Same(c.value, c.value) /\ SameUnit(token, r.unit)
      BY <2>5 DEF Same, SameUnit
    <3> QED BY <1>3, <2>1, <3>1 DEF Consistent, Agrees, c, r
  <2> QED BY <1>3, <2>3, <2>4, <2>5 DEF Numeric
<1> QED BY <1>1, <1>2, <1>3

-----------------------------------------------------------------------------
(* Where the scoring stands.                                               *)

TokensOf(clips) == UNION { {n} \X DOMAIN clips[n].tokens : n \in DOMAIN clips }

\* The tokens in front of <<t, k>>.
PastOf(clips, t, k) == { c \in TokensOf(clips) : c[1] < t \/ (c[1] = t /\ c[2] < k) }

\* A turn's last token is behind <<t, k>>, or k is one of its tokens.
Stands(clips, t, k) ==
  /\ t \in 1 .. Len(clips) + 1 /\ k \in Nat \ {0}
  /\ t \in DOMAIN clips => k <= Len(clips[t].tokens) + 1
  /\ t \notin DOMAIN clips => k = 1

\* The tokens of a golden file, as places.
LEMMA TokensAre ==
  ASSUME NEW clips, Listed(clips)
  PROVE  /\ Len(clips) \in Nat /\ DOMAIN clips = 1 .. Len(clips)
         /\ \A n \in DOMAIN clips : /\ Len(clips[n].tokens) \in Nat
                                    /\ DOMAIN clips[n].tokens = 1 .. Len(clips[n].tokens)
         /\ \A c \in TokensOf(clips) :
              /\ c = <<c[1], c[2]>> /\ c[1] \in DOMAIN clips
              /\ c[2] \in DOMAIN clips[c[1]].tokens
         /\ \A n \in DOMAIN clips : \A k \in DOMAIN clips[n].tokens : <<n, k>> \in TokensOf(clips)
<1>1. Len(clips) \in Nat /\ DOMAIN clips = 1 .. Len(clips)
  BY DEF Listed, IsList
<1>2. ASSUME NEW n \in DOMAIN clips
      PROVE  Len(clips[n].tokens) \in Nat /\ DOMAIN clips[n].tokens = 1 .. Len(clips[n].tokens)
  <2> DEFINE tokens == clips[n].tokens
  <2>1. IsList(tokens)
    BY DEF Listed
  <2> HIDE DEF tokens
  <2>2. Len(tokens) \in Nat /\ DOMAIN tokens = 1 .. Len(tokens)
    BY <2>1 DEF IsList
  <2> QED BY <2>2 DEF tokens
<1>3. ASSUME NEW c \in TokensOf(clips)
      PROVE  /\ c = <<c[1], c[2]>> /\ c[1] \in DOMAIN clips
             /\ c[2] \in DOMAIN clips[c[1]].tokens
  <2>1. PICK n \in DOMAIN clips : c \in {n} \X DOMAIN clips[n].tokens
    BY DEF TokensOf
  <2>2. c = <<c[1], c[2]>> /\ c[1] = n /\ c[2] \in DOMAIN clips[n].tokens
    BY <2>1
  <2> QED BY <2>2
<1>4. ASSUME NEW n \in DOMAIN clips, NEW k \in DOMAIN clips[n].tokens
      PROVE  <<n, k>> \in TokensOf(clips)
  <2>1. <<n, k>> \in {n} \X DOMAIN clips[n].tokens
    OBVIOUS
  <2> QED BY <2>1 DEF TokensOf
<1> QED BY <1>1, <1>2, <1>3, <1>4

\* Nothing is passed at the start.
LEMMA PastStart ==
  ASSUME NEW clips, Listed(clips)
  PROVE  PastOf(clips, 1, 1) = {} /\ Stands(clips, 1, 1)
<1>1. \A c \in TokensOf(clips) : c[1] >= 1 /\ c[2] >= 1 /\ c[1] \in Nat /\ c[2] \in Nat
  BY TokensAre
<1>2. PastOf(clips, 1, 1) = {}
  BY <1>1 DEF PastOf
<1>3. Stands(clips, 1, 1)
  BY TokensAre DEF Stands
<1> QED BY <1>2, <1>3

\* Judging a token passes it and no other.
LEMMA PastNext ==
  ASSUME NEW clips, Listed(clips), NEW t \in DOMAIN clips, NEW k \in DOMAIN clips[t].tokens
  PROVE  /\ PastOf(clips, t, k + 1) = PastOf(clips, t, k) \cup {<<t, k>>}
         /\ <<t, k>> \notin PastOf(clips, t, k) /\ <<t, k>> \in TokensOf(clips)
         /\ Stands(clips, t, k + 1)
<1>1. \A c \in TokensOf(clips) : c = <<c[1], c[2]>> /\ c[1] \in Nat /\ c[2] \in Nat
  BY TokensAre
<1>2. t \in Nat /\ k \in Nat /\ <<t, k>> \in TokensOf(clips)
  BY TokensAre
<1>3. ASSUME NEW c \in TokensOf(clips)
      PROVE  (c[1] < t \/ (c[1] = t /\ c[2] < k + 1)) <=>
               c[1] < t \/ (c[1] = t /\ c[2] < k) \/ c = <<t, k>>
  <2>1. c = <<c[1], c[2]>> /\ c[1] \in Nat /\ c[2] \in Nat
    BY <1>1
  <2>2. c = <<t, k>> <=> c[1] = t /\ c[2] = k
    BY <2>1
  <2> QED BY <1>2, <2>1, <2>2
<1>4. PastOf(clips, t, k + 1) = PastOf(clips, t, k) \cup {<<t, k>>}
  BY <1>2, <1>3 DEF PastOf
<1>5. <<t, k>> \notin PastOf(clips, t, k)
  BY <1>2 DEF PastOf
<1>6. Stands(clips, t, k + 1)
  BY TokensAre DEF Stands
<1> QED BY <1>2, <1>4, <1>5, <1>6

\* Going to the next turn passes nothing.
LEMMA PastTurn ==
  ASSUME NEW clips, Listed(clips), NEW t \in DOMAIN clips, NEW k, Stands(clips, t, k),
         k \notin DOMAIN clips[t].tokens
  PROVE  PastOf(clips, t + 1, 1) = PastOf(clips, t, k) /\ Stands(clips, t + 1, 1)
<1>1. /\ t \in Nat /\ Len(clips[t].tokens) \in Nat
      /\ DOMAIN clips[t].tokens = 1 .. Len(clips[t].tokens)
  BY TokensAre
<1>2. k = Len(clips[t].tokens) + 1
  BY <1>1 DEF Stands
<1>3. ASSUME NEW c \in TokensOf(clips)
      PROVE  (c[1] < t + 1 \/ (c[1] = t + 1 /\ c[2] < 1)) <=>
               (c[1] < t \/ (c[1] = t /\ c[2] < k))
  <2>1. c[1] \in Nat /\ c[2] \in Nat /\ c[2] >= 1 /\ c[2] \in DOMAIN clips[c[1]].tokens
    BY TokensAre
  <2>2. c[1] = t => c[2] < k
    BY <1>1, <1>2, <2>1
  <2> QED BY <1>1, <2>1, <2>2
<1>4. PastOf(clips, t + 1, 1) = PastOf(clips, t, k)
  BY <1>3 DEF PastOf
<1>5. Stands(clips, t + 1, 1)
  <2>1. t + 1 \in 1 .. Len(clips) + 1 /\ 1 \in Nat \ {0}
    BY TokensAre
  <2>2. t + 1 \in DOMAIN clips => 1 <= Len(clips[t + 1].tokens) + 1
    BY TokensAre
  <2> QED BY <2>1, <2>2 DEF Stands
<1> QED BY <1>4, <1>5

\* Behind the last turn every token is passed.
LEMMA PastAll ==
  ASSUME NEW clips, Listed(clips), NEW t, NEW k, Stands(clips, t, k), t \notin DOMAIN clips
  PROVE  PastOf(clips, t, k) = TokensOf(clips)
<1>1. Len(clips) \in Nat /\ DOMAIN clips = 1 .. Len(clips) /\ t = Len(clips) + 1
  BY TokensAre DEF Stands
<1>2. \A c \in TokensOf(clips) : c[1] < t
  BY <1>1, TokensAre
<1> QED BY <1>2 DEF PastOf

-----------------------------------------------------------------------------
(* The induction.                                                          *)

\* Every token before <<t, k>> is scored once.
Counts(list, past) ==
  /\ IsList(list) /\ IsFiniteSet(past) /\ Len(list) = Cardinality(past)
  /\ { list[n].at : n \in DOMAIN list } = past

\* A score of a turn that was not heard is a loss.
Lost(score, m, clips) ==
  m.script[score.at[1]].id \notin DOMAIN m.heard =>
    score.outcome =
      IF clips[score.at[1]].tokens[score.at[2]].manual THEN "ambiguous" ELSE "deleted"

\* A token a parser reads back: with a unit that its type can have.
Readable(token) ==
  /\ ~token.manual /\ token.surface # <<>> /\ Strip(token.surface) = token.surface
  /\ token.type \in Numeric => Plausible(token.type, ParseNumber[token.surface].unit)

\* A token of a turn that was heard as it was said is a hit.
HitIfSaid(score, m, clips) ==
  LET turn == clips[score.at[1]]
      token == turn.tokens[score.at[2]]
  IN turn.id \in DOMAIN m.heard /\ Text(m.heard[turn.id]) = turn.text /\ Readable(token)
     => score.outcome = "hit"

\* A token whose neighbours were put opposite something is judged by all that was
\* heard between them: a hit if that is the token's own words.
JudgedBetween(score, m, clips) ==
  LET turn == clips[score.at[1]]
      token == turn.tokens[score.at[2]]
      hyp == Text(m.heard[turn.id])
  IN turn.id \in DOMAIN m.heard /\ token.surface # <<>> =>
       \A j, e \in Nat :
         HeardBetween(AlignOps(turn.text, hyp), turn.text, hyp, token.first, token.last, j, e) =>
           /\ score.span = SubSeq(hyp, j + 1, e)
           /\ score.outcome = Classify(token, score.span)
           /\ score.span = token.surface /\ Readable(token) => score.outcome = "hit"

Just(score, m, clips) ==
  Lost(score, m, clips) /\ HitIfSaid(score, m, clips) /\ JudgedBetween(score, m, clips)

ScoreInv ==
  /\ meeting \in Meetings
  /\ phase \in {"building", "checking", "joining", "scoring", "done", "error"}
  /\ phase = "building" => golden = <<>>
  /\ golden \in {<<>>, Built} /\ (phase \in {"checking", "joining", "scoring", "done"} => golden = Built /\ Buildable)
  /\ phase \in {"building", "checking", "joining"} => at = <<1, 1>>
  /\ phase \notin {"scoring", "done"} => scores = <<>>
  /\ phase = "scoring" =>
       /\ at = <<at[1], at[2]>> /\ Stands(golden, at[1], at[2])
       /\ Counts(scores, PastOf(golden, at[1], at[2]))
       /\ \A n \in DOMAIN scores : Just(scores[n], meeting, golden)
  /\ phase = "done" =>
       /\ Counts(scores, TokensOf(golden))
       /\ \A n \in DOMAIN scores : Just(scores[n], meeting, golden)

\* Before anything is built.
LEMMA ScoreInvInit == Init => ScoreInv
BY DEF Init, ScoreInv

\* A token of a turn that was not heard is scored as lost.
LEMMA UnheardScored ==
  ASSUME meeting \in Meetings, golden = Built, NEW t \in DOMAIN golden,
         NEW k \in DOMAIN golden[t].tokens, at = <<t, k>>
  PROVE  /\ Scored(golden[t], golden[t].tokens[k]).at = <<t, k>>
         /\ Lost(Scored(golden[t], golden[t].tokens[k]), meeting, golden)
<1> DEFINE turn == golden[t]
           token == turn.tokens[k]
           score == Scored(turn, token)
           span == SpanOf(token, turn.text, Heard(turn.id))
<1>1. turn.text \in Seq(Char) /\ token.manual \in BOOLEAN /\ turn.id = meeting.script[t].id
  BY BuiltListed DEF Listed
<1>2. score.at = <<t, k>> /\ score.outcome = Classify(token, span)
  BY DEF Scored, Judged
<1>3. ASSUME turn.id \notin DOMAIN meeting.heard
      PROVE  score.outcome = IF token.manual THEN "ambiguous" ELSE "deleted"
  <2>1. Heard(turn.id) = <<>>
    BY <1>3 DEF Heard
  <2>2. span = <<>>
    BY <1>1, <2>1, NothingToProject DEF SpanOf
  <2>3. Strip(<<>>) = <<>>
    <3>1. Inked(<<>>) = {}
      BY DEF Inked
    <3> QED BY <3>1 DEF Strip
  <2> HIDE DEF span
  <2>4. Classify(token, span) = ClassifySpan(token, <<>>)
    BY <2>2, <2>3 DEF Classify
  <2> HIDE DEF token
  <2>5. ClassifySpan(token, <<>>) = IF token.manual THEN "ambiguous" ELSE "deleted"
    BY <1>1 DEF ClassifySpan
  <2> HIDE DEF score
  <2> QED BY <1>2, <2>4, <2>5
<1> HIDE DEF score, span
<1>4. score.at[1] = t /\ score.at[2] = k
  BY <1>2
<1>5. Lost(score, meeting, golden)
  BY <1>1, <1>3, <1>4 DEF Lost
<1> QED BY <1>2, <1>5 DEF score

\* What is read in the place of a token that was heard as it was said.
LEMMA ReadBack ==
  ASSUME NEW token, Readable(token), Derived(token), token.manual \in BOOLEAN
  PROVE  Classify(token, token.surface) = "hit"
<1> DEFINE s == token.surface
           r == ParseNumber[s]
           c == Canonical(token.type, s)
           said == Said(token.type, s)
           read == ReadNumber(token, s)
<1>1. s # <<>> /\ Strip(s) = s /\ ~token.manual /\ token.canon = c /\ c # Underivable
      /\ c = CanonicalOf(token.type, s, r, said)
  BY DEF Readable, Derived, Canonical
<1>2. Classify(token, s) = ClassifyRead(token, s, read)
  BY <1>1 DEF Classify, ClassifySpan
<1>3. ASSUME ~Unusable(token, r) PROVE read = r
  BY <1>3 DEF ReadNumber, OrSalvaged
<1> HIDE DEF read
<1>4. CASE token.type \in Numeric
  <2>1. said = {} /\ Plausible(token.type, r.unit) /\ token.type # "RANGE"
        /\ token.type # "PROPER_NOUN" /\ token.type \notin {"DATE", "TIME"}
    BY <1>4 DEF Said, Numeric, Readable
  <2> HIDE DEF said, c
  <2>2. r.kind = "value" /\ c.value = r.value
    <3> HIDE DEF r
    <3> QED BY <1>1, <1>4, <2>1 DEF CanonicalOf, Underivable, Numeric
  <2>3. read = r
    <3> HIDE DEF r
    <3> QED BY <1>3, <2>1, <2>2 DEF Unusable
  <2>4. Same(c.value, c.value) /\ SameUnit(token, r.unit)
    <3>1. Same(c.value, c.value)
      BY DEF Same
    <3>2. CASE token.type = "AMOUNT"
      <4>1. c.unit = CurrencyOf(r.unit)
        <5> HIDE DEF r
        <5> QED BY <1>1, <2>1, <2>2, <3>2 DEF CanonicalOf
      <4> HIDE DEF r
      <4> QED BY <1>1, <3>1, <3>2, <4>1 DEF SameUnit
    <3>3. CASE token.type = "UNIT_QUANTITY"
      <4>1. c.unit = r.unit
        <5> HIDE DEF r
        <5> QED BY <1>1, <2>1, <2>2, <3>3 DEF CanonicalOf
      <4> HIDE DEF r
      <4> QED BY <1>1, <3>1, <3>3, <4>1 DEF SameUnit
    <3>4. CASE token.type \notin {"AMOUNT", "UNIT_QUANTITY"}
      BY <3>1, <3>4 DEF SameUnit
    <3> QED BY <3>2, <3>3, <3>4
  <2>5. ClassifyRead(token, s, read) = JudgeNumeric(token, r)
    <3> HIDE DEF r, s
    <3> QED BY <1>4, <2>1, <2>3 DEF ClassifyRead
  <2> HIDE DEF r
  <2> QED BY <1>1, <1>2, <2>1, <2>2, <2>4, <2>5 DEF JudgeNumeric, Judge
<1>5. CASE token.type = "RANGE"
  <2>1. said = {}
    BY <1>5 DEF Said
  <2> HIDE DEF said, c, r
  <2>2. r.kind = "range" /\ c.low = r.low /\ c.high = r.high
    BY <1>1, <1>5, <2>1 DEF CanonicalOf, Underivable
  <2>3. read = r
    BY <1>3, <1>5, <2>2 DEF Unusable
  <2>4. ClassifyRead(token, s, read) = JudgeRange(token, r)
    BY <1>5, <2>3 DEF ClassifyRead, Numeric
  <2> QED BY <1>1, <1>2, <2>2, <2>4 DEF JudgeRange, Judge, Same
<1>6. CASE token.type \in {"DATE", "TIME"}
  <2> HIDE DEF c, r
  <2>1. said # {} /\ c.said = said
    <3> HIDE DEF said
    <3> QED BY <1>1, <1>6 DEF CanonicalOf, Underivable, Numeric
  <2>2. ClassifyRead(token, s, read) = JudgeDate(token, said)
    BY <1>6 DEF ClassifyRead, Numeric
  <2> HIDE DEF said
  <2> QED BY <1>1, <1>2, <2>1, <2>2 DEF JudgeDate, Judge
<1>7. CASE token.type = "PROPER_NOUN"
  <2>1. said = {}
    BY <1>7 DEF Said
  <2> HIDE DEF said, c, r
  <2>2. c.name = s
    BY <1>1, <1>7, <2>1 DEF CanonicalOf
  <2>3. ClassifyRead(token, s, read) = JudgeName(token, s)
    BY <1>7 DEF ClassifyRead, Numeric
  <2> QED BY <1>1, <1>2, <2>2, <2>3 DEF JudgeName, Judge
<1>8. token.type \in Numeric \cup {"RANGE", "DATE", "TIME", "PROPER_NOUN"}
  <2>1. said # {} => token.type \in {"DATE", "TIME"}
    BY DEF Said
  <2> HIDE DEF said, c, r
  <2> QED BY <1>1, <2>1 DEF CanonicalOf, Underivable, Numeric
<1> QED BY <1>4, <1>5, <1>6, <1>7, <1>8

\* A token of a turn that was heard as it was said is scored as a hit.
LEMMA VerbatimScored ==
  ASSUME meeting \in Meetings, golden = Built, Buildable, NEW t \in DOMAIN golden,
         NEW k \in DOMAIN golden[t].tokens, at = <<t, k>>
  PROVE  HitIfSaid(Scored(golden[t], golden[t].tokens[k]), meeting, golden)
<1> DEFINE turn == golden[t]
           token == turn.tokens[k]
           score == Scored(turn, token)
           text == turn.text
<1>1. Stood(token, text) /\ Derived(token)
  BY BuiltStands
<1>2. token.manual \in BOOLEAN
  BY BuiltListed DEF Listed
<1>3. /\ score.at = <<t, k>>
      /\ score.outcome = Classify(token, SpanOf(token, text, Heard(turn.id)))
  BY DEF Scored, Judged
<1> HIDE DEF score
<1>4. ASSUME turn.id \in DOMAIN meeting.heard, Text(meeting.heard[turn.id]) = text,
             Readable(token)
      PROVE  score.outcome = "hit"
  <2>1. Heard(turn.id) = text
    BY <1>4 DEF Heard
  <2> HIDE DEF text
  <2>2. /\ text \in Seq(Char) /\ token.surface \in Seq(Char) /\ token.surface # <<>>
        /\ token.first \in Nat \ {0} /\ token.last = token.first + Len(token.surface) - 1
        /\ token.last <= Len(text) /\ SubSeq(text, token.first, token.last) = token.surface
    BY <1>1, <1>4 DEF Stood, InPlace, Readable
  <2> HIDE DEF token
  <2>3. Len(token.surface) \in Nat \ {0} /\ Len(text) \in Nat
    BY <2>2
  <2>4. token.first \in 1 .. Len(text) /\ token.last \in token.first .. Len(text)
    BY <2>2, <2>3
  <2>5. SpanOf(token, text, text) = token.surface
    BY <2>2, <2>4, SpanOfItself DEF SpanOf
  <2>6. Classify(token, token.surface) = "hit"
    BY <1>1, <1>2, <1>4, ReadBack
  <2> QED BY <1>3, <2>1, <2>5, <2>6
<1>5. score.at[1] = t /\ score.at[2] = k
  BY <1>3
<1>6. HitIfSaid(score, meeting, golden)
  <2>1. golden[score.at[1]] = turn /\ golden[score.at[1]].tokens[score.at[2]] = token
    BY <1>5
  <2> QED BY <1>4, <2>1 DEF HitIfSaid
<1> QED BY <1>6 DEF score

\* The text of parts is a text.
LEMMA PartsText ==
  ASSUME NEW parts, parts \in Seq(Range(parts)),
         \A part \in Range(parts) : part.surface \in Seq(Char)
  PROVE  Text(parts) \in Seq(Char)
<1> DEFINE N == Len(parts)
           ss == [k \in DOMAIN parts |-> parts[k].surface]
<1>1. N \in Nat /\ ss = [k \in 1 .. N |-> ss[k]] /\ \A k \in 1 .. N : ss[k] \in Seq(Char)
  BY DEF Range
<1> HIDE DEF ss, N
<1>2. FlattenSeq(ss) \in Seq(Char)
  BY <1>1, FlattenParts
<1> QED BY <1>2 DEF Text, ss

\* A token is scored by what was heard between its neighbours.
LEMMA BetweenScored ==
  ASSUME meeting \in Meetings, golden = Built, Buildable, NEW t \in DOMAIN golden,
         NEW k \in DOMAIN golden[t].tokens, at = <<t, k>>
  PROVE  JudgedBetween(Scored(golden[t], golden[t].tokens[k]), meeting, golden)
<1> DEFINE turn == golden[t]
           token == turn.tokens[k]
           score == Scored(turn, token)
           text == turn.text
           hyp == Text(meeting.heard[turn.id])
<1>1. Stood(token, text) /\ Derived(token)
  BY BuiltStands
<1>2. token.manual \in BOOLEAN
  BY BuiltListed DEF Listed
<1>3. /\ score.at = <<t, k>> /\ score.span = SpanOf(token, text, Heard(turn.id))
      /\ score.outcome = Classify(token, score.span)
  BY DEF Scored, Judged
<1>4. score.at[1] = t /\ score.at[2] = k
  BY <1>3
<1> HIDE DEF score
<1>5. ASSUME turn.id \in DOMAIN meeting.heard, token.surface # <<>>, NEW j \in Nat, NEW e \in Nat,
             HeardBetween(AlignOps(text, hyp), text, hyp, token.first, token.last, j, e)
      PROVE  /\ score.span = SubSeq(hyp, j + 1, e)
             /\ score.outcome = Classify(token, score.span)
             /\ score.span = token.surface /\ Readable(token) => score.outcome = "hit"
  <2>1. Heard(turn.id) = hyp
    BY <1>5 DEF Heard
  <2>2. hyp \in Seq(Char)
    <3> DEFINE parts == meeting.heard[turn.id]
    <3>1. parts \in Seq(Range(parts)) /\ \A part \in Range(parts) : part.surface \in Seq(Char)
      BY <1>5, MeetingsAssumption
    <3> HIDE DEF parts
    <3>2. Text(parts) \in Seq(Char)
      BY <3>1, PartsText
    <3> QED BY <3>2 DEF parts
  <2> HIDE DEF text, hyp
  <2>3. /\ text \in Seq(Char) /\ token.surface \in Seq(Char) /\ token.surface # <<>>
        /\ token.first \in Nat \ {0} /\ token.last = token.first + Len(token.surface) - 1
        /\ token.last <= Len(text)
    BY <1>1, <1>5 DEF Stood
  <2> HIDE DEF token
  <2>4. Len(token.surface) \in Nat \ {0} /\ Len(text) \in Nat
    BY <2>3
  <2>5. token.first \in 1 .. Len(text) /\ token.last \in token.first .. Len(text)
    BY <2>3, <2>4
  <2>6. SpanOf(token, text, hyp) = SubSeq(hyp, j + 1, e)
    BY <1>5, <2>2, <2>3, <2>5, SpanBetweenNeighbours DEF SpanOf
  <2>7. Readable(token) => Classify(token, token.surface) = "hit"
    BY <1>1, <1>2, ReadBack
  <2> QED BY <1>3, <2>1, <2>6, <2>7
<1>6. JudgedBetween(score, meeting, golden)
  <2>1. golden[score.at[1]] = turn /\ golden[score.at[1]].tokens[score.at[2]] = token
    BY <1>4
  <2> HIDE DEF token, turn
  <2> QED BY <1>5, <2>1 DEF JudgedBetween
<1> QED BY <1>6 DEF score

\* The text of parts that are in NFC is in NFC where no part begins with what
\* joins the part in front of it.
LEMMA SeamOrNfc ==
  ASSUME NEW parts, Parted(parts), Text(parts) \in Seq(Char),
         \A k \in DOMAIN parts : Nfc(parts[k].surface) = parts[k].surface,
         Nfc(Text(parts)) # Text(parts)
  PROVE  \E k \in DOMAIN parts : Closes(Text(parts), Offset(parts, k) + 1)
<1> DEFINE text == Text(parts)
<1>1. PICK i \in DOMAIN text : Closes(text, i)
  BY ApartIsNfc
<1>2. PICK k \in DOMAIN parts : \E m \in 1 .. Len(parts[k].surface) : i = Offset(parts, k) + m
  BY <1>1, InSomePart
<1> DEFINE s == parts[k].surface
           o == Offset(parts, k)
<1>3. PICK m \in 1 .. Len(s) : i = o + m
  BY <1>2
<1>4. /\ o \in Nat /\ o + Len(s) <= Len(text) /\ s \in Seq(Char)
      /\ \A l \in 1 .. Len(s) : text[o + l] = s[l]
  BY OffsetIs DEF Parted
<1>5. Nfc(s) = s
  OBVIOUS
<1> HIDE DEF text, s, o
<1>6. CASE m = 1
  BY <1>1, <1>3, <1>6 DEF text, o
<1>7. CASE m # 1
  <2>1. m \in 1 .. Len(s) /\ m - 1 \in 1 .. Len(s) /\ m > 1 /\ o + (m - 1) = i - 1
        /\ m \in DOMAIN s
    BY <1>3, <1>4, <1>7
  <2>2. s[m - 1] = text[i - 1] /\ s[m] = text[i]
    BY <1>3, <1>4, <2>1
  <2>3. Closes(s, m)
    BY <1>1, <2>1, <2>2 DEF Closes
  <2> QED BY <1>4, <1>5, <2>3, JoinedIsNotNfc
<1> QED BY <1>6, <1>7

\* What is built of a turn: its text, whose parts are in NFC.
LEMMA BuiltText ==
  ASSUME meeting \in Meetings, NEW n \in DOMAIN Built
  PROVE  LET parts == meeting.script[n].parts
         IN  /\ Parted(parts) /\ Built[n].text = Text(parts) /\ Text(parts) \in Seq(Char)
             /\ \A k \in DOMAIN parts : Nfc(parts[k].surface) = parts[k].surface
<1> DEFINE turn == meeting.script[n]
           parts == turn.parts
<1>1. n \in DOMAIN meeting.script /\ Built[n] = BuiltTurn(turn) /\ Built[n].text \in Seq(Char)
  BY BuiltListed DEF Built, Listed
<1>2. /\ parts \in Seq(Range(parts))
      /\ \A k \in DOMAIN parts : /\ parts[k].surface \in Seq(Char)
                                /\ Nfc(parts[k].surface) = parts[k].surface
  BY <1>1, MeetingsAssumption DEF Range
<1> HIDE DEF turn
<1>3. Built[n].text = Text(parts)
  BY <1>1 DEF BuiltTurn
<1> HIDE DEF parts
<1>4. Parted(parts)
  BY <1>2 DEF Parted
<1> QED BY <1>1, <1>2, <1>3, <1>4 DEF parts, turn

\* A consonant at the start of a part that joins what is in front of it.
Seam ==
  \E n \in DOMAIN golden : \E k \in DOMAIN meeting.script[n].parts :
    Closes(golden[n].text, Offset(meeting.script[n].parts, k) + 1)

\* A built meeting with such a consonant does not pass the gate.
LEMMA SeamRefused ==
  ASSUME meeting \in Meetings, golden = Built, Seam
  PROVE  ~Accepted
<1>1. PICK n \in DOMAIN golden : \E k \in DOMAIN meeting.script[n].parts :
        Closes(golden[n].text, Offset(meeting.script[n].parts, k) + 1)
  BY DEF Seam
<1>2. golden[n].text \in Seq(Char)
  BY BuiltListed DEF Listed
<1>3. Nfc(golden[n].text) # golden[n].text
  BY <1>1, <1>2, JoinedIsNotNfc
<1> QED BY <1>3 DEF Accepted

\* Built meetings pass the gate unless ids repeat or parts join.
LEMMA BuiltAccepted ==
  ASSUME meeting \in Meetings, golden = Built, Buildable, ~RepeatedIds, ~Seam
  PROVE  Accepted
<1>0. ASSUME NEW n \in DOMAIN golden PROVE Nfc(golden[n].text) = golden[n].text
  <2> DEFINE parts == meeting.script[n].parts
  <2>1. /\ Parted(parts) /\ golden[n].text = Text(parts) /\ Text(parts) \in Seq(Char)
        /\ \A k \in DOMAIN parts : Nfc(parts[k].surface) = parts[k].surface
    BY BuiltText
  <2>2. ~\E k \in DOMAIN parts : Closes(golden[n].text, Offset(parts, k) + 1)
    BY DEF Seam
  <2> HIDE DEF parts
  <2> QED BY <2>1, <2>2, SeamOrNfc
<1> SUFFICES ASSUME NEW n \in DOMAIN golden, NEW token \in Range(golden[n].tokens)
             PROVE  InPlace(token, golden[n].text) /\ Consistent(token)
  BY <1>0 DEF Accepted
<1>1. PICK k \in DOMAIN golden[n].tokens : token = golden[n].tokens[k]
  BY DEF Range
<1>2. Stood(token, golden[n].text) /\ Derived(token)
  BY <1>1, BuiltStands
<1>3. token.manual \in BOOLEAN
  BY <1>1, BuiltListed DEF Listed
<1> QED BY <1>2, <1>3, AgreesAgain DEF Stood

\* Every step of the bench keeps the invariant.
LEMMA ScoreInvNext == ScoreInv /\ [Next]_vars => ScoreInv'
<1> SUFFICES ASSUME ScoreInv, [Next]_vars PROVE ScoreInv'
  OBVIOUS
<1>0. meeting \in Meetings /\ Listed(Built)
  BY BuiltListed DEF ScoreInv
<1>1. meeting' = meeting /\ Built' = Built /\ (Buildable' <=> Buildable)
  BY DEF Next, vars, BuildFails, Build, GateRefuses, GatePasses, JoinFails, Join, Fail,
         ScoreToken, NextTurn, Report, Built, Buildable
<1>2. CASE BuildFails \/ GateRefuses \/ JoinFails
  BY <1>1, <1>2 DEF BuildFails, GateRefuses, JoinFails, Fail, ScoreInv
<1>3. CASE Build
  BY <1>1, <1>3 DEF Build, ScoreInv
<1>4. CASE GatePasses
  BY <1>1, <1>4 DEF GatePasses, ScoreInv
<1>5. CASE Join
  <2>1. /\ golden = Built /\ golden' = golden /\ at = <<1, 1>> /\ at' = at /\ scores = <<>>
        /\ scores' = scores /\ phase' = "scoring" /\ Buildable
    BY <1>5 DEF Join, ScoreInv
  <2>2. PastOf(golden, 1, 1) = {} /\ Stands(golden, 1, 1)
    BY <1>0, <2>1, PastStart
  <2>3. Counts(<<>>, {})
    BY FS_EmptySet DEF Counts, IsList
  <2>4. at[1] = 1 /\ at[2] = 1 /\ at = <<at[1], at[2]>> /\ DOMAIN scores = {}
    BY <2>1
  <2>5. Counts(scores, PastOf(golden, at[1], at[2])) /\ Stands(golden, at[1], at[2])
    BY <2>1, <2>2, <2>3, <2>4
  <2> QED BY <1>0, <1>1, <2>1, <2>4, <2>5 DEF ScoreInv
<1>6. CASE ScoreToken
  <2> DEFINE t == at[1]
             k == at[2]
             new == Scored(golden[t], golden[t].tokens[k])
  <2>1. /\ golden = Built /\ golden' = golden /\ phase = "scoring" /\ phase' = phase
        /\ Buildable
        /\ t \in DOMAIN golden /\ k \in DOMAIN golden[t].tokens
        /\ at = <<t, k>> /\ at' = <<t, k + 1>> /\ scores' = Append(scores, new)
    BY <1>6 DEF ScoreToken, Scoring, ScoreInv
  <2>2. /\ Counts(scores, PastOf(golden, t, k))
        /\ \A n \in DOMAIN scores : Just(scores[n], meeting, golden)
    BY <2>1 DEF ScoreInv
  <2>3. new.at = <<t, k>> /\ Just(new, meeting, golden)
    <3>1. Buildable
      BY <2>1 DEF ScoreInv
    <3> QED BY <1>0, <2>1, <3>1, UnheardScored, VerbatimScored, BetweenScored DEF Just
  <2> HIDE DEF t, k, new
  <2>4. /\ PastOf(golden, t, k + 1) = PastOf(golden, t, k) \cup {<<t, k>>}
        /\ <<t, k>> \notin PastOf(golden, t, k) /\ Stands(golden, t, k + 1)
    BY <1>0, <2>1, PastNext
  <2>5. /\ IsList(scores') /\ Len(scores') = Len(scores) + 1 /\ Len(scores) \in Nat
        /\ scores'[Len(scores) + 1] = new
        /\ \A n \in 1 .. Len(scores) : scores'[n] = scores[n]
        /\ DOMAIN scores = 1 .. Len(scores) /\ DOMAIN scores' = 1 .. Len(scores) + 1
    <3>1. IsList(scores) /\ Len(scores) \in Nat /\ DOMAIN scores = 1 .. Len(scores)
      BY <2>2 DEF Counts, IsList
    <3>2. /\ IsList(Append(scores, new)) /\ Len(Append(scores, new)) = Len(scores) + 1
          /\ Append(scores, new)[Len(scores) + 1] = new
          /\ \A n \in 1 .. Len(scores) : Append(scores, new)[n] = scores[n]
      BY <3>1, ListGrows
    <3>3. IsList(scores') /\ Len(scores') = Len(scores) + 1
      BY <2>1, <3>2
    <3>4. DOMAIN scores' = 1 .. Len(scores) + 1
      BY <3>3 DEF IsList
    <3> QED BY <2>1, <3>1, <3>2, <3>4
  <2>6. \A n \in DOMAIN scores' : Just(scores'[n], meeting, golden)
    <3> SUFFICES ASSUME NEW n \in DOMAIN scores' PROVE Just(scores'[n], meeting, golden)
      OBVIOUS
    <3>1. n \in DOMAIN scores \/ n = Len(scores) + 1
      BY <2>5
    <3> QED BY <2>2, <2>3, <2>5, <3>1
  <2>7. Counts(scores', PastOf(golden, t, k + 1))
    <3> DEFINE past == PastOf(golden, t, k)
               here == <<t, k>>
    <3> HIDE DEF past, here
    <3>1. IsFiniteSet(past) /\ Len(scores) = Cardinality(past) /\ here \notin past
          /\ { scores[n].at : n \in DOMAIN scores } = past
      BY <2>2, <2>4 DEF Counts, past, here
    <3>2. IsFiniteSet(past \cup {here}) /\ Cardinality(past \cup {here}) = Cardinality(past) + 1
      BY <3>1, FS_AddElement
    <3>3. { scores'[n].at : n \in DOMAIN scores' } = past \cup {here}
      <4>1. \A n \in DOMAIN scores' : scores'[n].at \in past \cup {here}
        <5> SUFFICES ASSUME NEW n \in DOMAIN scores' PROVE scores'[n].at \in past \cup {here}
          OBVIOUS
        <5>1. n \in DOMAIN scores \/ n = Len(scores) + 1
          BY <2>5
        <5>2. n \in DOMAIN scores => scores'[n] = scores[n]
          BY <2>5
        <5> QED BY <2>3, <2>5, <3>1, <5>1, <5>2 DEF here
      <4>2. ASSUME NEW c \in past PROVE \E n \in DOMAIN scores' : scores'[n].at = c
        <5>1. PICK n \in DOMAIN scores : scores[n].at = c
          BY <3>1
        <5>2. n \in DOMAIN scores' /\ scores'[n] = scores[n]
          BY <2>5
        <5> QED BY <5>1, <5>2
      <4>3. \E n \in DOMAIN scores' : scores'[n].at = here
        <5>1. Len(scores) + 1 \in DOMAIN scores'
          BY <2>5
        <5> QED BY <2>3, <2>5, <5>1 DEF here
      <4> QED BY <4>1, <4>2, <4>3
    <3>4. PastOf(golden, t, k + 1) = past \cup {here}
      BY <2>4 DEF past, here
    <3> QED BY <2>5, <3>1, <3>2, <3>3, <3>4 DEF Counts
  <2>8. at'[1] = t /\ at'[2] = k + 1 /\ at' = <<at'[1], at'[2]>>
    BY <2>1
  <2> QED BY <1>0, <1>1, <2>1, <2>4, <2>6, <2>7, <2>8 DEF ScoreInv
<1>7. CASE NextTurn
  <2> DEFINE t == at[1]
             k == at[2]
  <2>1. /\ golden = Built /\ golden' = golden /\ phase = "scoring" /\ phase' = phase
        /\ Buildable
        /\ t \in DOMAIN golden /\ k \notin DOMAIN golden[t].tokens
        /\ at' = <<t + 1, 1>> /\ scores' = scores
        /\ Stands(golden, t, k) /\ Counts(scores, PastOf(golden, t, k))
        /\ \A n \in DOMAIN scores : Just(scores[n], meeting, golden)
    BY <1>7 DEF NextTurn, Scoring, ScoreInv
  <2> HIDE DEF t, k
  <2>2. PastOf(golden, t + 1, 1) = PastOf(golden, t, k) /\ Stands(golden, t + 1, 1)
    BY <1>0, <2>1, PastTurn
  <2>3. at'[1] = t + 1 /\ at'[2] = 1 /\ at' = <<at'[1], at'[2]>>
    BY <2>1
  <2> QED BY <1>0, <1>1, <2>1, <2>2, <2>3 DEF ScoreInv
<1>8. CASE Report
  <2>1. /\ golden = Built /\ golden' = golden /\ phase' = "done" /\ scores' = scores
        /\ Buildable /\ \A n \in DOMAIN scores : Just(scores[n], meeting, golden)
        /\ at[1] \notin DOMAIN golden /\ Stands(golden, at[1], at[2])
        /\ Counts(scores, PastOf(golden, at[1], at[2]))
        /\ \A n \in DOMAIN scores : Just(scores[n], meeting, golden)
    BY <1>8 DEF Report, ScoreInv
  <2>2. PastOf(golden, at[1], at[2]) = TokensOf(golden)
    BY <1>0, <2>1, PastAll
  <2> QED BY <1>0, <1>1, <2>1, <2>2 DEF ScoreInv
<1>9. CASE UNCHANGED vars
  BY <1>1, <1>9 DEF vars, ScoreInv
<1> QED BY <1>2, <1>3, <1>4, <1>5, <1>6, <1>7, <1>8, <1>9 DEF Next

\* However many turns a script has and whichever of them the transcript lacks: a
\* report of score_meeting judges every token once, and a token of a turn that
\* was not heard is lost, or for review.
THEOREM EveryTokenJudged == Spec => []UnheardIsLost
<1>1. ScoreInv => UnheardIsLost
  <2> SUFFICES ASSUME ScoreInv, phase = "done"
               PROVE  /\ Len(scores) = Cardinality(Tokens)
                      /\ { scores[n].at : n \in DOMAIN scores } = Tokens
                      /\ \A n \in DOMAIN scores :
                           ~Covered(scores[n]) =>
                             scores[n].outcome =
                               IF TokenOf(scores[n]).manual THEN "ambiguous" ELSE "deleted"
    BY DEF UnheardIsLost
  <2>1. TokensOf(golden) = Tokens
    BY DEF TokensOf, Tokens
  <2>2. Counts(scores, TokensOf(golden)) /\ \A n \in DOMAIN scores : Just(scores[n], meeting, golden)
    BY DEF ScoreInv
  <2>3. Len(scores) = Cardinality(Tokens) /\ { scores[n].at : n \in DOMAIN scores } = Tokens
    BY <2>1, <2>2 DEF Counts
  <2>4. \A n \in DOMAIN scores :
          ~Covered(scores[n]) =>
            scores[n].outcome = IF TokenOf(scores[n]).manual THEN "ambiguous" ELSE "deleted"
    BY <2>2 DEF Just, Lost, Covered, Turn, TokenOf
  <2> QED BY <2>3, <2>4
<1> QED BY <1>1, ScoreInvInit, ScoreInvNext, PTL DEF Spec

\* What build_golden derived is what validate_golden derives again, and stands
\* where it says: the gate refuses a meeting that was built exactly when turn ids
\* repeat or the start of a part joins the part in front of it, whatever the
\* script.
THEOREM RefusedForTwoReasons == Spec => []RefusedForIdsOrSeams
<1>1. ASSUME ScoreInv, phase = "checking" PROVE ~Accepted <=> RepeatedIds \/ Seam
  <2>1. meeting \in Meetings /\ golden = Built /\ Buildable
    BY <1>1 DEF ScoreInv
  <2>2. RepeatedIds => ~Accepted
    BY DEF Accepted
  <2> QED BY <2>1, <2>2, SeamRefused, BuiltAccepted
<1>2. ScoreInv => RefusedForIdsOrSeams
  BY <1>1 DEF RefusedForIdsOrSeams, Seam
<1> QED BY <1>2, ScoreInvInit, ScoreInvNext, PTL DEF Spec

\* The tokens of turns that were heard as they were said are hits.
VerbatimIsHit ==
  \A n \in DOMAIN scores : HitIfSaid(scores[n], meeting, golden)

\* A turn that was transcribed as it was said: score_meeting finds every token of
\* it that its parser reads, whatever stands around the token.
THEOREM VerbatimScoredHit == Spec => []VerbatimIsHit
<1>1. ScoreInv => VerbatimIsHit
  <2> SUFFICES ASSUME ScoreInv, NEW n \in DOMAIN scores PROVE HitIfSaid(scores[n], meeting, golden)
    BY DEF VerbatimIsHit
  <2>1. phase \in {"scoring", "done"}
    BY DEF ScoreInv
  <2> QED BY <2>1 DEF ScoreInv, Just
<1> QED BY <1>1, ScoreInvInit, ScoreInvNext, PTL DEF Spec

\* Tokens are judged by what was heard between their neighbours.
NeighboursDecide ==
  \A n \in DOMAIN scores : JudgedBetween(scores[n], meeting, golden)

\* Whatever was heard in the place of a token and around it: where align_ops puts the
\* characters next to the token opposite characters of the transcript, or the
\* token stands at an end of its turn, _classify is given exactly what was heard
\* between these, and the token's own words there are a hit.
THEOREM HeardBetweenIsJudged == Spec => []NeighboursDecide
<1>1. ScoreInv => NeighboursDecide
  <2> SUFFICES ASSUME ScoreInv, NEW n \in DOMAIN scores
               PROVE  JudgedBetween(scores[n], meeting, golden)
    BY DEF NeighboursDecide
  <2>1. phase \in {"scoring", "done"}
    BY DEF ScoreInv
  <2> QED BY <2>1 DEF ScoreInv, Just
<1> QED BY <1>1, ScoreInvInit, ScoreInvNext, PTL DEF Spec
=============================================================================
