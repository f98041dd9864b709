---------------------------- MODULE FlagMatching ----------------------------
(***************************************************************************)
(* detect_bench/score.py: predicted flags are matched to golden flags one  *)
(* to one by the segments their quotes are grounded in.                    *)
(*                                                                         *)
(* score_detection runs _greedy_match twice: first among flags of one type *)
(* (the true positives), then among what is left, whatever the type (the   *)
(* localization, whose extra pairs are the type confusions).  A step here  *)
(* is one pair taken by the loop over the sorted candidates; the sort is   *)
(* the order Before.  A flag's quotes are already grounded (module         *)
(* Grounding): it is its id, its type, its segments and whether some quote *)
(* of it was not found.  Ids, types and segments are numbered in the order *)
(* of their strings, which is all the sort key reads of them.              *)
(***************************************************************************)
EXTENDS Integers, FiniteSets, Functions

CONSTANTS
  FlagTypes,     \* the four types a golden flag may have
  PredTypes,     \* what a prediction's type may be, unknown labels included
  Segments,      \* the transcript's segments
  ThreshNum,     \* the matching threshold is ThreshNum / ThreshDen
  ThreshDen

ASSUME TypesAssumption == /\ IsFiniteSet(FlagTypes)
                          /\ FlagTypes \subseteq PredTypes /\ PredTypes \subseteq Nat

ASSUME SegmentsAssumption == Segments \subseteq Nat /\ IsFiniteSet(Segments)

ASSUME ThreshAssumption == ThreshNum \in Nat /\ ThreshDen \in Nat \ {0}

VARIABLES
  golds,         \* [1..n -> golden flags], every one grounded
  preds,         \* [1..m -> predicted flags] in file order
  strict,        \* pairs <<gi, pi>> matched with equal type
  extra,         \* pairs added by the localization pass
  phase          \* "strict", "extra", "done"

vars == <<golds, preds, strict, extra, phase>>

Gold == [id : Nat, type : FlagTypes, segs : SUBSET Segments \ {{}}]

Pred == [id : Nat, type : PredTypes, segs : SUBSET Segments, ungrounded : BOOLEAN]

-----------------------------------------------------------------------------
(* Jaccard overlap and the sort key.                                       *)

Common(c) == Cardinality(golds[c[1]].segs \cap preds[c[2]].segs)
Either(c) == Cardinality(golds[c[1]].segs \cup preds[c[2]].segs)

AtThresh(c) == ThreshDen * Common(c) >= ThreshNum * Either(c)

\* c overlaps strictly more than d.
Closer(c, d) == Common(c) * Either(d) > Common(d) * Either(c)

\* Sorted tuples of segments, compared as Python compares tuples: the first
\* difference decides, and a proper prefix comes first.
TupleBefore(S, T) ==
  \E m \in (S \ T) \cup (T \ S) :
    /\ \A x \in (S \ T) \cup (T \ S) : m <= x
    /\ IF m \in S THEN \E t \in T : t > m
                  ELSE ~\E s \in S : s > m

\* Mutant: ties fall to the positions in the files at once.
TieByIndex(c, d) == c[1] < d[1] \/ (c[1] = d[1] /\ c[2] < d[2])

\* The order of two pairs with equal overlap: golden id, predicted id, type,
\* segments, and only then the positions in the files.
TieBefore(c, d) ==
  LET gc == golds[c[1]]  gd == golds[d[1]]
      pc == preds[c[2]]  pd == preds[d[2]]
  IN \/ gc.id < gd.id
     \/ gc.id = gd.id /\ pc.id < pd.id
     \/ gc.id = gd.id /\ pc.id = pd.id /\ pc.type < pd.type
     \/ /\ gc.id = gd.id /\ pc.id = pd.id /\ pc.type = pd.type
        /\ TupleBefore(pc.segs, pd.segs)
     \/ /\ gc.id = gd.id /\ pc.id = pd.id /\ pc.type = pd.type
        /\ pc.segs = pd.segs
        /\ c[1] < d[1] \/ (c[1] = d[1] /\ c[2] < d[2])

\* Mutant: the sort puts the smallest overlap first.
BeforeReversed(c, d) == Closer(d, c) \/ (~Closer(c, d) /\ TieBefore(c, d))

Before(c, d) == Closer(c, d) \/ (~Closer(d, c) /\ TieBefore(c, d))

-----------------------------------------------------------------------------
(* The greedy passes.                                                      *)

Pairs == (DOMAIN golds) \X (DOMAIN preds)

Candidates(sameType) ==
  { c \in Pairs : /\ preds[c[2]].segs # {}
                  /\ sameType => golds[c[1]].type = preds[c[2]].type
                  /\ AtThresh(c) }

Shares(c, d) == c[1] = d[1] \/ c[2] = d[2]

Unused(S, M) == { c \in S : \A d \in M : ~Shares(c, d) }

TakesFirst(S, c) == c \in S /\ \A d \in S \ {c} : Before(c, d)

\* Mutant: the type-strict pass stops after one pair.
TakeStrictOnce(c) ==
  /\ phase = "strict" /\ strict = {}
  /\ TakesFirst(Candidates(TRUE), c)
  /\ strict' = {c} /\ phase' = "extra"
  /\ UNCHANGED <<golds, preds, extra>>

TakeStrict(c) ==
  /\ phase = "strict"
  /\ TakesFirst(Unused(Candidates(TRUE), strict), c)
  /\ strict' = strict \cup {c}
  /\ UNCHANGED <<golds, preds, extra, phase>>

EndStrict ==
  /\ phase = "strict"
  /\ Unused(Candidates(TRUE), strict) = {}
  /\ phase' = "extra"
  /\ UNCHANGED <<golds, preds, strict, extra>>

TakeExtra(c) ==
  /\ phase = "extra"
  /\ TakesFirst(Unused(Candidates(FALSE), strict \cup extra), c)
  /\ extra' = extra \cup {c}
  /\ UNCHANGED <<golds, preds, strict, phase>>

EndExtra ==
  /\ phase = "extra"
  /\ Unused(Candidates(FALSE), strict \cup extra) = {}
  /\ phase' = "done"
  /\ UNCHANGED <<golds, preds, strict, extra>>

Init == /\ golds \in UNION { [1 .. n -> Gold] : n \in Nat }
        /\ preds \in UNION { [1 .. n -> Pred] : n \in Nat }
        /\ strict = {} /\ extra = {} /\ phase = "strict"

Next == \/ \E c \in Pairs : TakeStrict(c) \/ TakeExtra(c)
        \/ EndStrict
        \/ EndExtra

Spec == Init /\ [][Next]_vars

-----------------------------------------------------------------------------
(* The score read off the finished matching.                               *)

MatchedGolds == { c[1] : c \in strict }
MatchedPreds == { c[2] : c \in strict }

\* Mutant: an unknown predicted type gets no row of its own.
RowsKnown == FlagTypes

\* per_type has a row per known type, and one per unknown type that a false
\* positive carries.
Rows == FlagTypes \cup { preds[pi].type : pi \in DOMAIN preds \ MatchedPreds }

PerType ==
  [t \in Rows |->
     [tp |-> Cardinality({ gi \in MatchedGolds : golds[gi].type = t }),
      fn |-> Cardinality({ gi \in DOMAIN golds \ MatchedGolds : golds[gi].type = t }),
      fp |-> Cardinality({ pi \in DOMAIN preds \ MatchedPreds : preds[pi].type = t })]]

\* The sum of one column over the rows.
SumRows(column) == SumFunction([t \in Rows |-> PerType[t][column]])

Overall == [tp |-> SumRows("tp"),
            fp |-> SumRows("fp"),
            fn |-> SumRows("fn")]

Localization ==
  [tp |-> Cardinality(strict) + Cardinality(extra),
   fp |-> Cardinality(DOMAIN preds) - Cardinality({ c[2] : c \in strict \cup extra }),
   fn |-> Cardinality(DOMAIN golds) - Cardinality({ c[1] : c \in strict \cup extra })]

TypeConfusions == { c \in extra : golds[c[1]].type # preds[c[2]].type }

TaintedMatches == { c \in strict : preds[c[2]].ungrounded }

Misses == DOMAIN golds \ MatchedGolds

Reason(pi) == IF preds[pi].segs # {} THEN "unmatched"
              ELSE IF preds[pi].ungrounded THEN "ungrounded" ELSE "no_evidence"

FalsePositives == { <<pi, Reason(pi)>> : pi \in DOMAIN preds \ MatchedPreds }

-----------------------------------------------------------------------------
(* Properties.                                                             *)

TypeOK == /\ \A gi \in DOMAIN golds : golds[gi] \in Gold
          /\ \A pi \in DOMAIN preds : preds[pi] \in Pred
          /\ strict \subseteq Pairs
          /\ extra \subseteq Pairs
          /\ phase \in {"strict", "extra", "done"}

\* Everything the localization pass adds is a type confusion: the type-strict
\* pass has left no pair of equal type behind (the comment in score_detection
\* that type_confusions relies on), and no true positive is paired again.
ExtrasMistyped ==
  \A c \in extra : /\ golds[c[1]].type # preds[c[2]].type
                   /\ \A d \in strict : ~Shares(c, d)

\* The greedy matching is stable: a pair that could have been a true positive
\* and is not lost its golden flag or its prediction to a pair that overlaps
\* at least as much.
NoBlockingPair ==
  phase # "strict" =>
    \A c \in Pairs \ strict :
      /\ golds[c[1]].type = preds[c[2]].type
      /\ golds[c[1]].segs \cap preds[c[2]].segs # {}
      /\ ThreshDen * Common(c) >= ThreshNum * Either(c)
      => \E d \in strict : Shares(c, d) /\ ~Closer(c, d)

\* The report adds up: every golden flag is a true positive or a miss, every
\* prediction a true positive or a false positive, in the per-type rows taken
\* together; localization finds the true positives and the confusions.
ScoreBalances ==
  phase = "done" =>
    /\ Overall.tp + Overall.fn = Cardinality(DOMAIN golds)
    /\ Overall.tp + Overall.fp = Cardinality(DOMAIN preds)
    /\ Overall.tp = Cardinality(strict)
    /\ Localization.tp = Overall.tp + Cardinality(TypeConfusions)
    /\ Localization.tp + Localization.fn = Cardinality(DOMAIN golds)
    /\ Localization.tp + Localization.fp = Cardinality(DOMAIN preds)
=============================================================================
