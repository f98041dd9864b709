----------------------------- MODULE Grounding -----------------------------
(***************************************************************************)
(* detect_bench/grounding.py: which segments of the transcript a quote     *)
(* comes from.                                                             *)
(*                                                                         *)
(* Text is a sequence of words, as _collapse leaves it; a word is a model  *)
(* value, so one word is never inside another, and the coverage of a       *)
(* partial match, len(qc)/len(tc), is larger exactly when the segment has  *)
(* fewer words.  A segment is its speaker, its words and its start; its id *)
(* is its position (validate_golden has refused repeated ids).             *)
(***************************************************************************)
EXTENDS Integers, FiniteSets, Sequences

LOCAL INSTANCE SequencesExt

CONSTANTS
  Punct,         \* the words made of punctuation only
  NoSpeaker,     \* speaker "" or None
  NoTime,        \* time_sec None or not a number
  MaxSpan        \* _MAX_SPAN, 3 in the code

ASSUME MaxSpanAssumption == MaxSpan \in Nat

Tokens(q) == ToSet(q) \ Punct

Within(q, t) == q \in SubSeqs(t)

-----------------------------------------------------------------------------
(* One segment.                                                            *)

Exact(q, tr) == { i \in DOMAIN tr : tr[i].text = q }

Containing(q, tr) == { i \in DOMAIN tr : tr[i].text # <<>> /\ Within(q, tr[i].text) }

Tightest(q, tr) ==
  { i \in Containing(q, tr) :
      \A k \in Containing(q, tr) : Len(tr[i].text) <= Len(tr[k].text) }

Inter(q, seg) == Cardinality(Tokens(q) \cap Tokens(seg.text))
Union(q, seg) == Cardinality(Tokens(q) \cup Tokens(seg.text))

\* Token overlap of at least 0.6.
Similar(q, tr) ==
  { i \in DOMAIN tr : Inter(q, tr[i]) > 0 /\ 5 * Inter(q, tr[i]) >= 3 * Union(q, tr[i]) }

MostSimilar(q, tr) ==
  { i \in Similar(q, tr) :
      \A k \in Similar(q, tr) :
        Inter(q, tr[i]) * Union(q, tr[k]) >= Inter(q, tr[k]) * Union(q, tr[i]) }

SingleCandidates(q, tr) ==
  IF Exact(q, tr) # {} THEN [tier |-> 0, at |-> Exact(q, tr)]
  ELSE IF Containing(q, tr) # {} THEN [tier |-> 1, at |-> Tightest(q, tr)]
  ELSE [tier |-> 2, at |-> MostSimilar(q, tr)]

Gap(a, b) == IF a < b THEN b - a ELSE a - b

\* Mutant: a segment without a start counts as nearest.
NearerUnknownFirst(a, b, time) ==
  time # NoTime /\ (IF a.start = NoTime THEN 0 ELSE Gap(a.start, time))
                     < (IF b.start = NoTime THEN 0 ELSE Gap(b.start, time))

\* Segment a starts nearer to the hinted time than b; one that has no start
\* comes last.
Nearer(a, b, time) ==
  /\ time # NoTime /\ a.start # NoTime
  /\ b.start # NoTime => Gap(a.start, time) < Gap(b.start, time)

\* The order of _pick: the hinted speaker, then nearness, then position.
Speaks(seg, speaker) == speaker # NoSpeaker /\ seg.speaker = speaker

PickBefore(i, k, tr, st) ==
  LET a == tr[i]  b == tr[k]
  IN \/ Speaks(a, st.speaker) /\ ~Speaks(b, st.speaker)
     \/ /\ Speaks(a, st.speaker) = Speaks(b, st.speaker)
        /\ \/ Nearer(a, b, st.time)
           \/ ~Nearer(b, a, st.time) /\ i < k

Pick(S, tr, st) == CHOOSE i \in S : \A k \in S \ {i} : PickBefore(i, k, tr, st)

\* ground_quote: at most one segment.
GroundQuote(st, tr) ==
  LET cands == SingleCandidates(st.quote, tr).at
  IN IF Tokens(st.quote) = {} \/ cands = {} THEN {} ELSE {Pick(cands, tr, st)}

-----------------------------------------------------------------------------
(* Consecutive segments of one speaker.                                    *)

First(I) == CHOOSE i \in I : \A k \in I : i <= k

Runs(tr) ==
  { i .. i + size - 1 : i \in DOMAIN tr, size \in 2 .. MaxSpan } \cap SUBSET DOMAIN tr

Joined(I, tr) == FlattenSeq([k \in 1 .. Cardinality(I) |-> tr[First(I) + k - 1].text])

\* The quote runs over the segments I, all of one named speaker, and is in
\* none of them alone.
Carries(q, I, tr) ==
  /\ \E s \in { tr[i].speaker : i \in I } \ {NoSpeaker} :
       \A i \in I : tr[i].speaker = s
  /\ Within(q, Joined(I, tr))
  /\ ~\E i \in I : Within(q, tr[i].text)

\* The shortest window of each start.
SameSpeakerWindows(q, tr) ==
  { I \in Runs(tr) :
      /\ Carries(q, I, tr)
      /\ ~\E J \in Runs(tr) : J # I /\ J \subseteq I /\ First(J) = First(I)
                              /\ Carries(q, J, tr) }

\* Mutant: windows that contain another one are kept.
SmallestAll(W) == W

Smallest(W) == { I \in W : ~\E J \in W : J # I /\ J \subseteq I }

OfSpeaker(W, tr, speaker) == { I \in W : tr[First(I)].speaker = speaker }

WindowNearer(I, J, tr, time) ==
  \E i \in I : \A j \in J : Nearer(tr[i], tr[j], time)

\* The windows nearest to the hinted time.
Nearest(W, tr, time) ==
  IF time = NoTime THEN W
  ELSE { I \in W : ~\E J \in W : WindowNearer(J, I, tr, time) }

\* Mutant: an ambiguous quote goes to the first window.
SpanGroundingFirst(st, tr) ==
  LET W == Smallest(SameSpeakerWindows(st.quote, tr))
  IN IF W = {} THEN {} ELSE CHOOSE I \in W : \A J \in W : First(I) <= First(J)

\* Mutant: the hinted speaker is a condition, not a preference.
SpanGroundingHardGate(st, tr) ==
  LET all  == Smallest(SameSpeakerWindows(st.quote, tr))
      mine == OfSpeaker(all, tr, st.speaker)
      left == Nearest(IF st.speaker # NoSpeaker THEN mine ELSE all, tr, st.time)
  IN IF \E I \in left : left = {I} THEN CHOOSE I \in left : TRUE ELSE {}

\* _span_grounding: the one window the hints leave, or nothing.
SpanGrounding(st, tr) ==
  LET all  == Smallest(SameSpeakerWindows(st.quote, tr))
      mine == OfSpeaker(all, tr, st.speaker)
      left == Nearest(IF st.speaker # NoSpeaker /\ mine # {} THEN mine ELSE all,
                      tr, st.time)
  IN IF \E I \in left : left = {I} THEN CHOOSE I \in left : TRUE ELSE {}

\* ground_quote_span: a certain single segment, else a fuzzy one widened to a
\* window that touches a best candidate, else a window alone.
GroundQuoteSpan(st, tr) ==
  LET single == SingleCandidates(st.quote, tr)
      window == SpanGrounding(st, tr)
  IN IF Tokens(st.quote) = {} THEN {}
     ELSE IF single.at = {} \/ (single.tier = 2 /\ window \cap single.at # {})
          THEN window
     ELSE {Pick(single.at, tr, st)}
=============================================================================
