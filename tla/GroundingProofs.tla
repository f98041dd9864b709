-------------------------- MODULE GroundingProofs --------------------------
(***************************************************************************)
(* What the two users of grounding may rely on, for every transcript and   *)
(* any number of flags and statements.                                     *)
(*                                                                         *)
(* Resolving flags: the hints of an untrusted prediction do no harm, what  *)
(* is quoted verbatim is found, and a window is no wider than its quote.   *)
(* SpanGrounding without hints answers only when a single window is left,  *)
(* and both filters of a single window return it; with hints the choice is *)
(* among windows that hold no other, which is where their tightness is     *)
(* from.                                                                   *)
(*                                                                         *)
(* Validating golden meetings: what validate_golden and the scorer's       *)
(* second grounding guarantee, whatever ground_quote answers.  The         *)
(* invariant says, of the flags the gate has let through, that their ids   *)
(* differ, that their segments are recorded under their ids and that none  *)
(* of their quotes is ungrounded; and of each later stage, that the checks *)
(* before it hold.                                                         *)
(***************************************************************************)
EXTENDS FlagResolution, GoldenGate, SequenceFacts, FiniteSetTheorems

\* A transcript is numbered from 1, and a segment is its text, its speaker
\* and its start.
Spoken(tr) ==
  /\ Len(tr) \in Nat /\ DOMAIN tr = 1 .. Len(tr)
  /\ \A i \in DOMAIN tr :
       /\ tr[i] = [text |-> tr[i].text, speaker |-> tr[i].speaker, start |-> tr[i].start]
       /\ tr[i].start \in Int \cup {NoTime}

Timed == /\ Spoken(transcript)
         /\ \A n \in DOMAIN flag : flag[n].time \in Int \cup {NoTime}

LEMMA AlwaysTimed == QSpec => []Timed
<1>1. QInit => Timed
  BY TranscriptsAssumption, QuotationsAssumption DEF QInit, Timed, Spoken
<1>2. Timed /\ [QNext]_qvars => Timed'
  BY DEF Timed, Spoken, QNext, SkipBlank, Ground, qvars
<1> QED BY <1>1, <1>2, PTL DEF QSpec

\* Nothing starts nearer to a time than itself.
LEMMA NotNearerThanItself ==
  ASSUME NEW seg, seg.start \in Int \cup {NoTime}, NEW time \in Int \cup {NoTime}
  PROVE  ~Nearer(seg, seg, time)
<1> SUFFICES ASSUME time # NoTime, seg.start # NoTime,
                    Gap(seg.start, time) < Gap(seg.start, time)
             PROVE  FALSE
  BY DEF Nearer
<1>1. Gap(seg.start, time) \in Int
  BY DEF Gap
<1> QED BY <1>1

\* Whatever window is found without hints is found with any.
LEMMA WindowStays ==
  ASSUME NEW tr, \A i \in DOMAIN tr : tr[i].start \in Int \cup {NoTime},
         NEW st, st.time \in Int \cup {NoTime},
         NEW free, free.quote = st.quote, free.speaker = NoSpeaker, free.time = NoTime,
         SpanGrounding(free, tr) # {}
  PROVE  SpanGrounding(st, tr) = SpanGrounding(free, tr)
<1> DEFINE all == Smallest(SameSpeakerWindows(st.quote, tr))
<1>1. Nearest(all, tr, NoTime) = all
  BY DEF Nearest
<1> HIDE DEF all
<1>2. SpanGrounding(free, tr) = IF \E I \in all : all = {I} THEN CHOOSE I \in all : TRUE
                                ELSE {}
  BY <1>1 DEF SpanGrounding, all
<1>3. PICK I \in all : all = {I}
  BY <1>2
<1>4. SpanGrounding(free, tr) = I
  BY <1>2, <1>3
<1>5. I \in SUBSET DOMAIN tr
  BY <1>3 DEF all, Smallest, SameSpeakerWindows, Runs
<1> DEFINE mine == OfSpeaker(all, tr, st.speaker)
           kept == IF st.speaker # NoSpeaker /\ mine # {} THEN mine ELSE all
<1>6. kept = {I}
  BY <1>3 DEF OfSpeaker
<1>7. Nearest(kept, tr, st.time) = {I}
  <2>1. Nearest({I}, tr, st.time) = {I}
    <3>1. \A i \in I : ~Nearer(tr[i], tr[i], st.time)
      BY <1>5, NotNearerThanItself
    <3> QED BY <3>1 DEF Nearest, WindowNearer
  <2> HIDE DEF kept
  <2> QED BY <1>6, <2>1
<1>8. SpanGrounding(st, tr) = IF \E J \in Nearest(kept, tr, st.time) :
                                   Nearest(kept, tr, st.time) = {J}
                              THEN CHOOSE J \in Nearest(kept, tr, st.time) : TRUE ELSE {}
  BY DEF SpanGrounding, all
<1> HIDE DEF kept
<1> QED BY <1>4, <1>7, <1>8

\* What the two forms of grounding answer with and without hints.
LEMMA SingleUnhinted ==
  ASSUME NEW tr, NEW st, NEW free, free.quote = st.quote
  PROVE  /\ GroundQuote(free, tr) # {} => GroundQuote(st, tr) # {}
         /\ ~(Cardinality(GroundQuote(free, tr)) > 1)
<1>1. GroundQuote(free, tr) # {} => GroundQuote(st, tr) # {}
  BY DEF GroundQuote
<1>2. GroundQuote(free, tr) = {} \/ \E i : GroundQuote(free, tr) = {i}
  BY DEF GroundQuote
<1>3. Cardinality({}) = 0 /\ \A i : Cardinality({i}) = 1
  BY FS_EmptySet, FS_Singleton
<1> QED BY <1>1, <1>2, <1>3

LEMMA SpanUnhinted ==
  ASSUME NEW tr, \A i \in DOMAIN tr : tr[i].start \in Int \cup {NoTime},
         NEW st, st.time \in Int \cup {NoTime},
         NEW free, free.quote = st.quote, free.speaker = NoSpeaker, free.time = NoTime
  PROVE  /\ GroundQuoteSpan(free, tr) # {} => GroundQuoteSpan(st, tr) # {}
         /\ Cardinality(GroundQuoteSpan(free, tr)) > 1
              => GroundQuoteSpan(st, tr) = GroundQuoteSpan(free, tr)
<1> DEFINE single == SingleCandidates(st.quote, tr)
           alone(w) == single.at = {} \/ (single.tier = 2 /\ w \cap single.at # {})
           answer(x, w) == IF Tokens(st.quote) = {} THEN {}
                           ELSE IF alone(w) THEN w ELSE {Pick(single.at, tr, x)}
           w0 == SpanGrounding(free, tr)
           w1 == SpanGrounding(st, tr)
<1>1. /\ GroundQuoteSpan(free, tr) = answer(free, w0)
      /\ GroundQuoteSpan(st, tr) = answer(st, w1)
  BY DEF GroundQuoteSpan
<1>2. w0 # {} => w1 = w0
  BY WindowStays
<1>3. Cardinality({}) = 0 /\ \A i : Cardinality({i}) = 1
  BY FS_EmptySet, FS_Singleton
<1> HIDE DEF single, w0, w1
<1>4. answer(free, w0) # {} => answer(st, w1) # {}
  BY <1>2
<1>5. Cardinality(answer(free, w0)) > 1 => answer(st, w1) = answer(free, w0)
  <2>1. CASE Tokens(st.quote) = {}
    BY <1>3, <2>1
  <2>2. CASE Tokens(st.quote) # {} /\ ~alone(w0)
    <3>1. answer(free, w0) = {Pick(single.at, tr, free)}
      BY <2>2
    <3>2. Cardinality(answer(free, w0)) = 1
      BY ONLY <1>3, <3>1
    <3> QED BY <3>2
  <2>3. CASE Tokens(st.quote) # {} /\ alone(w0)
    <3>1. answer(free, w0) = w0
      BY <2>3
    <3>2. CASE w0 = {}
      BY <1>3, <3>1, <3>2
    <3>3. CASE w0 # {}
      BY <1>2, <2>3, <3>3
    <3> QED BY <3>2, <3>3
  <2> QED BY <2>1, <2>2, <2>3
<1> HIDE DEF answer
<1> QED BY <1>1, <1>4, <1>5

-----------------------------------------------------------------------------
(* Windows.                                                                *)

LEMMA RunOf ==
  ASSUME NEW a \in Int, NEW n \in Nat \ {0}
  PROVE  /\ Cardinality(a .. a + n - 1) = n
         /\ First(a .. a + n - 1) = a
         /\ a \in a .. a + n - 1
<1> DEFINE I == a .. a + n - 1
<1>1. Cardinality(I) = n
  <2>1. a + n - 1 \in Int /\ ~(a > a + n - 1) /\ (a + n - 1) - a + 1 = n
    OBVIOUS
  <2> QED BY <2>1, FS_Interval
<1>2. a \in I /\ \A i \in I : a <= i
  OBVIOUS
<1>3. \A i \in I : (\A k \in I : i <= k) => i = a
  OBVIOUS
<1>4. First(I) = a
  BY <1>2, <1>3 DEF First
<1> QED BY <1>1, <1>2, <1>4

\* A window of one segment reads as that segment.
LEMMA OneReads ==
  ASSUME NEW tr, NEW a \in Int
  PROVE  Joined({a}, tr) = tr[a].text
<1>1. Cardinality({a}) = 1
  BY FS_Singleton
<1>2. First({a}) = a
  BY DEF First
<1>3. [k \in 1 .. 1 |-> tr[a + k - 1].text] = [k \in 1 .. 1 |-> tr[a].text]
  <2>1. \A k \in 1 .. 1 : a + k - 1 = a
    OBVIOUS
  <2> QED BY <2>1
<1> QED BY <1>1, <1>2, <1>3, FlattenOne DEF Joined

LEMMA RunShape ==
  ASSUME NEW tr, Spoken(tr)
  PROVE  /\ \A J \in Runs(tr) : \E a \in DOMAIN tr, n \in 2 .. MaxSpan :
              J = a .. a + n - 1 /\ J \subseteq DOMAIN tr /\ First(J) = a
         /\ \A a \in DOMAIN tr, n \in 2 .. MaxSpan :
              a .. a + n - 1 \subseteq DOMAIN tr => a .. a + n - 1 \in Runs(tr)
<1>1. DOMAIN tr \subseteq Int /\ \A n \in 2 .. MaxSpan : n \in Nat \ {0}
  BY MaxSpanAssumption DEF Spoken
<1>2. ASSUME NEW J \in Runs(tr)
      PROVE  \E a \in DOMAIN tr, n \in 2 .. MaxSpan :
               J = a .. a + n - 1 /\ J \subseteq DOMAIN tr /\ First(J) = a
  <2>1. PICK a \in DOMAIN tr, n \in 2 .. MaxSpan : J = a .. a + n - 1
    BY DEF Runs
  <2>2. J \subseteq DOMAIN tr
    BY DEF Runs
  <2>3. First(J) = a
    BY <1>1, <2>1, RunOf
  <2> QED BY <2>1, <2>2, <2>3
<1> QED BY <1>2 DEF Runs

\* Among the runs from one segment on that carry a quote the shortest is a
\* window.
LEMMA ShortestIsWindow ==
  ASSUME NEW tr, Spoken(tr), NEW q, NEW a \in DOMAIN tr, NEW n \in 2 .. MaxSpan,
         a .. a + n - 1 \subseteq DOMAIN tr, Carries(q, a .. a + n - 1, tr)
  PROVE  \E J \in SameSpeakerWindows(q, tr) : J \subseteq a .. a + n - 1
<1> DEFINE Good == { m \in 2 .. n : Carries(q, a .. a + m - 1, tr) }
<1>1. a \in Int /\ n \in Nat /\ n \in Good /\ Good \in SUBSET Nat
      /\ MaxSpan \in Nat /\ 2 .. n \subseteq 2 .. MaxSpan
  BY MaxSpanAssumption DEF Spoken
<1>2. PICK m \in Good : \A l \in Good : m <= l
  <2> HIDE DEF Good
  <2> QED BY <1>1, LeastNatural
<1> DEFINE J == a .. a + m - 1
<1>3. m \in 2 .. n /\ m \in 2 .. MaxSpan /\ m \in Nat /\ Carries(q, J, tr)
  BY <1>1
<1>4. J \subseteq a .. a + n - 1
  BY <1>1, <1>3
<1>5. J \in Runs(tr) /\ First(J) = a
  <2>1. m \in Nat \ {0}
    BY <1>3
  <2> QED BY <1>1, <1>3, <1>4, <2>1, RunShape, RunOf
<1>6. ASSUME NEW K \in Runs(tr), K # J, K \subseteq J, First(K) = First(J), Carries(q, K, tr)
      PROVE  FALSE
  <2>1. PICK b \in DOMAIN tr, l \in 2 .. MaxSpan : K = b .. b + l - 1 /\ First(K) = b
    BY RunShape
  <2>2. b = a /\ l \in Nat
    BY <1>1, <1>5, <1>6, <2>1
  <2>3. K = a .. a + l - 1 /\ a + l - 1 \in K
    BY <1>1, <2>1, <2>2
  <2>4. a + l - 1 \in J
    BY <1>6, <2>3
  <2>5. l <= m /\ l # m
    BY <1>1, <1>3, <1>6, <2>2, <2>3, <2>4
  <2>6. l \in Good
    BY <1>1, <1>3, <1>6, <2>1, <2>2, <2>3, <2>5
  <2>7. m <= l
    BY <1>2, <2>6
  <2> QED BY <1>3, <2>2, <2>5, <2>7
<1>7. J \in SameSpeakerWindows(q, tr)
  <2> HIDE DEF J
  <2> QED BY <1>3, <1>5, <1>6 DEF SameSpeakerWindows
<1> QED BY <1>4, <1>7

\* A smallest window needs its first segment and its last.
LEMMA WindowIsTight ==
  ASSUME NEW tr, Spoken(tr), NEW q, NEW W \in Smallest(SameSpeakerWindows(q, tr))
  PROVE  /\ W \in Runs(tr) /\ Carries(q, W, tr)
         /\ ~Within(q, Joined(W \ {First(W)}, tr))
         /\ ~Within(q, Joined(W \ {First(W) + Cardinality(W) - 1}, tr))
<1>1. /\ W \in SameSpeakerWindows(q, tr)
      /\ \A J \in SameSpeakerWindows(q, tr) : J \subseteq W => J = W
  BY DEF Smallest
<1>2. /\ W \in Runs(tr) /\ Carries(q, W, tr)
      /\ \A J \in Runs(tr) : J # W /\ J \subseteq W /\ First(J) = First(W)
                             => ~Carries(q, J, tr)
  BY <1>1 DEF SameSpeakerWindows
<1>3. PICK a \in DOMAIN tr, n \in 2 .. MaxSpan :
        W = a .. a + n - 1 /\ W \subseteq DOMAIN tr /\ First(W) = a
  BY <1>2, RunShape
<1>4. a \in Int /\ n \in Nat /\ n >= 2 /\ n <= MaxSpan /\ MaxSpan \in Nat
  BY MaxSpanAssumption DEF Spoken
<1>5. Cardinality(W) = n
  BY <1>3, <1>4, RunOf
<1>6. ASSUME NEW I, I \subseteq W, I # {}, Within(q, Joined(I, tr))
      PROVE  Carries(q, I, tr)
  BY <1>2, <1>6 DEF Carries
<1>7. \A i \in W : ~Within(q, tr[i].text)
  BY <1>2 DEF Carries
<1>8. ~Within(q, Joined(W \ {a}, tr))
  <2> DEFINE I == a + 1 .. a + 1 + (n - 1) - 1
  <2>1. W \ {a} = I /\ I \subseteq W /\ I # W /\ a + 1 \in I /\ a + 1 \in W
    BY <1>3, <1>4
  <2>2. CASE n = 2
    <3>1. W \ {a} = {a + 1}
      BY <1>3, <1>4, <2>2
    <3> QED BY <1>4, <1>7, <2>1, <3>1, OneReads
  <2>3. CASE n # 2
    <3>1. a + 1 \in DOMAIN tr /\ n - 1 \in 2 .. MaxSpan /\ I \subseteq DOMAIN tr
      BY <1>3, <1>4, <2>1, <2>3
    <3>2. SUFFICES ASSUME Carries(q, I, tr) PROVE FALSE
      <4> HIDE DEF I
      <4> QED BY <1>6, <2>1
    <3>3. \E J \in SameSpeakerWindows(q, tr) : J \subseteq I
      BY <3>1, <3>2, ShortestIsWindow
    <3> QED BY <1>1, <2>1, <3>3
  <2> QED BY <2>2, <2>3
<1>9. ~Within(q, Joined(W \ {a + n - 1}, tr))
  <2> DEFINE I == a .. a + (n - 1) - 1
  <2>1. W \ {a + n - 1} = I /\ I \subseteq W /\ I # W /\ a \in I
    BY <1>3, <1>4
  <2>2. CASE n = 2
    <3>1. W \ {a + n - 1} = {a} /\ a \in W
      BY <1>3, <1>4, <2>2
    <3> QED BY <1>4, <1>7, <3>1, OneReads
  <2>3. CASE n # 2
    <3>1. n - 1 \in 2 .. MaxSpan /\ I \subseteq DOMAIN tr /\ n - 1 \in Nat \ {0}
      BY <1>3, <1>4, <2>1, <2>3
    <3>2. I \in Runs(tr) /\ First(I) = a
      BY <1>4, <3>1, RunShape, RunOf
    <3> QED BY <1>2, <1>3, <1>6, <2>1, <3>2
  <2> QED BY <2>2, <2>3
<1> QED BY <1>2, <1>3, <1>5, <1>8, <1>9

-----------------------------------------------------------------------------
(* Answers.                                                                *)

\* A segment with the hinted speaker and start is picked before any other.
LEMMA PickedItself ==
  ASSUME NEW tr, Spoken(tr), NEW st, NEW S \in SUBSET DOMAIN tr, NEW k \in S,
         st.speaker = tr[k].speaker, st.speaker # NoSpeaker,
         st.time = tr[k].start, st.time # NoTime,
         \A j \in S \ {k} : tr[j].speaker # tr[k].speaker \/ tr[j].start # tr[k].start
  PROVE  Pick(S, tr, st) = k
<1>1. /\ k \in DOMAIN tr /\ tr[k].start \in Int /\ Gap(tr[k].start, st.time) = 0
      /\ Speaks(tr[k], st.speaker)
  BY DEF Spoken, Gap, Speaks
<1>2. ASSUME NEW j \in S \ {k}
      PROVE  \/ ~Speaks(tr[j], st.speaker)
             \/ Nearer(tr[k], tr[j], st.time) /\ ~Nearer(tr[j], tr[k], st.time)
  <2>1. SUFFICES ASSUME Speaks(tr[j], st.speaker)
                 PROVE  Nearer(tr[k], tr[j], st.time) /\ ~Nearer(tr[j], tr[k], st.time)
    OBVIOUS
  <2>2. tr[j].start # st.time /\ tr[j].start \in Int \cup {NoTime}
    BY <2>1 DEF Speaks, Spoken
  <2>3. tr[j].start # NoTime => Gap(tr[j].start, st.time) \in Nat /\ Gap(tr[j].start, st.time) > 0
    BY <1>1, <2>2 DEF Gap
  <2>4. Nearer(tr[k], tr[j], st.time)
    BY <1>1, <2>3 DEF Nearer
  <2>5. ~Nearer(tr[j], tr[k], st.time)
    BY <1>1, <2>3 DEF Nearer
  <2> QED BY <2>4, <2>5
<1>3. \A j \in S \ {k} : PickBefore(k, j, tr, st)
  BY <1>1, <1>2 DEF PickBefore
<1>4. \A j \in S \ {k} : ~PickBefore(j, k, tr, st)
  BY <1>1, <1>2 DEF PickBefore
<1>5. \A i \in S : (\A j \in S \ {i} : PickBefore(i, j, tr, st)) => i = k
  BY <1>4
<1> QED BY <1>3, <1>5 DEF Pick

LEMMA Several ==
  ASSUME NEW G, Cardinality(G) > 1
  PROVE  G # {} /\ ~\E i : G = {i}
<1>1. G # {}
  BY FS_EmptySet
<1>2. ASSUME NEW i, G = {i} PROVE FALSE
  <2>1. Cardinality(G) = 1
    BY <1>2, FS_Singleton
  <2> QED BY <2>1
<1> QED BY <1>1, <1>2

\* An answer of several segments is what the windows give.
LEMMA SpanAnswer ==
  ASSUME NEW st, NEW tr
  PROVE  /\ GroundQuote(st, tr) = {} \/ \E i : GroundQuote(st, tr) = {i}
         /\ \/ GroundQuoteSpan(st, tr) = {}
            \/ \E i : GroundQuoteSpan(st, tr) = {i}
            \/ GroundQuoteSpan(st, tr) = SpanGrounding(st, tr)
BY DEF GroundQuote, GroundQuoteSpan

\* The windows the hints choose from are smallest windows.
LEMMA FromSmallest ==
  ASSUME NEW st, NEW tr
  PROVE  SpanGrounding(st, tr) \in Smallest(SameSpeakerWindows(st.quote, tr)) \cup {{}}
<1> DEFINE all == Smallest(SameSpeakerWindows(st.quote, tr))
           mine == OfSpeaker(all, tr, st.speaker)
           kept == IF st.speaker # NoSpeaker /\ mine # {} THEN mine ELSE all
           left == Nearest(kept, tr, st.time)
<1>1. SpanGrounding(st, tr) = IF \E I \in left : left = {I} THEN CHOOSE I \in left : TRUE
                              ELSE {}
  BY DEF SpanGrounding
<1>2. kept \subseteq all
  BY DEF OfSpeaker
<1>3. left \subseteq kept
  BY DEF Nearest
<1> HIDE DEF all, kept, left
<1> QED BY <1>1, <1>2, <1>3 DEF all

\* A window of the hinted speaker that starts a segment at the hinted time is
\* the one the hints leave, or they leave nothing.
LEMMA HintedWindow ==
  ASSUME NEW st, NEW tr, Spoken(tr), NEW W \in Smallest(SameSpeakerWindows(st.quote, tr)),
         st.speaker = tr[First(W)].speaker, st.time # NoTime,
         \E i \in W : tr[i].start = st.time
  PROVE  SpanGrounding(st, tr) \in {W, {}}
<1> DEFINE all == Smallest(SameSpeakerWindows(st.quote, tr))
           mine == OfSpeaker(all, tr, st.speaker)
           kept == IF st.speaker # NoSpeaker /\ mine # {} THEN mine ELSE all
           left == Nearest(kept, tr, st.time)
<1>1. SpanGrounding(st, tr) = IF \E I \in left : left = {I} THEN CHOOSE I \in left : TRUE
                              ELSE {}
  BY DEF SpanGrounding
<1>2. W \in mine
  BY DEF OfSpeaker
<1>3. W \in kept
  BY <1>2
<1>4. \A J \in kept : J \subseteq DOMAIN tr
  <2>1. all \subseteq SUBSET DOMAIN tr
    BY DEF Smallest, SameSpeakerWindows, Runs
  <2>2. mine \subseteq all
    BY DEF OfSpeaker
  <2> QED BY <2>1, <2>2
<1> HIDE DEF all, mine, kept
<1>5. ASSUME NEW J \in kept, WindowNearer(J, W, tr, st.time) PROVE FALSE
  <2>1. PICK i \in W : tr[i].start = st.time
    OBVIOUS
  <2>2. PICK j \in J : Nearer(tr[j], tr[i], st.time)
    BY <1>5, <2>1 DEF WindowNearer
  <2>3. i \in DOMAIN tr /\ j \in DOMAIN tr
    BY <1>3, <1>4, <2>1, <2>2
  <2>4. tr[i].start \in Int /\ tr[j].start \in Int
        /\ Gap(tr[j].start, st.time) < Gap(tr[i].start, st.time)
    BY <2>1, <2>2, <2>3 DEF Nearer, Spoken
  <2> QED BY <2>1, <2>4 DEF Gap
<1>6. W \in left
  BY <1>3, <1>5 DEF Nearest
<1> HIDE DEF left
<1> QED BY <1>1, <1>6

-----------------------------------------------------------------------------
(* Theorems.                                                               *)

\* resolve_flag_segments never loses a quote to a hint, and never moves a
\* boundary quote that is unambiguous without one.
THEOREM HintsHarmless == QSpec => []HintsOnlyChoose
<1>1. ASSUME Timed PROVE HintsOnlyChoose
  <2> SUFFICES ASSUME NEW n \in DOMAIN flag
               PROVE  /\ Grounded(NoHints(flag[n])) # {} => Grounded(flag[n]) # {}
                      /\ Cardinality(Grounded(NoHints(flag[n]))) > 1
                           => Grounded(flag[n]) = Grounded(NoHints(flag[n]))
    BY DEF HintsOnlyChoose
  <2> DEFINE st == flag[n]
             free == NoHints(flag[n])
  <2>1. free.quote = st.quote /\ free.speaker = NoSpeaker /\ free.time = NoTime
    BY DEF NoHints
  <2> HIDE DEF free
  <2>2. CASE span
    <3>1. Grounded(free) = GroundQuoteSpan(free, transcript)
          /\ Grounded(st) = GroundQuoteSpan(st, transcript)
      BY <2>2 DEF Grounded
    <3> QED BY <1>1, <2>1, <3>1, SpanUnhinted DEF Timed, Spoken, free
  <2>3. CASE ~span
    <3>1. Grounded(free) = GroundQuote(free, transcript)
          /\ Grounded(st) = GroundQuote(st, transcript)
      BY <2>3 DEF Grounded
    <3> QED BY <2>1, <3>1, SingleUnhinted DEF free
  <2> QED BY <2>2, <2>3
<1> QED BY <1>1, AlwaysTimed, PTL


\* A quote that is a segment's words, with its speaker and start, is grounded
\* in that segment (_single_candidates, _pick).
THEOREM VerbatimFound == QSpec => []VerbatimFindsItself
<1>1. ASSUME Timed PROVE VerbatimFindsItself
  <2> SUFFICES ASSUME NEW n \in DOMAIN flag, NEW k \in DOMAIN transcript,
                      flag[n].quote = transcript[k].text, Tokens(flag[n].quote) # {},
                      flag[n].speaker = transcript[k].speaker, flag[n].speaker # NoSpeaker,
                      flag[n].time = transcript[k].start, flag[n].time # NoTime,
                      \A j \in DOMAIN transcript \ {k} : transcript[j] # transcript[k]
               PROVE  Grounded(flag[n]) = {k}
    BY DEF VerbatimFindsItself
  <2> DEFINE st == flag[n]
             S == Exact(st.quote, transcript)
  <2>1. k \in S /\ S \in SUBSET DOMAIN transcript
    BY DEF Exact
  <2>2. ASSUME NEW j \in S \ {k}
        PROVE  \/ transcript[j].speaker # transcript[k].speaker
               \/ transcript[j].start # transcript[k].start
    <3>1. j \in DOMAIN transcript /\ transcript[j].text = transcript[k].text
      BY DEF Exact
    <3>2. /\ transcript[j] = [text |-> transcript[j].text, speaker |-> transcript[j].speaker,
                              start |-> transcript[j].start]
          /\ transcript[k] = [text |-> transcript[k].text, speaker |-> transcript[k].speaker,
                              start |-> transcript[k].start]
      BY <1>1, <3>1 DEF Timed, Spoken
    <3> QED BY <3>1, <3>2
  <2>3. Pick(S, transcript, st) = k
    <3> HIDE DEF S
    <3> QED BY <1>1, <2>1, <2>2, PickedItself DEF Timed
  <2>4. SingleCandidates(st.quote, transcript) = [tier |-> 0, at |-> S]
    BY <2>1 DEF SingleCandidates
  <2> HIDE DEF S
  <2>5. GroundQuote(st, transcript) = {k}
    BY <2>1, <2>3, <2>4 DEF GroundQuote
  <2>6. GroundQuoteSpan(st, transcript) = {k}
    BY <2>1, <2>3, <2>4 DEF GroundQuoteSpan
  <2> QED BY <2>5, <2>6 DEF Grounded
<1> QED BY <1>1, AlwaysTimed, PTL

\* A window that is answered holds nobody else's words and no segment the
\* quote does without (_span_candidates).
THEOREM WindowsAreTight == QSpec => []NoBystander
<1>1. ASSUME Timed PROVE NoBystander
  <2> SUFFICES ASSUME NEW n \in DOMAIN flag, Cardinality(Grounded(flag[n])) > 1
               PROVE  LET got == Grounded(flag[n])
                          words(I) == Joined(I, transcript)
                      IN /\ got \in Runs(transcript)
                         /\ \E s \in { transcript[i].speaker : i \in got } :
                              s # NoSpeaker /\ \A i \in got : transcript[i].speaker = s
                         /\ Within(flag[n].quote, words(got))
                         /\ ~Within(flag[n].quote, words(got \ {First(got)}))
                         /\ ~Within(flag[n].quote,
                                    words(got \ {First(got) + Cardinality(got) - 1}))
    BY DEF NoBystander
  <2> DEFINE st == flag[n]
             W == SpanGrounding(st, transcript)
  <2>1. Grounded(st) # {} /\ ~\E i : Grounded(st) = {i}
    BY Several
  <2>2. Grounded(st) = W /\ W # {}
    BY <2>1, SpanAnswer DEF Grounded
  <2>3. W \in Smallest(SameSpeakerWindows(st.quote, transcript))
    BY <2>2, FromSmallest
  <2>4. /\ W \in Runs(transcript) /\ Carries(st.quote, W, transcript)
        /\ ~Within(st.quote, Joined(W \ {First(W)}, transcript))
        /\ ~Within(st.quote, Joined(W \ {First(W) + Cardinality(W) - 1}, transcript))
    <3> HIDE DEF W
    <3> QED BY <1>1, <2>3, WindowIsTight DEF Timed
  <2> HIDE DEF W
  <2> QED BY <2>2, <2>4 DEF Carries
<1> QED BY <1>1, AlwaysTimed, PTL

\* A quote over a boundary, hinted rightly, is grounded there or nowhere
\* (_span_grounding).
THEOREM HintedWindowKept == QSpec => []OwnWindowOrNothing
<1>1. ASSUME Timed PROVE OwnWindowOrNothing
  <2> SUFFICES ASSUME NEW n \in DOMAIN flag,
                      NEW W \in Smallest(SameSpeakerWindows(flag[n].quote, transcript)),
                      span, SingleCandidates(flag[n].quote, transcript).at = {},
                      flag[n].speaker = transcript[First(W)].speaker,
                      flag[n].time # NoTime, \E i \in W : transcript[i].start = flag[n].time
               PROVE  Grounded(flag[n]) \in {W, {}}
    BY DEF OwnWindowOrNothing
  <2>1. SpanGrounding(flag[n], transcript) \in {W, {}}
    BY <1>1, HintedWindow DEF Timed
  <2>2. GroundQuoteSpan(flag[n], transcript) \in {SpanGrounding(flag[n], transcript), {}}
    BY DEF GroundQuoteSpan
  <2> QED BY <2>1, <2>2 DEF Grounded
<1> QED BY <1>1, AlwaysTimed, PTL

-----------------------------------------------------------------------------
(* The golden gate.                                                        *)

N == Len(Flags)

\* How many flags have been let through.
LetThrough == IF stage = "segments" THEN 0
              ELSE IF stage = "flags" THEN at - 1 ELSE N

Recorded(n) ==
  /\ DOMAIN segset = { Flags[m].id : m \in 1 .. n }
  /\ \A m \in 1 .. n : /\ segset[Flags[m].id] = SegsOf(Flags[m])
                       /\ Ungrounded(Flags[m]) = {}
  /\ \A m, k \in 1 .. n : Flags[m].id = Flags[k].id => m = k

Forward == \A id \in DOMAIN segset : \A i \in segset[id] : id \in Transcript[i].flags

Backward == \A i \in DOMAIN Transcript : \A id \in Transcript[i].flags :
              id \in DOMAIN segset /\ i \in segset[id]

Row(f) == [id |-> f.id, segs |-> SegsOf(f)]

Rows == { Row(Flags[m]) : m \in 1 .. N }

Handed(n) == Len(received) = n /\ \A m \in 1 .. n : received[m] = Row(Flags[m])

Stages == {"segments", "flags", "forward", "backward", "passed", "scored",
           "refused", "raised"}

IInv ==
  /\ meeting \in Meetings /\ stage \in Stages
  /\ received \in Seq(Rows)
  /\ at \in 1 .. N + 1
  /\ stage = "segments" => at = 1
  /\ stage # "refused" => Recorded(LetThrough)
  /\ stage \in {"segments", "flags", "forward", "backward"} => received = <<>>
  /\ stage \in {"backward", "passed", "scored", "raised"} => Forward
  /\ stage \in {"passed", "scored", "raised"} => Backward
  /\ stage = "passed" => Handed(at - 1)
  /\ stage = "scored" => Handed(N)
  /\ stage = "raised" => at \in 1 .. N /\ SegsOf(Flags[at]) = {}

\* The flags of a meeting are numbered from 1.
LEMMA FlagsNumbered ==
  ASSUME meeting \in Meetings
  PROVE  N \in Nat /\ DOMAIN Flags = 1 .. N
BY MeetingsAssumption DEF N, Flags

LEMMA InitEstablishes == GInit => IInv
<1> SUFFICES ASSUME GInit PROVE IInv
  OBVIOUS
<1>1. /\ meeting \in Meetings /\ segset = <<>> /\ at = 1 /\ received = <<>>
      /\ stage = "segments"
  BY DEF GInit
<1>2. N \in Nat
  BY <1>1, FlagsNumbered
<1>3. Recorded(0)
  BY <1>1 DEF Recorded
<1>4. LetThrough = 0
  BY <1>1 DEF LetThrough
<1> QED BY <1>1, <1>2, <1>3, <1>4 DEF IInv, Stages

\* The meeting never changes, and with it everything read off it.
LEMMA MeetingFixed ==
  ASSUME meeting' = meeting
  PROVE  /\ Flags' = Flags /\ N' = N /\ Transcript' = Transcript
         /\ \A f : SegsOf(f)' = SegsOf(f)
         /\ \A f : Ungrounded(f)' = Ungrounded(f)
         /\ \A f : Row(f)' = Row(f)
         /\ Rows' = Rows
<1>1. /\ Flags' = Flags /\ N' = N /\ Transcript' = Transcript
      /\ \A f : SegsOf(f)' = SegsOf(f)
      /\ \A f : Ungrounded(f)' = Ungrounded(f)
  BY DEF Flags, N, Transcript, SegsOf, Ungrounded, Quoting
<1>2. \A f : Row(f)' = Row(f)
  BY <1>1 DEF Row
<1> QED BY <1>1, <1>2 DEF Rows

\* A refusal says nothing more about the meeting.
LEMMA RefuseKeeps == IInv /\ Refuse => IInv'
<1> SUFFICES ASSUME IInv, Refuse PROVE IInv'
  OBVIOUS
<1>1. stage' = "refused" /\ UNCHANGED <<meeting, segset, at, received>>
  BY DEF Refuse
<1>2. Flags' = Flags /\ N' = N /\ Rows' = Rows
  BY <1>1, MeetingFixed
<1> QED BY <1>1, <1>2 DEF IInv, Stages

LEMMA CheckSegmentsKeeps == IInv /\ CheckSegments => IInv'
<1> SUFFICES ASSUME IInv, CheckSegments, ~Refuse PROVE IInv'
  BY RefuseKeeps
<1>1. /\ stage = "segments" /\ stage' = "flags"
      /\ UNCHANGED <<meeting, segset, at, received>>
  BY DEF CheckSegments
<1>2. Flags' = Flags /\ N' = N /\ Rows' = Rows
  BY <1>1, MeetingFixed
<1>3. Recorded(0) /\ at = 1 /\ received = <<>>
  BY <1>1 DEF IInv, LetThrough
<1>4. Recorded(0)'
  BY <1>1, <1>3 DEF Recorded
<1>5. LetThrough' = 0
  BY <1>1, <1>3 DEF LetThrough
<1> QED BY <1>1, <1>2, <1>3, <1>4, <1>5 DEF IInv, Stages

LEMMA CheckFlagKeeps == IInv /\ CheckFlag => IInv'
<1> SUFFICES ASSUME IInv, CheckFlag, ~Refuse PROVE IInv'
  BY RefuseKeeps
<1> DEFINE f == Flags[at]
<1>1. /\ stage = "flags" /\ at \in DOMAIN Flags
      /\ WellFormed(f)
      /\ segset' = [id \in DOMAIN segset \cup {f.id} |->
                      IF id = f.id THEN SegsOf(f) ELSE segset[id]]
      /\ at' = at + 1
      /\ UNCHANGED <<meeting, received, stage>>
  BY DEF CheckFlag
<1>2. meeting \in Meetings /\ at \in 1 .. N + 1 /\ received = <<>>
  BY <1>1 DEF IInv
<1>3. N \in Nat /\ at \in 1 .. N
  BY <1>1, <1>2, FlagsNumbered
<1>4. /\ Flags' = Flags /\ N' = N /\ Rows' = Rows
      /\ \A g : SegsOf(g)' = SegsOf(g)
      /\ \A g : Ungrounded(g)' = Ungrounded(g)
  BY <1>1, MeetingFixed
<1>5. Recorded(at - 1)
  BY <1>1 DEF IInv, LetThrough
<1>6. f.id \notin DOMAIN segset /\ Ungrounded(f) = {}
  BY <1>1 DEF WellFormed
<1>7. Recorded(at - 1)'
  <2>1. 1 .. at = (1 .. at - 1) \cup {at}
    BY <1>3
  <2>2. DOMAIN segset' = { Flags[m].id : m \in 1 .. at }
    BY <1>1, <1>5, <2>1 DEF Recorded
  <2>3. \A m \in 1 .. at - 1 : Flags[m].id \in DOMAIN segset /\ Flags[m].id # f.id
    BY <1>5, <1>6 DEF Recorded
  <2>4. \A m \in 1 .. at : segset'[Flags[m].id] = SegsOf(Flags[m])
                             /\ Ungrounded(Flags[m]) = {}
    <3> SUFFICES ASSUME NEW m \in 1 .. at
                 PROVE  /\ segset'[Flags[m].id] = SegsOf(Flags[m])
                        /\ Ungrounded(Flags[m]) = {}
      OBVIOUS
    <3>1. CASE m = at
      BY <3>1, <1>1, <1>6
    <3>2. CASE m \in 1 .. at - 1
      BY <3>2, <1>1, <1>5, <2>3 DEF Recorded
    <3> QED BY <2>1, <3>1, <3>2
  <2>5. \A m, k \in 1 .. at : Flags[m].id = Flags[k].id => m = k
    BY <1>5, <2>1, <2>3 DEF Recorded
  <2>6. at' - 1 = at
    BY <1>1, <1>3
  <2> QED BY <1>4, <2>2, <2>4, <2>5, <2>6 DEF Recorded
<1>8. LetThrough' = (at - 1)'
  BY <1>1 DEF LetThrough
<1>9. Recorded(LetThrough)'
  BY <1>7, <1>8 DEF Recorded
<1>10. at' \in 1 .. N + 1
  BY <1>1, <1>3
<1> QED BY <1>1, <1>2, <1>4, <1>9, <1>10 DEF IInv, Stages

\* The steps that only move on to the next stage, or to the next golden flag.
LEMMA EndFlagsKeeps == IInv /\ EndFlags => IInv'
<1> SUFFICES ASSUME IInv, EndFlags PROVE IInv'
  OBVIOUS
<1>1. /\ stage = "flags" /\ at \notin DOMAIN Flags /\ stage' = "forward"
      /\ UNCHANGED <<meeting, segset, at, received>>
  BY DEF EndFlags
<1>2. meeting \in Meetings /\ at \in 1 .. N + 1 /\ received = <<>>
  BY <1>1 DEF IInv
<1>3. N \in Nat /\ at - 1 = N
  BY <1>1, <1>2, FlagsNumbered
<1>4. /\ Flags' = Flags /\ N' = N /\ Rows' = Rows
      /\ \A g : SegsOf(g)' = SegsOf(g)
      /\ \A g : Ungrounded(g)' = Ungrounded(g)
  BY <1>1, MeetingFixed
<1>5. Recorded(N)
  BY <1>1, <1>3 DEF IInv, LetThrough
<1>6. Recorded(N)'
  BY <1>1, <1>4, <1>5 DEF Recorded
<1>7. LetThrough' = N'
  BY <1>1 DEF LetThrough
<1>8. Recorded(LetThrough)'
  BY <1>6, <1>7 DEF Recorded
<1> QED BY <1>1, <1>2, <1>4, <1>8 DEF IInv, Stages

\* After the flags, what is recorded stays as it is.
LEMMA RecordStays ==
  ASSUME IInv, UNCHANGED <<meeting, segset>>,
         stage \in {"forward", "backward", "passed"},
         stage' \in {"backward", "passed", "scored", "raised"}
  PROVE  Recorded(LetThrough)'
<1>1. LetThrough = N /\ LetThrough' = N'
  BY DEF LetThrough
<1>2. Recorded(N)
  BY <1>1 DEF IInv
<1>3. Recorded(N)'
  BY <1>2, MeetingFixed DEF Recorded
<1> QED BY <1>1, <1>3 DEF Recorded

LEMMA CheckForwardKeeps == IInv /\ CheckForward => IInv'
<1> SUFFICES ASSUME IInv, CheckForward, ~Refuse PROVE IInv'
  BY RefuseKeeps
<1>1. /\ stage = "forward" /\ stage' = "backward" /\ Forward
      /\ UNCHANGED <<meeting, segset, at, received>>
  BY DEF CheckForward, Forward
<1>2. Flags' = Flags /\ N' = N /\ Rows' = Rows /\ Transcript' = Transcript
  BY <1>1, MeetingFixed
<1>3. Forward'
  BY <1>1, <1>2 DEF Forward
<1>4. Recorded(LetThrough)'
  BY <1>1, RecordStays
<1> QED BY <1>1, <1>2, <1>3, <1>4 DEF IInv, Stages

LEMMA CheckBackwardKeeps == IInv /\ CheckBackward => IInv'
<1> SUFFICES ASSUME IInv, CheckBackward, ~Refuse PROVE IInv'
  BY RefuseKeeps
<1>1. /\ stage = "backward" /\ stage' = "passed" /\ at' = 1 /\ Backward
      /\ UNCHANGED <<meeting, segset, received>>
  BY DEF CheckBackward, Backward
<1>2. Flags' = Flags /\ N' = N /\ Rows' = Rows /\ Transcript' = Transcript
  BY <1>1, MeetingFixed
<1>3. meeting \in Meetings /\ received = <<>> /\ Forward
  BY <1>1 DEF IInv
<1>4. Forward' /\ Backward'
  BY <1>1, <1>2, <1>3 DEF Forward, Backward
<1>5. Recorded(LetThrough)'
  BY <1>1, RecordStays
<1>6. N \in Nat
  BY <1>3, FlagsNumbered
<1>7. at' - 1 = 0 /\ at' \in 1 .. N + 1
  BY <1>1, <1>6
<1>8. Handed(at - 1)'
  BY <1>1, <1>3, <1>7 DEF Handed
<1>9. received \in Seq(Rows)
  BY DEF IInv
<1> QED BY <1>1, <1>2, <1>3, <1>4, <1>5, <1>7, <1>8, <1>9 DEF IInv, Stages

LEMMA ScoreGoldKeeps == IInv /\ ScoreGold => IInv'
<1> SUFFICES ASSUME IInv, ScoreGold PROVE IInv'
  OBVIOUS
<1> DEFINE f == Flags[at]
<1>1. /\ stage = "passed" /\ at \in DOMAIN Flags
      /\ UNCHANGED <<meeting, segset>>
      /\ stage' \in {"passed", "raised"}
  BY DEF ScoreGold
<1>2. /\ Flags' = Flags /\ N' = N /\ Rows' = Rows /\ Transcript' = Transcript
      /\ \A g : SegsOf(g)' = SegsOf(g)
      /\ \A g : Row(g)' = Row(g)
  BY <1>1, MeetingFixed
<1>3. /\ meeting \in Meetings /\ Forward /\ Backward
      /\ Handed(at - 1) /\ received \in Seq(Rows)
  BY <1>1 DEF IInv
<1>4. Forward' /\ Backward'
  BY <1>1, <1>2, <1>3 DEF Forward, Backward
<1>5. Recorded(LetThrough)'
  BY <1>1, RecordStays
<1>6. N \in Nat /\ at \in 1 .. N
  BY <1>1, <1>3, FlagsNumbered
<1>7. CASE SegsOf(f) = {}
  <2>1. stage' = "raised" /\ UNCHANGED <<at, received>>
    BY <1>7 DEF ScoreGold
  <2>2. at' \in 1 .. N' /\ at' \in 1 .. N' + 1 /\ SegsOf(Flags[at])' = {}
    BY <2>1, <1>2, <1>6, <1>7
  <2> QED BY <1>1, <1>2, <1>3, <1>4, <1>5, <2>1, <2>2 DEF IInv, Stages
<1>8. CASE SegsOf(f) # {}
  <2>1. /\ received' = Append(received, Row(f))
        /\ at' = at + 1 /\ stage' = "passed"
    BY <1>1, <1>8 DEF ScoreGold, Row
  <2>2. Row(f) \in Rows
    BY <1>6 DEF Rows
  <2>3. received' \in Seq(Rows') /\ at' \in 1 .. N' + 1
    BY <1>2, <1>3, <1>6, <2>1, <2>2
  <2>4. Len(received') = at /\ \A m \in 1 .. at : received'[m] = Row(Flags[m])
    <3>1. Len(received) = at - 1 /\ \A m \in 1 .. at - 1 : received[m] = Row(Flags[m])
      BY <1>3 DEF Handed
    <3>2. Len(received') = at /\ received'[at] = Row(f)
      BY <1>3, <1>6, <2>1, <2>2, <3>1
    <3>3. \A m \in 1 .. at - 1 : received'[m] = received[m]
      BY <1>3, <1>6, <2>1, <2>2, <3>1
    <3> QED BY <1>6, <3>1, <3>2, <3>3
  <2>5. Handed(at - 1)'
    <3>1. at' - 1 = at
      BY <1>6, <2>1
    <3> QED BY <1>2, <2>4, <3>1 DEF Handed
  <2> QED BY <1>1, <1>2, <1>3, <1>4, <1>5, <2>1, <2>3, <2>5 DEF IInv, Stages
<1> QED BY <1>7, <1>8

LEMMA EndGoldsKeeps == IInv /\ EndGolds => IInv'
<1> SUFFICES ASSUME IInv, EndGolds PROVE IInv'
  OBVIOUS
<1>1. /\ stage = "passed" /\ at \notin DOMAIN Flags /\ stage' = "scored"
      /\ UNCHANGED <<meeting, segset, at, received>>
  BY DEF EndGolds
<1>2. /\ meeting \in Meetings /\ Forward /\ Backward /\ Handed(at - 1)
      /\ at \in 1 .. N + 1
  BY <1>1 DEF IInv
<1>3. N \in Nat /\ at - 1 = N
  BY <1>1, <1>2, FlagsNumbered
<1>4. /\ Flags' = Flags /\ N' = N /\ Rows' = Rows /\ Transcript' = Transcript
      /\ \A g : Row(g)' = Row(g)
  BY <1>1, MeetingFixed
<1>5. Forward' /\ Backward'
  BY <1>1, <1>2, <1>4 DEF Forward, Backward
<1>6. Handed(N)'
  BY <1>1, <1>2, <1>3, <1>4 DEF Handed
<1>7. Recorded(LetThrough)'
  BY <1>1, RecordStays
<1> QED BY <1>1, <1>2, <1>4, <1>5, <1>6, <1>7 DEF IInv, Stages

LEMMA Stutters == IInv /\ UNCHANGED gvars => IInv'
<1> SUFFICES ASSUME IInv, UNCHANGED gvars PROVE IInv'
  OBVIOUS
<1>1. UNCHANGED <<meeting, segset, at, received, stage>>
  BY DEF gvars
<1>2. /\ Flags' = Flags /\ N' = N /\ Rows' = Rows /\ Transcript' = Transcript
      /\ \A g : SegsOf(g)' = SegsOf(g)
      /\ \A g : Ungrounded(g)' = Ungrounded(g)
      /\ \A g : Row(g)' = Row(g)
  BY <1>1, MeetingFixed
<1>3. LetThrough' = LetThrough
  BY <1>1, <1>2 DEF LetThrough
<1>4. Recorded(LetThrough)' <=> Recorded(LetThrough)
  BY <1>1, <1>2, <1>3 DEF Recorded
<1>5. /\ Forward' <=> Forward
      /\ Backward' <=> Backward
  BY <1>1, <1>2 DEF Forward, Backward
<1>6. /\ Handed(at - 1)' <=> Handed(at - 1)
      /\ Handed(N)' <=> Handed(N)
  BY <1>1, <1>2 DEF Handed
<1>7. SegsOf(Flags[at])' = SegsOf(Flags[at])
  BY <1>1, <1>2
<1> QED BY <1>1, <1>2, <1>4, <1>5, <1>6, <1>7 DEF IInv

LEMMA IInvHolds == GSpec => []IInv
<1>1. IInv /\ [GNext]_gvars => IInv'
  BY CheckSegmentsKeeps, CheckFlagKeeps, EndFlagsKeeps, CheckForwardKeeps,
     CheckBackwardKeeps, ScoreGoldKeeps, EndGoldsKeeps, Stutters DEF GNext
<1> QED BY <1>1, InitEstablishes, PTL DEF GSpec

-----------------------------------------------------------------------------
(* The properties of the run.                                              *)

\* A meeting that passed validate_golden refers to its flags exactly where
\* their quotes are.
THEOREM ReferencesAgreeAlways == GSpec => []ReferencesAgree
<1>1. ASSUME IInv PROVE ReferencesAgree
  <2> SUFFICES ASSUME Passed, NEW i \in DOMAIN Transcript
               PROVE  Transcript[i].flags =
                        { Flags[n].id : n \in { m \in DOMAIN Flags : i \in SegsOf(Flags[m]) } }
    BY DEF ReferencesAgree
  <2>1. /\ meeting \in Meetings /\ Forward /\ Backward /\ Recorded(N)
    BY <1>1 DEF IInv, Passed, LetThrough
  <2>2. DOMAIN Flags = 1 .. N
    BY <2>1, FlagsNumbered
  <2>3. ASSUME NEW id \in Transcript[i].flags
        PROVE  \E n \in DOMAIN Flags : Flags[n].id = id /\ i \in SegsOf(Flags[n])
    <3>1. id \in DOMAIN segset /\ i \in segset[id]
      BY <2>1 DEF Backward
    <3>2. PICK n \in 1 .. N : id = Flags[n].id
      BY <2>1, <3>1 DEF Recorded
    <3> QED BY <2>1, <2>2, <3>1, <3>2 DEF Recorded
  <2>4. ASSUME NEW n \in DOMAIN Flags, i \in SegsOf(Flags[n])
        PROVE  Flags[n].id \in Transcript[i].flags
    <3>1. Flags[n].id \in DOMAIN segset /\ segset[Flags[n].id] = SegsOf(Flags[n])
      BY <2>1, <2>2 DEF Recorded
    <3> QED BY <2>1, <2>4, <3>1 DEF Forward
  <2> QED BY <2>3, <2>4
<1> QED BY <1>1, IInvHolds, PTL

\* score_detection works on the golden flags validate_golden approved, with
\* the segments it approved, and raises only for a flag whose quotes are all
\* white space.
THEOREM ApprovedGoldsScored == GSpec => []GoldsAsApproved
<1>1. ASSUME IInv PROVE ScoredAsApproved
  <2> SUFFICES ASSUME stage = "scored"
               PROVE  /\ Len(received) = Len(Flags)
                      /\ \A m, n \in DOMAIN received : received[m].id = received[n].id => m = n
                      /\ \A n \in DOMAIN received : received[n].segs = segset[received[n].id]
    BY DEF ScoredAsApproved
  <2>1. Recorded(N) /\ Handed(N) /\ received \in Seq(Rows)
    BY <1>1 DEF IInv, LetThrough
  <2>2. Len(received) = N /\ DOMAIN received = 1 .. N
    BY <2>1 DEF Handed
  <2>3. \A m \in 1 .. N : /\ received[m].id = Flags[m].id
                          /\ received[m].segs = SegsOf(Flags[m])
    BY <2>1 DEF Handed, Row
  <2> QED BY <2>1, <2>2, <2>3 DEF Recorded, N
<1>2. ASSUME IInv PROVE RaisesOnBlankOnly
  <2> SUFFICES ASSUME stage = "raised" PROVE Quoting(Flags[at]) = {}
    BY DEF RaisesOnBlankOnly
  <2>1. Recorded(N) /\ at \in 1 .. N /\ SegsOf(Flags[at]) = {}
    BY <1>2 DEF IInv, LetThrough
  <2>2. Ungrounded(Flags[at]) = {}
    BY <2>1 DEF Recorded
  <2> QED BY <2>1, <2>2 DEF SegsOf, Ungrounded
<1>3. IInv => GoldsAsApproved
  BY <1>1, <1>2 DEF GoldsAsApproved
<1> QED BY <1>3, IInvHolds, PTL
=============================================================================
