--------------------------- MODULE FlagResolution ---------------------------
(***************************************************************************)
(* grounding.resolve_flag_segments: the statements of one flag are         *)
(* grounded one after the other, golden flags in single segments           *)
(* (span = FALSE), predicted ones in windows too (span = TRUE).  The       *)
(* properties are about what Grounding answers for each statement.         *)
(***************************************************************************)
EXTENDS Grounding

CONSTANTS
  Transcripts,
  Quotations     \* the statements a flag may have, in sequence

ASSUME TranscriptsAssumption ==
  \A tr \in Transcripts :
    /\ Len(tr) \in Nat /\ DOMAIN tr = 1 .. Len(tr)
    /\ \A i \in DOMAIN tr :
         /\ tr[i] = [text |-> tr[i].text, speaker |-> tr[i].speaker, start |-> tr[i].start]
         /\ tr[i].start \in Int \cup {NoTime}

ASSUME QuotationsAssumption ==
  \A f \in Quotations : \A n \in DOMAIN f : f[n].time \in Int \cup {NoTime}

VARIABLES
  transcript,
  flag,          \* the flag's statements
  span,
  segs,          \* segments grounded so far
  ungrounded,    \* quotes not found in the transcript
  next           \* the statement the loop is at

qvars == <<transcript, flag, span, segs, ungrounded, next>>

Grounded(st) == IF span THEN GroundQuoteSpan(st, transcript)
                        ELSE GroundQuote(st, transcript)

SkipBlank ==
  /\ next \in DOMAIN flag /\ flag[next].quote = <<>>
  /\ next' = next + 1
  /\ UNCHANGED <<transcript, flag, span, segs, ungrounded>>

Ground ==
  /\ next \in DOMAIN flag /\ flag[next].quote # <<>>
  /\ LET got == Grounded(flag[next])
     IN /\ segs' = segs \cup got
        /\ ungrounded' = IF got = {} THEN Append(ungrounded, flag[next].quote)
                         ELSE ungrounded
  /\ next' = next + 1
  /\ UNCHANGED <<transcript, flag, span>>

QInit ==
  /\ transcript \in Transcripts
  /\ flag \in Quotations
  /\ span \in BOOLEAN
  /\ segs = {} /\ ungrounded = <<>> /\ next = 1

QNext == SkipBlank \/ Ground

QSpec == QInit /\ [][QNext]_qvars

-----------------------------------------------------------------------------
(* Properties.                                                             *)

NoHints(st) == [st EXCEPT !.speaker = NoSpeaker, !.time = NoTime]

\* The speaker and time of a prediction are not trusted: a hint may choose
\* among places, but never loses a quote that is found without hints, and a
\* window found without hints stays.
HintsOnlyChoose ==
  \A n \in DOMAIN flag :
    LET free == Grounded(NoHints(flag[n]))
    IN /\ free # {} => Grounded(flag[n]) # {}
       /\ Cardinality(free) > 1 => Grounded(flag[n]) = free

\* A segment quoted word for word, with its own speaker and start, is found
\* itself and not another utterance of the same words.
VerbatimFindsItself ==
  \A n \in DOMAIN flag : \A k \in DOMAIN transcript :
    LET st == flag[n]  seg == transcript[k]
    IN /\ st.quote = seg.text /\ Tokens(st.quote) # {}
       /\ st.speaker = seg.speaker /\ st.speaker # NoSpeaker
       /\ st.time = seg.start /\ st.time # NoTime
       /\ \A j \in DOMAIN transcript \ {k} : transcript[j] # seg
       => Grounded(st) = {k}

\* A window holds no segment the quote does without: it is a run of at most
\* MaxSpan segments of one named speaker, and without its first or its last
\* segment the quote is gone.
NoBystander ==
  \A n \in DOMAIN flag :
    LET got == Grounded(flag[n])
        words(I) == Joined(I, transcript)
    IN Cardinality(got) > 1 =>
         /\ got \in Runs(transcript)
         /\ \E s \in { transcript[i].speaker : i \in got } :
              s # NoSpeaker /\ \A i \in got : transcript[i].speaker = s
         /\ Within(flag[n].quote, words(got))
         /\ ~Within(flag[n].quote, words(got \ {First(got)}))
         /\ ~Within(flag[n].quote,
                    words(got \ {First(got) + Cardinality(got) - 1}))

\* A quote that runs over W and nowhere fits one segment, hinted with W's
\* speaker and the start of a segment of W, is grounded in W or not at all.
OwnWindowOrNothing ==
  \A n \in DOMAIN flag : \A W \in Smallest(SameSpeakerWindows(flag[n].quote, transcript)) :
    LET st == flag[n]
    IN /\ span /\ SingleCandidates(st.quote, transcript).at = {}
       /\ st.speaker = transcript[First(W)].speaker
       /\ st.time # NoTime /\ \E i \in W : transcript[i].start = st.time
       => Grounded(st) \in {W, {}}

\* ground_quote_span's docstring: a fuzzy single segment is widened only to a
\* window that holds that segment, so that no unrelated window snatches it.
\* Then a quote with the speaker and start of the segment it is grounded in
\* as a golden flag is grounded there as a prediction too, and the two match.
SingleStaysIn ==
  \A n \in DOMAIN flag :
    LET st == flag[n]
    IN \A i \in GroundQuote(st, transcript) :
         /\ st.speaker = transcript[i].speaker /\ st.time = transcript[i].start
         => i \in GroundQuoteSpan(st, transcript)
=============================================================================
