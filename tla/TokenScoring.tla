---------------------------- MODULE TokenScoring ----------------------------
(***************************************************************************)
(* The speech-to-text bench from a script to its scores: synth.build_golden*)
(* takes the marked tokens out of the turns of a script and derives their  *)
(* values, golden.validate_golden checks what was built,                   *)
(* report.score_meeting joins it with a transcript, and score._classify    *)
(* judges what the transcript has in the place of every token.             *)
(*                                                                         *)
(* A turn is a sequence of parts, plain text and tokens, which is what the *)
(* markup says; the transcript of a turn is a text.  Scripts are normalised*)
(* with their markup in place and transcripts when they are scored, so each*)
(* part of a turn and what was heard of it are in NFC, and the clean text  *)
(* of the turn need not be.  means is what a token and the words heard for *)
(* it mean, <<low, high, unit>>: no action reads it, the properties hold   *)
(* the scores against it.                                                  *)
(***************************************************************************)
EXTENDS Alignment, KoreanDatetime, Normalization

LOCAL INSTANCE SequencesExt

CONSTANT Meetings   \* what is benchmarked: records [script, heard, sameClip]

Text(parts) == FlattenSeq([n \in DOMAIN parts |-> parts[n].surface])

\* Scripts are lists of turns and turns lists of parts, as a script file has them:
\* plain text is one part up to the next token. What is heard of a turn is a text.
ASSUME MeetingsAssumption ==
  \A m \in Meetings :
    /\ m.script \in Seq(Range(m.script))
    /\ \A turn \in Range(m.script) :
         /\ turn.parts \in Seq(Range(turn.parts))
         /\ \A part \in Range(turn.parts) :
              /\ part.surface \in Seq(Char) /\ Nfc(part.surface) = part.surface
              /\ part.manual \in BOOLEAN
         /\ \A n \in DOMAIN turn.parts :
              n > 1 => "text" # turn.parts[n].type \/ "text" # turn.parts[n - 1].type
    /\ \A id \in DOMAIN m.heard :
         /\ m.heard[id] \in Seq(Range(m.heard[id]))
         /\ \A part \in Range(m.heard[id]) : part.surface \in Seq(Char)
         /\ Nfc(Text(m.heard[id])) = Text(m.heard[id])

VARIABLES
  meeting,   \* script: turns [id, parts]; heard: turn id -> parts heard, for
             \* the turns the transcript has
  golden,    \* the built turns [id, text, tokens]
  scores,    \* [at, outcome, span] for the tokens judged so far
  at,        \* <<turn, token>> judged next
  phase      \* "building", "checking", "joining", "scoring", "done", "error"

vars == <<meeting, golden, scores, at, phase>>

Numeric == {"AMOUNT", "NUMBER", "PERCENT", "UNIT_QUANTITY"}

CurrencyOf(unit) == IF unit \in DOMAIN Currency THEN Currency[unit] ELSE "none"

Underivable == [kind |-> "error"]

Said(type, text) ==
  CASE type = "DATE" -> ParseDate(text) [] type = "TIME" -> ParseTime(text) [] OTHER -> {}

\* _derive_canonical, of what the parsers find.  "none" for a unit not given.
CanonicalOf(type, surface, r, said) ==
  CASE said # {} -> [kind |-> type, said |-> said]
    [] type = "RANGE" /\ r.kind = "range" -> [kind |-> type, low |-> r.low, high |-> r.high]
    [] type = "AMOUNT" /\ r.kind = "value" ->
         [kind |-> type, value |-> r.value, unit |-> CurrencyOf(r.unit)]
    [] type = "UNIT_QUANTITY" /\ r.kind = "value" ->
         [kind |-> type, value |-> r.value, unit |-> r.unit]
    [] type \in {"NUMBER", "PERCENT"} /\ r.kind = "value" ->
         [kind |-> type, value |-> r.value]
    [] type = "PROPER_NOUN" -> [kind |-> type, name |-> surface]
    [] OTHER -> Underivable

Canonical(type, surface) ==
  CanonicalOf(type, surface, ParseNumber[surface], Said(type, surface))

-----------------------------------------------------------------------------
(* _classify.                                                              *)

Plausible(type, unit) ==
  CASE type = "AMOUNT"  -> UnitCategory(unit) \in {"none", "currency"}
    [] type = "PERCENT" -> UnitCategory(unit) \in {"none", "percent"}
    [] type = "NUMBER"  -> UnitCategory(unit) \in {"none", "count", "currency", "percent"}
    [] OTHER -> TRUE

\* Values more than a hundred times apart are not one number misheard.
FarApart(q, r) ==
  /\ q.num # 0 /\ r.num # 0
  /\ \/ 100 * q.num * r.den < r.num * q.den
     \/ q.num * r.den > 100 * r.num * q.den

Runs(s) ==
  { I \in { a .. b : a, b \in DOMAIN s } :
      /\ I # {} /\ \A n \in I : s[n] \in NumCore
      /\ \A n \in DOMAIN s : s[n] \in NumCore => n \in I \/ (n + 1 \notin I /\ n - 1 \notin I) }

RunText(s, I) == SubSeq(s, Least(I), Greatest(I))

Expected(token) == IF token.canon.kind = "RANGE" THEN token.canon.low ELSE token.canon.value

CanBe(token, r) ==
  \/ r.kind = "range"
  \/ /\ r.kind = "value" /\ Plausible(token.type, r.unit)
     /\ ~FarApart(r.value, Expected(token))

\* The first of the longest.
LongestOf(S) ==
  LET longest == { I \in S : \A J \in S : Cardinality(J) <= Cardinality(I) }
  IN CHOOSE I \in longest : \A J \in longest : Least(I) <= Least(J)

\* The longest run of number characters that can be the token's number.
Salvage(token, readings) ==
  LET able == { I \in DOMAIN readings : CanBe(token, readings[I]) }
  IN IF able = {} THEN Nothing(<<>>) ELSE readings[LongestOf(able)]

Readings(span) == [I \in Runs(span) |-> ParseNumber[RunText(span, I)]]

Unusable(token, r) ==
  \/ r.kind = "none"
  \/ token.type # "RANGE" /\ r.kind = "value" /\ ~Plausible(token.type, r.unit)

OrSalvaged(token, r, found) == IF Unusable(token, r) /\ found.kind # "none" THEN found ELSE r

ReadNumber(token, span) ==
  OrSalvaged(token, ParseNumber[span], Salvage(token, Readings(span)))

SameUnit(token, unit) ==
  CASE token.type = "UNIT_QUANTITY" -> token.canon.unit \in {<<>>, unit}
    [] token.type = "AMOUNT" ->
         "none" \in {token.canon.unit, CurrencyOf(unit)} \/ token.canon.unit = CurrencyOf(unit)
    [] OTHER -> TRUE

Judge(ok) == IF ok THEN "hit" ELSE "value_mismatch"

JudgeNumeric(token, r) ==
  CASE r.kind = "range" -> "ambiguous"
    [] r.kind = "value" /\ Plausible(token.type, r.unit) ->
         Judge(Same(r.value, token.canon.value) /\ SameUnit(token, r.unit))
    [] OTHER -> "deleted"

JudgeRange(token, r) ==
  CASE r.kind = "none"  -> "deleted"
    [] r.kind = "value" -> "ambiguous"
    [] r.kind = "range" -> Judge(Same(r.low, token.canon.low) /\ Same(r.high, token.canon.high))

JudgeDate(token, said) ==
  IF said = {} THEN "deleted" ELSE Judge(said = token.canon.said)

Particles == {<<"e", "seo">>, <<"e">>, <<"ga">>, <<"i">>}

StripParticles[w \in Seq(Char)] ==
  LET behind == { p \in Particles : IsSuffix(p, w) /\ Len(w) > Len(p) }
      p == CHOOSE q \in behind : \A o \in behind : Len(o) <= Len(q)
  IN IF behind = {} THEN w ELSE StripParticles[SubSeq(w, 1, Len(w) - Len(p))]

JudgeName(token, span) == Judge(token.canon.name \in {span, StripParticles[span]})

ClassifyRead(token, span, r) ==
  CASE token.type \in Numeric -> JudgeNumeric(token, r)
    [] token.type = "RANGE" -> JudgeRange(token, r)
    [] token.type \in {"DATE", "TIME"} -> JudgeDate(token, Said(token.type, span))
    [] token.type = "PROPER_NOUN" -> JudgeName(token, span)

ClassifySpan(token, span) ==
  CASE token.manual -> "ambiguous"
    [] ~token.manual /\ span = <<>> -> "deleted"
    [] OTHER -> ClassifyRead(token, span, ReadNumber(token, span))

Classify(token, raw) == ClassifySpan(token, Strip(raw))

-----------------------------------------------------------------------------
(* The run of the bench.                                                   *)

\* The places of the tokens among the parts, in order.
TokenParts(parts) ==
  LET marked == { n \in DOMAIN parts : parts[n].type # "text" }
  IN [k \in 1 .. Cardinality(marked) |-> Nth(marked, k)]

\* The length of the clean text before part n.
Offset(parts, n) == Len(Text(SubSeq(parts, 1, n - 1)))

Token(parts, n) ==
  [type    |-> parts[n].type,
   manual  |-> parts[n].manual,
   surface |-> parts[n].surface,
   first   |-> Offset(parts, n) + 1,
   last    |-> Offset(parts, n) + Len(parts[n].surface),
   canon   |-> IF parts[n].manual THEN [kind |-> "PROPER_NOUN", name |-> parts[n].surface]
               ELSE Canonical(parts[n].type, parts[n].surface),
   part    |-> n]

BuiltTurn(turn) ==
  LET ns == TokenParts(turn.parts)
  IN [id |-> turn.id, text |-> Text(turn.parts),
      tokens |-> [k \in DOMAIN ns |-> Token(turn.parts, ns[k])]]

Built == [n \in DOMAIN meeting.script |-> BuiltTurn(meeting.script[n])]

Buildable ==
  \A n \in DOMAIN meeting.script : \A part \in Range(meeting.script[n].parts) :
    part.type # "text" /\ ~part.manual => Canonical(part.type, part.surface) # Underivable

Fail == phase' = "error" /\ UNCHANGED <<meeting, golden, scores, at>>

BuildFails == phase = "building" /\ ~Buildable /\ Fail

Build ==
  /\ phase = "building" /\ Buildable
  /\ golden' = Built /\ phase' = "checking"
  /\ UNCHANGED <<meeting, scores, at>>

RepeatedIds == \E n, m \in DOMAIN golden : n # m /\ golden[n].id = golden[m].id

\* _check_canonical, of the value derived again.
Agrees(token, c) ==
  CASE token.manual -> TRUE
    [] ~token.manual /\ token.type \in Numeric ->
         /\ c # Underivable /\ Same(c.value, token.canon.value)
         /\ SameUnit(token, ParseNumber[token.surface].unit)
    [] OTHER -> token.type # "PROPER_NOUN" => c = token.canon

Consistent(token) == Agrees(token, Canonical(token.type, token.surface))

InPlace(token, text) == SubSeq(text, token.first, token.last) = token.surface

\* Mutant: the text is not checked for NFC.
AcceptedUnnormalized ==
  /\ ~RepeatedIds
  /\ \A n \in DOMAIN golden : \A token \in Range(golden[n].tokens) :
       InPlace(token, golden[n].text) /\ Consistent(token)

Accepted ==
  /\ ~RepeatedIds
  /\ \A n \in DOMAIN golden :
       /\ Nfc(golden[n].text) = golden[n].text
       /\ \A token \in Range(golden[n].tokens) :
            InPlace(token, golden[n].text) /\ Consistent(token)

GateRefuses == phase = "checking" /\ ~Accepted /\ Fail

GatePasses ==
  /\ phase = "checking" /\ Accepted
  /\ phase' = "joining" /\ UNCHANGED <<meeting, golden, scores, at>>

Ids == { golden[n].id : n \in DOMAIN golden }

\* A transcript of another clip, or one that has turns but none of these.
Joins ==
  meeting.sameClip /\ (DOMAIN meeting.heard = {} \/ DOMAIN meeting.heard \cap Ids # {})

JoinFails == phase = "joining" /\ ~Joins /\ Fail

Join ==
  /\ phase = "joining" /\ Joins
  /\ phase' = "scoring" /\ UNCHANGED <<meeting, golden, scores, at>>

\* A turn the transcript does not have is scored against the empty text.
Heard(id) == IF id \in DOMAIN meeting.heard THEN Text(meeting.heard[id]) ELSE <<>>

Scoring == phase = "scoring" /\ at[1] \in DOMAIN golden

Judged(token, span) == [at |-> at, span |-> span, outcome |-> Classify(token, span)]

SpanOf(token, text, hyp) == ProjectSpan(AlignOps(text, hyp), hyp, token.first, token.last)

Scored(turn, token) == Judged(token, SpanOf(token, turn.text, Heard(turn.id)))

ScoreToken ==
  /\ Scoring /\ at[2] \in DOMAIN golden[at[1]].tokens
  /\ scores' = Append(scores, Scored(golden[at[1]], golden[at[1]].tokens[at[2]]))
  /\ at' = <<at[1], at[2] + 1>>
  /\ UNCHANGED <<meeting, golden, phase>>

\* Mutant: turns the transcript does not have are passed over.
NextTurnHeard ==
  /\ Scoring
  /\ at[2] \notin DOMAIN golden[at[1]].tokens \/ golden[at[1]].id \notin DOMAIN meeting.heard
  /\ at' = <<at[1] + 1, 1>>
  /\ UNCHANGED <<meeting, golden, scores, phase>>

NextTurn ==
  /\ Scoring /\ at[2] \notin DOMAIN golden[at[1]].tokens
  /\ at' = <<at[1] + 1, 1>>
  /\ UNCHANGED <<meeting, golden, scores, phase>>

Report ==
  /\ phase = "scoring" /\ at[1] \notin DOMAIN golden
  /\ phase' = "done" /\ UNCHANGED <<meeting, golden, scores, at>>

Init == /\ meeting \in Meetings
        /\ golden = <<>> /\ scores = <<>> /\ at = <<1, 1>> /\ phase = "building"

Next == \/ BuildFails \/ Build \/ GateRefuses \/ GatePasses \/ JoinFails \/ Join
        \/ ScoreToken \/ NextTurn \/ Report

Spec == Init /\ [][Next]_vars

-----------------------------------------------------------------------------
(* Properties.                                                             *)

\* The gate refuses what was built for two reasons only, and always then: two
\* turns have one id, or taking out the brackets between them joins a consonant
\* to the syllable in front of it. Every value derived again agrees, and every
\* token is found where it was put.
RefusedForIdsOrSeams ==
  phase = "checking" =>
    (~Accepted <=>
       \/ RepeatedIds
       \/ \E n \in DOMAIN golden : \E k \in DOMAIN meeting.script[n].parts :
            Closes(golden[n].text, Offset(meeting.script[n].parts, k) + 1))

Turn(score) == meeting.script[score.at[1]]
TokenOf(score) == golden[score.at[1]].tokens[score.at[2]]
Covered(score) == Turn(score).id \in DOMAIN meeting.heard
PartsHeard(score) == meeting.heard[Turn(score).id]

Meant(score) == Turn(score).parts[TokenOf(score).part].means
MeantBack(score) == PartsHeard(score)[TokenOf(score).part].means

\* Where nothing next to a token was lost, it is a hit exactly if the words
\* heard for it mean what it means: a value changed by a digit before or after
\* it, or in another unit, or lost with its turn, never passes for the right
\* one, and the same value is a hit in whatever form a parser can read.
HitMeansSaid ==
  \A n \in DOMAIN scores :
    LET same == Covered(scores[n]) /\ MeantBack(scores[n]) = Meant(scores[n])
    IN /\ scores[n].outcome = "hit" => same
       /\ same /\ ~TokenOf(scores[n]).manual => scores[n].outcome = "hit"

\* "Outside the units of its type a number is an unrelated one: deleted": a token
\* heard with a unit its type cannot have is no hit and no mismatch.
WrongUnitIsDeleted ==
  \A n \in DOMAIN scores :
    Covered(scores[n]) /\ ~Plausible(TokenOf(scores[n]).type, MeantBack(scores[n])[3])
    => scores[n].outcome = "deleted"

Tokens == UNION { {n} \X DOMAIN golden[n].tokens : n \in DOMAIN golden }

\* A report judges every token once, and all tokens of a turn that was not heard
\* are lost, or for review where no parser can read them.
UnheardIsLost ==
  phase = "done" =>
    /\ Len(scores) = Cardinality(Tokens) /\ { scores[n].at : n \in DOMAIN scores } = Tokens
    /\ \A n \in DOMAIN scores :
         ~Covered(scores[n]) =>
           scores[n].outcome = IF TokenOf(scores[n]).manual THEN "ambiguous" ELSE "deleted"
=============================================================================
