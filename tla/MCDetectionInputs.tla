------------------------- MODULE MCDetectionInputs --------------------------
(***************************************************************************)
(* The three things the detection benchmark reads and has to make sense    *)
(* of, in three models that share no variable, each run with the others at *)
(* rest: quotes, golden meetings, and answers of a model.                  *)
(***************************************************************************)
EXTENDS FlagResolution, GoldenGate, ResponseParser

CONSTANTS ga, na, da, dots, Ann, Bob, f1, f2

-----------------------------------------------------------------------------
(* Quotes: four segments cut out of "ga na da" and silence, of one or two  *)
(* speakers, one perhaps without label or start; quotes that fit one,      *)
(* several, a boundary, or nothing; no, one or two statements.             *)

Texts == {<<>>, <<ga>>, <<ga, na>>, <<da>>}

Quotes == {<<>>, <<ga, na>>, <<na, da>>, <<ga, na, da>>, <<da, ga>>, <<dots>>}

Voices == {<<Ann, Ann, Ann, Ann>>, <<Ann, Ann, Bob, Bob>>, <<Ann, Ann, Bob, Ann>>,
           <<Bob, Ann, Ann, Ann>>, <<Ann, NoSpeaker, NoSpeaker, Ann>>}

Said(text, speaker, start) == [text |-> text, speaker |-> speaker, start |-> start]

MCTranscripts ==
  { [i \in 1 .. 4 |-> Said(t[i], v[i], IF i = u THEN NoTime ELSE i)] :
      t \in [1 .. 4 -> Texts], v \in Voices, u \in {0, 1} }

Hinted == [quote : Quotes, speaker : {NoSpeaker, Ann}, time : {NoTime, 2, 3}]

Blank == [quote |-> <<>>, speaker |-> Ann, time |-> NoTime]
Dots == [quote |-> <<dots>>, speaker |-> Ann, time |-> 2]

MCQuotations == { <<st>> : st \in Hinted } \cup {<<>>, <<Blank, Dots>>}

-----------------------------------------------------------------------------
(* Golden meetings: three segments, the words of two of them possibly      *)
(* equal, with back references to any of two flags; two flags of one or    *)
(* two statements that quote a segment, part of one, nothing, white space  *)
(* or what nobody said.                                                    *)

Seg(id, text, speaker, flags) ==
  [id |-> id, text |-> text, speaker |-> speaker, start |-> id, flags |-> flags]

Labelled ==
  { <<Seg(1, <<ga>>, Ann, x), Seg(j, t, Bob, y), Seg(3, <<na, ga>>, Ann, z)>> :
      x, y, z \in SUBSET {f1, f2}, t \in {<<ga>>, <<na>>}, j \in {2, 3} }

Says(quote, speaker) == [quote |-> quote, speaker |-> speaker, time |-> NoTime]

Evidence ==
  { <<Says(<<ga>>, Ann)>>, <<Says(<<ga>>, Bob)>>, <<Says(<<na>>, Ann)>>, <<Says(<<>>, Ann)>>,
    <<>>, <<Says(<<na, ga>>, Ann), Says(<<ga>>, Bob)>>, <<Says(<<na>>, Bob), Says(<<>>, Bob)>> }

MoreEvidence == Evidence \cup
  { <<Says(<<da>>, Ann)>>, <<Says(NoQuote, Ann)>>, <<Says(<<ga>>, NoSpeaker)>> }

MCMeetings ==
  [transcript : Labelled,
   flags : { <<[id |-> f1, statements |-> s]>> : s \in Evidence }
           \cup { <<[id |-> f1, statements |-> s], [id |-> g, statements |-> u]>> :
                    s \in Evidence, g \in {f1, f2}, u \in MoreEvidence }]

-----------------------------------------------------------------------------
(* Answers: every response of up to three pieces, each with up to two      *)
(* elements; three pieces are kept to fewer forms.                         *)

Elems == UNION { [1 .. n -> {"flag", "object", "scalar"}] : n \in 0 .. 2 }

FewElems == {<<>>, <<"flag">>, <<"flag", "flag">>, <<"object">>}

Piece(form, cut, elems) == [form |-> form, cut |-> cut, elems |-> elems]

PiecesOf(E) ==
  { Piece("wrapped", c, e) : c \in {"no", "inside", "outer"}, e \in E }
  \cup { Piece("list", c, e) : c \in {"no", "inside"}, e \in E }
  \cup { Piece("single", "no", <<>>), Piece("other", "no", <<>>) }

MCResponses ==
  { <<p>> : p \in PiecesOf(Elems) }
  \cup { <<p, q>> : p, q \in PiecesOf(Elems) }
  \cup { <<p, q, r>> : p, q, r \in PiecesOf(FewElems) }

-----------------------------------------------------------------------------
QuotesAtRest == /\ transcript = <<>> /\ flag = <<>> /\ span = FALSE
                /\ segs = {} /\ ungrounded = <<>> /\ next = 1

GateAtRest == /\ meeting = [transcript |-> <<>>, flags |-> <<>>]
              /\ segset = <<>> /\ at = 1 /\ received = <<>> /\ stage = "segments"

ParserAtRest == /\ response = <<>> /\ opening = 1
                /\ best = None /\ fallback = None /\ outcome = "scanning"

MCInit == \/ QInit /\ GateAtRest /\ ParserAtRest
          \/ GInit /\ QuotesAtRest /\ ParserAtRest
          \/ RInit /\ QuotesAtRest /\ GateAtRest

MCNext == \/ QNext /\ GateAtRest /\ ParserAtRest /\ UNCHANGED <<gvars, rvars>>
          \/ GNext /\ QuotesAtRest /\ ParserAtRest /\ UNCHANGED <<qvars, rvars>>
          \/ RNext /\ QuotesAtRest /\ GateAtRest /\ UNCHANGED <<qvars, gvars>>

MCSpec == MCInit /\ [][MCNext]_<<qvars, gvars, rvars>>
=============================================================================
