--------------------------- MODULE MCTokenScoring ---------------------------
(***************************************************************************)
(* Two models that share no variable, each run with the other at rest:     *)
(* markup becoming a golden clip, and golden clips being scored.           *)
(* Scoring: scripts of one turn with one token between words, for every    *)
(* way to say a value and every way to hear it, the words around it heard  *)
(* right or wrong up to what stands next to the token; and scripts of two  *)
(* turns with two tokens each, which are heard, are not heard, or stand    *)
(* beside a turn nobody wrote; and names next to words that begin or end   *)
(* with what NFC joins.                                                    *)
(***************************************************************************)
EXTENDS MCTokens, MCGoldenMarkup

First == Of("won", Number(3000, {<<"3", "cheon">>, <<"sam", "cheon">>})
                   \cup Number(2000, {<<"i", "cheon">>}))
Second == Of("gae", Number(3, {<<"3">>, <<"se">>}) \cup Number(2, {<<"2">>}))

Gap == Plain(<<"_", "x", "_">>)
TurnOf(id, x, y) == [id |-> id, parts |-> <<Tok("AMOUNT", x), Gap, y>>]
HeardAs(x, y) == <<x, Gap, y>>

OneHeard(S) == { [n \in {id} |-> s] : id \in {2, 3}, s \in S }

TwoTurns ==
  LET xs == First \cup {Drowned}
      ys == Second \cup {Drowned}
      asHeard == { HeardAs(x, y) : x \in xs, y \in ys }
      one == CHOOSE x \in First : x.surface[1] = "3"
  IN { [script |-> <<TurnOf(1, one, y1), TurnOf(id2, x, y2)>>, heard |-> h, sameClip |-> c] :
         id2 \in {1, 2}, x \in First,
         y1 \in { Tok("UNIT_QUANTITY", y) : y \in Second },
         y2 \in { ByHand(y) : y \in Second } \cup { Tok("DATE", y) : y \in Second },
         h \in {<<>>} \cup { <<s>> : s \in asHeard } \cup OneHeard(asHeard), c \in BOOLEAN }

\* Names and the words around them, which join across one bracket, two or none,
\* heard as they were written.
AsHeard(said) == IF Nfc(Text(said)) = Text(said) THEN said ELSE <<Plain(Nfc(Text(said)))>>

Joining ==
  LET named == Ways(1, 1, <<"name">>, {<<"gae", "ha">>, <<"n", "ga">>, <<"ha">>})
  IN { [script |-> <<[id |-> 1, parts |-> <<Plain(b), Tok("PROPER_NOUN", x), Plain(a)>>]>>,
        heard |-> 1 :> AsHeard(<<Plain(b), x, Plain(a)>>), sameClip |-> TRUE] :
          x \in named, b \in {<<"x">>, <<"ha">>}, a \in {<<"_">>, <<"n", "_">>} }

MCMeetings ==
       TwoTurns \cup Joining
  \cup Singles("NUMBER", Small \cup Large, Small \cup Large \cup Between)
  \cup Singles("AMOUNT", Of("won", Large), Of("won", Large \cup Between) \cup Of("bul", Large))
  \cup Singles("UNIT_QUANTITY", Of("gae", Small), Of("gae", Small) \cup Of("won", Small))
  \cup Singles("PERCENT", Of("%", Small), Of("%", Small))
  \cup Singles("RANGE", Between, Between \cup Large)
  \cup Singles("DATE", Days, Days)
  \cup Singles("TIME", Hours, Hours)
  \cup Singles("PROPER_NOUN", Names, Names)

-----------------------------------------------------------------------------
MarkupAtRest == /\ raw = <<>> /\ idx = 0 /\ clean = <<>> /\ spans = <<>>
                /\ edited = FALSE /\ clip = "stripping"

ScoringAtRest == /\ meeting = [script |-> <<>>, heard |-> <<>>, sameClip |-> TRUE]
                 /\ golden = <<>> /\ scores = <<>> /\ at = <<1, 1>> /\ phase = "building"

MCInit == \/ Init /\ MarkupAtRest
          \/ MInit /\ ScoringAtRest

MCNext == \/ Next /\ MarkupAtRest /\ UNCHANGED mvars
          \/ MNext /\ ScoringAtRest /\ UNCHANGED vars

MCSpec == MCInit /\ [][MCNext]_<<vars, mvars>>
=============================================================================
