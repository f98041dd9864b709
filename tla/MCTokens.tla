------------------------------ MODULE MCTokens ------------------------------
(***************************************************************************)
(* Ways to say values, and scripts of one turn with one token between      *)
(* words, for every way to say a value and every way to hear it.           *)
(***************************************************************************)
EXTENDS TokenScoring

\* means: <<low, high, unit>>; a single number is its own range.
Ways(low, high, what, surfaces) ==
  { [means |-> <<low, high, what>>, surface |-> s] : s \in surfaces }

Drowned == [means |-> <<0, 0, <<>>>>, surface |-> <<>>]

Number(n, surfaces) == Ways(n, n, <<>>, surfaces)

Small ==
  UNION { Number(2, {<<"2">>, <<"i">>, <<"du">>}),
          Number(3, {<<"3">>, <<"sam">>, <<"se">>}),
          Number(13, {<<"1", "3">>, <<"sip", "sam">>, <<"yeol", "se">>}),
          Number(23, {<<"2", "3">>, <<"i", "sip", "sam">>}),
          Number(30, {<<"3", "0">>, <<"sam", "sip">>, <<"3", "sip">>}) }

Large ==
  UNION { Number(2000, {<<"2", "cheon">>, <<"i", "cheon">>}),
          Number(3000, {<<"3", "0", "0", "0">>, <<"3", ",", "0", "0", "0">>,
                        <<"3", "cheon">>, <<"sam", "cheon">>}),
          Number(3500, {<<"3", ".", "5", "cheon">>, <<"sam", "cheon", "o", "baek">>}) }

Between ==
  Ways(2000, 3000, <<>>, {<<"i", "sam", "cheon">>, <<"2", "~", "3", "cheon">>,
                              <<"i", "cheon", "e", "seo", "sam", "cheon">>})

Days ==
  UNION { Ways(3, 2, <<"day">>, {<<"3", "wol", "2", "il">>, <<"sam", "wol", "i", "il">>,
                             <<"sam", "wol", "_", "i", "il">>}),
          Ways(3, 21, <<"day">>, {<<"3", "wol", "2", "1", "il">>,
                              <<"sam", "wol", "i", "sip", "il", "il">>}),
          Ways(6, 2, <<"day">>, {<<"yu", "wol", "i", "il">>}) }

Hours ==
  UNION { Ways(2, 30, <<"hour">>, {<<"du", "si", "ban">>, <<"2", "si", "3", "0", "bun">>}),
          Ways(2, 0, <<"hour">>, {<<"du", "si">>, <<"2", "si">>}),
          Ways(3, 0, <<"hour">>, {<<"se", "si">>}) }

Names == Ways(1, 1, <<"name">>, {<<"gae", "x">>}) \cup Ways(2, 2, <<"name">>, {<<"gae", "ga">>})

Of(unit, S) ==
  { [means |-> <<x.means[1], x.means[2], <<unit>>>>, surface |-> Append(x.surface, unit)] : x \in S }

Plain(s) == [type |-> "text", manual |-> FALSE, means |-> Drowned.means, surface |-> s]
Tok(type, x) == [type |-> type, manual |-> FALSE, means |-> x.means, surface |-> x.surface]
ByHand(x) == [Tok("NUMBER", x) EXCEPT !.manual = TRUE]

\* What stands before and after the token, as written and as heard.
Around ==
  { [b |-> <<>>, a |-> <<>>, hb |-> <<>>, ha |-> <<>>],
    [b |-> <<"x", "_">>, a |-> <<"e", "seo">>, hb |-> <<"x", "_">>, ha |-> <<"e", "seo">>],
    [b |-> <<"ga", "_", "i", "_">>, a |-> <<"i">>, hb |-> <<"ga", "_", "i", "_">>, ha |-> <<"i">>],
    [b |-> <<"x", "_">>, a |-> <<"_", "x">>, hb |-> <<"ga", "_">>, ha |-> <<"_", "ga">>] }

Singles(type, S, H) ==
  { [script |-> <<[id |-> 1, parts |-> <<Plain(w.b), Tok(type, x), Plain(w.a)>>]>>,
     heard |-> 1 :> <<Plain(w.hb), y, Plain(w.ha)>>, sameClip |-> TRUE] :
       w \in Around, x \in S, y \in H \cup {Drowned} }
=============================================================================
