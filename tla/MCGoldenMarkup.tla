--------------------------- MODULE MCGoldenMarkup ---------------------------
(***************************************************************************)
(* Turns of up to four chunks of markup, whole and broken tokens among     *)
(* them.                                                                   *)
(***************************************************************************)
EXTENDS GoldenMarkup

Chunks ==
  { <<>>, <<"[[">>, <<"]]">>, <<"[[", "3", "|", "NUMBER">>, <<"[[", "ha", "|", "NAME">>,
    <<"[[", "n", "|", "WORD">>, <<"|", "x">>, <<"|", "manual">>, <<"|", "key=", "x">>,
    <<"|", "canonical=">>, <<"3">>, <<"n">>, <<"ha">> }

MCScripts == { a \o b \o c \o d : a, b, c, d \in Chunks }
=============================================================================
