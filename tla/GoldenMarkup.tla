---------------------------- MODULE GoldenMarkup ----------------------------
(***************************************************************************)
(* One turn of a script from its markup to a golden clip that passed:      *)
(* synth._strip_markup and _parse_fields take the tokens out and compute   *)
(* their offsets, build_golden derives their values, the file may be       *)
(* edited by hand, golden_from_data loads it, and validate_golden checks.  *)
(*                                                                         *)
(* Text is a sequence of pieces: "[[", "]]", "|", the words of the fields, *)
(* and characters. "3" is a number; NFC joins "ha" and "n" to "han".       *)
(* Aliases and blanks around fields are left out.                          *)
(***************************************************************************)
EXTENDS Normalization

CONSTANT Scripts     \* the texts of turns, as sequences of pieces

ASSUME ScriptsAssumption == Scripts \subseteq Seq(STRING)

VARIABLES
  raw,       \* the turn, in NFC
  idx,       \* end of the last match in raw
  clean,     \* the text without markup, as the golden file has it
  spans,     \* the tokens found so far
  edited,    \* history: the file was edited by hand
  clip       \* "stripping", "stripped", "built", "loaded", "passed"; or how it
             \* ended: "malformed", "unloadable", "refused"

mvars == <<raw, idx, clean, spans, edited, clip>>

-----------------------------------------------------------------------------
(* _MARKUP and _parse_fields.                                              *)

Lowest(S) == CHOOSE n \in S : \A m \in S : n <= m

\* Where a match that starts at i can end: "]]" behind at least one piece.
Ends(i) == { j \in DOMAIN raw : j > i + 1 /\ raw[j] = "]]" }

Starts == { i \in DOMAIN raw : i > idx /\ raw[i] = "[[" /\ Ends(i) # {} }

SplitAtBars(s) ==
  LET cuts == {0, Len(s) + 1} \cup { n \in DOMAIN s : s[n] = "|" }
  IN [k \in 1 .. Cardinality(cuts) - 1 |->
        SubSeq(s, Nth(cuts, k) + 1, Nth(cuts, k + 1) - 1)]

NoFields == [key |-> <<>>, label |-> <<>>, manual |-> FALSE, first |-> TRUE, bad |-> FALSE]

\* A field may be given once, and not empty.
Given(fields, name, val) ==
  IF val = <<>> \/ fields[name] # <<>> THEN [fields EXCEPT !.bad = TRUE]
                                      ELSE [fields EXCEPT ![name] = val]

Named(f) == \E n \in DOMAIN f : f[n] \in {"key=", "canonical="}

ReadField(fields, f) ==
  CASE f = <<"manual">>          -> [fields EXCEPT !.manual = TRUE]
    [] Head(f) = "key="          -> Given(fields, "key", Tail(f))
    [] Head(f) = "canonical="    -> Given(fields, "label", Tail(f))
    [] ~Named(f) /\ fields.first /\ f # <<"manual">> -> Given(fields, "key", f)
    [] OTHER                     -> [fields EXCEPT !.bad = TRUE]

ParseFields(extra) ==
  LET read[n \in 0 .. Len(extra)] ==
        IF n = 0 THEN NoFields
        ELSE IF extra[n] = <<>> THEN read[n - 1]
        ELSE [ReadField(read[n - 1], extra[n]) EXCEPT !.first = FALSE]
  IN read[Len(extra)]

-----------------------------------------------------------------------------
End(how) == clip' = how /\ UNCHANGED <<raw, idx, clean, spans, edited>>

Start == Lowest(Starts)
Stop == Lowest(Ends(Start))
Fields == SplitAtBars(SubSeq(raw, Start + 1, Stop - 1))
Extra == ParseFields(SubSeq(Fields, 3, Len(Fields)))

WellMarked ==
  /\ Len(Fields) >= 2 /\ Fields[1] # <<>> /\ Fields[2] # <<>>
  /\ ~Extra.bad
  /\ Extra.label # <<>> => Extra.manual

TokenFails == clip = "stripping" /\ Starts # {} /\ ~WellMarked /\ End("malformed")

Ahead == clean \o SubSeq(raw, idx + 1, Start - 1)

StripToken ==
  /\ clip = "stripping" /\ Starts # {} /\ WellMarked
  /\ clean' = Ahead \o Fields[1]
  /\ spans' = Append(spans, [surface |-> Fields[1], type |-> Fields[2],
                             manual |-> Extra.manual, key |-> Extra.key,
                             first |-> Len(Ahead) + 1,
                             last |-> Len(Ahead) + Len(Fields[1])])
  /\ idx' = Stop
  /\ UNCHANGED <<raw, edited, clip>>

\* The last check of _strip_markup: no bracket is left in the text.
StripRest ==
  /\ clip = "stripping" /\ Starts = {}
  /\ clean' = clean \o SubSeq(raw, idx + 1, Len(raw))
  /\ clip' = IF \E n \in DOMAIN clean' : clean'[n] \in {"[[", "]]"}
             THEN "malformed" ELSE "stripped"
  /\ UNCHANGED <<raw, idx, spans, edited>>

Known == {<<"NUMBER">>, <<"NAME">>}

Derivable(sp) == \/ sp.manual
                 \/ sp.type = <<"NUMBER">> /\ Head(sp.surface) = "3"
                 \/ sp.type = <<"NAME">>

BuildClip ==
  /\ clip = "stripped"
  /\ End(IF \A k \in DOMAIN spans : Derivable(spans[k]) THEN "built" ELSE "malformed")

\* A hand edits the text in the file and leaves the offsets.
EditText ==
  /\ clip = "built" /\ ~edited
  /\ edited' = TRUE
  /\ \E n \in 0 .. Len(clean) :
       \/ clean' = SubSeq(clean, 1, n) \o <<"x">> \o SubSeq(clean, n + 1, Len(clean))
       \/ n > 0 /\ clean' = SubSeq(clean, 1, n - 1) \o SubSeq(clean, n + 1, Len(clean))
  /\ UNCHANGED <<raw, idx, spans, clip>>

\* EntityType(type) raises on a type that is none.
LoadClip ==
  /\ clip = "built"
  /\ End(IF \A k \in DOMAIN spans : spans[k].type \in Known THEN "loaded" ELSE "unloadable")

InSlice(sp) == sp.last <= Len(clean) /\ SubSeq(clean, sp.first, sp.last) = sp.surface

\* Mutant: the offsets are not checked.
GateClipAnywhere ==
  clip = "loaded" /\ End(IF Nfc(clean) = clean THEN "passed" ELSE "refused")

\* validate_golden: the values, derived again by the same parser, agree.
GateClip ==
  /\ clip = "loaded"
  /\ End(IF Nfc(clean) = clean /\ \A k \in DOMAIN spans : InSlice(spans[k])
         THEN "passed" ELSE "refused")

MInit == /\ raw \in { Nfc(s) : s \in Scripts }
         /\ idx = 0 /\ clean = <<>> /\ spans = <<>>
         /\ edited = FALSE /\ clip = "stripping"

MNext == \/ TokenFails \/ StripToken \/ StripRest \/ BuildClip
         \/ EditText \/ LoadClip \/ GateClip

MSpec == MInit /\ [][MNext]_mvars

-----------------------------------------------------------------------------
(* Properties.                                                             *)

\* In a clip that passed, edited or not, the tokens stand apart in the order
\* they were written, and each marks the words the author put in brackets.
PassedMarksScript ==
  clip = "passed" =>
    \A k \in DOMAIN spans :
      /\ k > 1 => spans[k - 1].last < spans[k].first
      /\ spans[k].last <= Len(clean)
      /\ \E i, j \in DOMAIN raw :
           /\ raw[i] = "[[" /\ raw[j] = "|" /\ i < j
           /\ SubSeq(raw, i + 1, j - 1) = SubSeq(clean, spans[k].first, spans[k].last)

\* The docstring of _derive_canonical: what was built always passes the gate.
BuiltAlwaysPasses == ~edited => clip # "refused"

\* The module docstring: markup that is mistyped or unbalanced is an error at
\* once. Then every "[[" the author wrote is a token of the clip that passed.
NothingSwallowed ==
  clip = "passed" => Cardinality({ n \in DOMAIN raw : raw[n] = "[[" }) = Len(spans)
=============================================================================
