--------------------------- MODULE KoreanNumbers ---------------------------
(***************************************************************************)
(* korean_numbers.parse_number: what number a piece of text says.          *)
(*                                                                         *)
(* A text is a sequence of characters, named by their romanised syllable   *)
(* ("sam" is the digit 3, "cheon" is 1000, "_" is a space).  Characters of *)
(* one kind go through the same branches, so the maps below hold a few of  *)
(* each; native numerals are the one-syllable ones, widths are normalised  *)
(* and the only hedge is "yak".  Values are fractions, as 3.5 must not be  *)
(* rounded: the code has a float there.                                    *)
(***************************************************************************)
EXTENDS Integers, Sequences, FiniteSets, TLC

LOCAL INSTANCE SequencesExt

Arabic      == "0" :> 0 @@ "1" :> 1 @@ "2" :> 2 @@ "3" :> 3 @@ "5" :> 5
SinoDigit   == "yeong" :> 0 @@ "il" :> 1 @@ "i" :> 2 @@ "sam" :> 3 @@ "o" :> 5
SmallUnit   == "sip" :> 10 @@ "baek" :> 100 @@ "cheon" :> 1000
BigUnit     == "man" :> 10000
NativeTens  == "yeol" :> 10
NativeOnes  == "han" :> 1 @@ "du" :> 2 @@ "dul" :> 2 @@ "se" :> 3
Place       == SmallUnit @@ BigUnit
Digit       == Arabic @@ SinoDigit

Dot == "."
Comma == ","
Jeom == "jeom"      \* the spoken decimal point
Space == "_"
Hedge == "yak"
RangeSeps == <<<<"e", "seo">>, <<"~">>>>      \* in the order they are looked for

\* Syllables of the longer native numerals ("seo reun" 30, "ye sun" 60): the code
\* keeps the characters of all of them together.
NativeSyllable == {"seo", "sun"}

NumCore == {Dot, Comma} \cup NativeSyllable
           \cup UNION { DOMAIN f : f \in {Digit, Place, NativeTens, NativeOnes} }

Char == NumCore \cup {Jeom, Space, Hedge, "e", "~"}
        \cup {"won", "bul", "gae", "%", "x", "ga", "ha", "n",
              "wol", "si", "bun", "gan", "yo", "mok", "yu", "ban", "hu", "jeon",
              "cheot", "jjae", "ju", "cho", "jung", "mal"}

Currency == <<"won">> :> "KRW" @@ <<"bul">> :> "USD"

UnitCategory(unit) ==
  CASE unit = <<>> -> "none"
    [] unit \in DOMAIN Currency -> "currency"
    [] unit = <<"%">> -> "percent"
    [] unit \in {<<"si">>, <<"bun">>, <<"cho">>} -> "time"
    [] unit \in {<<"il">>, <<"wol">>, <<"ju">>} -> "date"
    [] OTHER -> "count"

-----------------------------------------------------------------------------
Inked(s) == { n \in DOMAIN s : s[n] # Space }

Strip(s) ==
  IF Inked(s) = {} THEN <<>>
  ELSE LET first == CHOOSE n \in Inked(s) : \A k \in Inked(s) : n <= k
           last  == CHOOSE n \in Inked(s) : \A k \in Inked(s) : k <= n
       IN SubSeq(s, first, last)

From(s, n) == SubSeq(s, n, Len(s))

\* Where w first occurs in s, 0 if it does not.
Find(w, s) ==
  LET at == { n \in DOMAIN s : IsPrefix(w, From(s, n)) }
  IN IF at = {} THEN 0 ELSE CHOOSE n \in at : \A k \in at : n <= k

\* How much of s is taken while every character satisfies ok at its place.
PrefixLen(s, ok(_)) ==
  CHOOSE n \in 0 .. Len(s) :
    /\ \A k \in 1 .. n : ok(k)
    /\ n = Len(s) \/ ~ok(n + 1)

NativeLen(s) ==
  IF s = <<>> THEN 0
  ELSE IF s[1] \in DOMAIN NativeTens
       THEN IF Len(s) > 1 /\ s[2] \in DOMAIN NativeOnes THEN 2 ELSE 1
       ELSE IF s[1] \in DOMAIN NativeOnes THEN 1 ELSE 0

\* A Sino-Korean digit right after Arabic ones is not a digit but a unit (in
\* "3 il" the il is a day), unless a place ended the Arabic run.
AfterArabic(s, k) ==
  \E j \in 1 .. k - 1 :
    s[j] \in DOMAIN Arabic /\ \A m \in j + 1 .. k - 1 : s[m] \notin DOMAIN Place

SinoLen(s) ==
  PrefixLen(s, LAMBDA k : \/ s[k] \in DOMAIN Arabic \cup {Dot, Comma, Jeom} \cup DOMAIN Place
                          \/ s[k] \in DOMAIN SinoDigit /\ ~AfterArabic(s, k))

CoreLen(s) == IF NativeLen(s) > 0 THEN NativeLen(s) ELSE SinoLen(s)

-----------------------------------------------------------------------------
(* The value of a core.  NoValue where the code has None.                  *)

NoValue == [num |-> 0, den |-> 0]

Whole(n) == [num |-> n, den |-> 1]

Same(q, r) == q.num * r.den = r.num * q.den
Less(q, r) == q.num * r.den < r.num * q.den

\* Digits read as a run, 3 2 as 32.
DigitRun(s) == FoldLeft(LAMBDA n, c : 10 * n + Digit[c], 0, s)

OneIfZero(n) == IF n = 0 THEN 1 ELSE n

SinoStep(a, c) ==
  CASE c \in DOMAIN Digit     -> [a EXCEPT !.num = 10 * @ + Digit[c]]
    [] c \in DOMAIN SmallUnit -> [a EXCEPT !.section = @ + OneIfZero(a.num) * SmallUnit[c],
                                           !.num = 0]
    [] c \in DOMAIN BigUnit   -> [total |-> a.total + OneIfZero(a.section + a.num) * BigUnit[c],
                                  section |-> 0, num |-> 0]

SinoArabic(s) ==
  IF s = <<>> \/ \E n \in DOMAIN s : s[n] \notin DOMAIN Digit \cup DOMAIN Place THEN NoValue
  ELSE LET end == FoldLeft(SinoStep, [total |-> 0, section |-> 0, num |-> 0], s)
       IN Whole(end.total + end.section + end.num)

\* Whole digits a, fractional digits b.
Decimal(a, b) == [num |-> a * 10^Len(b) + DigitRun(b), den |-> 10^Len(b)]

AllOf(s, kind) == s # <<>> /\ \A n \in DOMAIN s : s[n] \in DOMAIN kind

Before(s, c) == SubSeq(s, 1, Find(<<c>>, s) - 1)
After(s, c) == From(s, Find(<<c>>, s) + 1)

\* "sam jeom o"
KoreanDecimal(s) ==
  IF ~Contains(s, Jeom) \/ ~AllOf(After(s, Jeom), Digit) THEN NoValue
  ELSE LET a == IF Before(s, Jeom) = <<>> THEN Whole(0) ELSE SinoArabic(Before(s, Jeom))
       IN IF a = NoValue THEN NoValue ELSE Decimal(a.num, After(s, Jeom))

Scaled(q, places) ==
  CASE places = <<>> -> q
    [] AllOf(places, Place) -> [q EXCEPT !.num = @ * SinoArabic(places).num]
    [] OTHER -> NoValue

\* n of the characters behind the dot are digits.
DottedAt(whole, tail, n) ==
  IF n = 0 THEN NoValue
  ELSE Scaled(Decimal(DigitRun(whole), SubSeq(tail, 1, n)), From(tail, n + 1))

ArabicLen(s) == PrefixLen(s, LAMBDA k : s[k] \in DOMAIN Arabic)

\* "3.5", and "3.5 cheon man" with a place after it.
DottedDecimal(s) ==
  IF ~Contains(s, Dot) \/ ~AllOf(Before(s, Dot), Arabic) THEN NoValue
  ELSE DottedAt(Before(s, Dot), After(s, Dot), ArabicLen(After(s, Dot)))

Native(s) ==
  CASE Len(s) = 1 /\ s[1] \in DOMAIN NativeTens -> Whole(NativeTens[s[1]])
    [] Len(s) = 1 /\ s[1] \in DOMAIN NativeOnes -> Whole(NativeOnes[s[1]])
    [] Len(s) = 2 /\ s[1] \in DOMAIN NativeTens /\ s[2] \in DOMAIN NativeOnes ->
         Whole(NativeTens[s[1]] + NativeOnes[s[2]])
    [] OTHER -> NoValue

FirstRead(readings) ==
  LET read == { n \in DOMAIN readings : readings[n] # NoValue }
  IN IF read = {} THEN NoValue ELSE readings[CHOOSE n \in read : \A k \in read : n <= k]

\* The readings in the order they are tried.
ValueOf(core) ==
  FirstRead(<<KoreanDecimal(core), DottedDecimal(core), Native(core), SinoArabic(core)>>)

-----------------------------------------------------------------------------
(* Ranges.                                                                 *)

Nothing(unit) == [kind |-> "none", unit |-> unit]
Value(q, unit) == [kind |-> "value", value |-> q, unit |-> unit]
RangeOf(q, r, unit) ==
  [kind |-> "range", low |-> IF Less(q, r) THEN q ELSE r,
                     high |-> IF Less(q, r) THEN r ELSE q, unit |-> unit]

HasPlace(s) == \E n \in DOMAIN s : s[n] \in DOMAIN Place

\* What follows the leading digits: of "3 cheon man", "cheon man".
TrailingPlace(s) == From(s, PrefixLen(s, LAMBDA k : s[k] \in DOMAIN Digit) + 1)

Spread(lo, hi) ==
  IF NoValue \in {lo, hi} \/ Same(lo, hi) THEN Nothing(<<>>) ELSE RangeOf(lo, hi, <<>>)

\* Two consecutive digits sharing what follows: "i sam cheon" is 2 to 3 cheon.
PairRange(core) ==
  IF /\ Len(core) >= 2 /\ AllOf(SubSeq(core, 1, 2), SinoDigit)
     /\ SinoDigit[core[2]] = SinoDigit[core[1]] + 1
  THEN Spread(SinoArabic(<<core[1]>> \o From(core, 3)), SinoArabic(<<core[2]>> \o From(core, 3)))
  ELSE Nothing(<<>>)

Truncated(q) == Whole(q.num \div q.den)

Present(s) == { n \in DOMAIN RangeSeps : Find(RangeSeps[n], s) > 0 }

Single(q, unit) == IF q = NoValue THEN Nothing(unit) ELSE Value(q, unit)

OfCore(core, pair, unit) ==
  CASE core = <<>> -> Nothing(unit)
    [] core # <<>> /\ pair.kind = "range" -> [pair EXCEPT !.unit = unit]
    [] OTHER -> Single(ValueOf(core), unit)

WithoutCommas(core) == SelectSeq(core, LAMBDA c : c # Comma)

ParseSplit(core, unit) == OfCore(core, PairRange(core), unit)

\* Text without a hedge and without a range separator.
ParsePlain(s) ==
  ParseSplit(WithoutCommas(SubSeq(s, 1, CoreLen(s))), Strip(From(s, CoreLen(s) + 1)))

Unhedged(s) == Strip([n \in DOMAIN s |-> IF s[n] = Hedge THEN Space ELSE s[n]])

FirstSep(s) == RangeSeps[CHOOSE n \in Present(s) : \A k \in Present(s) : n <= k]

LeftOf(s, sep) == Strip(SubSeq(s, 1, Find(sep, s) - 1))
RightOf(s, sep) == Strip(From(s, Find(sep, s) + Len(sep)))

\* "2~3 cheon man": the place of the second number is the first one's too.
SharesPlace(a, b, q, r) == Less(q, r) /\ ~HasPlace(a) /\ HasPlace(b)

SepRange(a, b, ra, rb, shared) ==
  RangeOf(Truncated(IF SharesPlace(a, b, ra.value, rb.value) /\ shared.kind = "value"
                    THEN shared.value ELSE ra.value),
          Truncated(rb.value), <<>>)

ParseSides(s, a, b, ra, rb, shared) ==
  IF ra.kind = "value" /\ rb.kind = "value" THEN SepRange(a, b, ra, rb, shared) ELSE ParsePlain(s)

ParseNumber[text \in Seq(Char)] ==
  LET s == Unhedged(text)
      a == LeftOf(s, FirstSep(s))
      b == RightOf(s, FirstSep(s))
  IN IF Present(s) = {} THEN ParsePlain(s)
     ELSE ParseSides(s, a, b, ParseNumber[a], ParseNumber[b], ParseNumber[a \o TrailingPlace(b)])
=============================================================================
