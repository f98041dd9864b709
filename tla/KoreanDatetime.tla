--------------------------- MODULE KoreanDatetime ---------------------------
(***************************************************************************)
(* korean_datetime.parse_date and parse_time: what date or time of day a   *)
(* piece of text says, as a set of <<field, value>> pairs; the empty set   *)
(* is the code's None.                                                     *)
(***************************************************************************)
EXTENDS KoreanNumbers

LOCAL INSTANCE SequencesExt

Weekday == {"wol", "mok", "il"}                     \* [...]yo il, Monday to Sunday
IrregularMonth == <<<<<<"yu", "wol">>, 6>>, <<<<"si", "wol">>, 10>>>>
WeekWords == <<<<<<"cheot", "jjae">>, 1>>, <<<<"dul", "jjae">>, 2>>, <<<<"cheot">>, 1>>>>
Parts == <<<<<<"cho">>, "early">>, <<<<"jung", "sun">>, "middle">>, <<<<"mal">>, "late">>>>
Meridiem == <<<<<<"o", "hu">>, "pm">>, <<<<"o", "jeon">>, "am">>>>

Says(s, w) == Find(w, s) > 0

\* 0 for none.
LastOf(S) == CHOOSE n \in S \cup {0} : \A k \in S : k <= n

TrimRight(s) == SubSeq(s, 1, LastOf(Inked(s)))

\* The number characters that s ends in.
NumberTail(s) == From(s, LastOf({ n \in DOMAIN s : s[n] \notin NumCore }) + 1)

WholeValue(r) == IF r.kind = "value" THEN Truncated(r.value) ELSE NoValue

\* The number right before place n, spaces between them skipped.
NumberLeft(s, n) == WholeValue(ParseNumber[NumberTail(TrimRight(SubSeq(s, 1, n - 1)))])

\* "si gan" and "bun gan" are durations, no times of day.
Duration(s, n) == n < Len(s) /\ s[n + 1] = "gan"

\* The places of a marker that has a number before it.
Marks(s, marker) ==
  { n \in DOMAIN s : s[n] = marker /\ ~Duration(s, n) /\ NumberLeft(s, n) # NoValue }

\* The last one: the number may contain the marker's syllable ("i sip il il").
Mark(s, marker) == LastOf(Marks(s, marker))

FieldAt(name, s, n) == IF n = 0 THEN {} ELSE {<<name, NumberLeft(s, n).num>>}

Field(name, s, marker) == FieldAt(name, s, Mark(s, marker))

\* Weekdays become a space: the wol and il in them are no month and no day.
WithoutWeekdays(s) ==
  LET day[n \in Int] == /\ n > 0 /\ n + 2 <= Len(s) /\ ~day[n - 2]
                        /\ s[n] \in Weekday /\ s[n + 1] = "yo" /\ s[n + 2] = "il"
      kept == SelectSeq([n \in DOMAIN s |-> n], LAMBDA n : ~day[n - 1] /\ ~day[n - 2])
  IN [n \in DOMAIN kept |-> IF day[kept[n]] THEN Space ELSE s[kept[n]]]

\* {<<name, value>>} for the first word of the table that s says.
Looked(name, table, s) ==
  { <<name, table[n][2]>> : n \in { m \in DOMAIN table :
      Says(s, table[m][1]) /\ \A k \in 1 .. m - 1 : ~Says(s, table[k][1]) } }

Irregular(s) == { n \in DOMAIN IrregularMonth : Says(s, IrregularMonth[n][1]) }

\* The day is looked for behind the month, which may say il itself.
MonthEnd(s) ==
  IF Irregular(s) = {} THEN Mark(s, "wol")
  ELSE LET first == CHOOSE n \in Irregular(s) : \A k \in Irregular(s) : n <= k
       IN Find(IrregularMonth[first][1], s) + 1

Month(s) ==
  IF Irregular(s) = {} THEN Field("month", s, "wol") ELSE Looked("month", IrregularMonth, s)

DayOf(s) == Field("day", From(s, MonthEnd(s) + 1), "il")

DateFields(s, monthAndDay) ==
  monthAndDay
  \cup (IF Says(s, <<"ju">>) THEN Looked("week_of_month", WeekWords, s) ELSE {})
  \cup (IF monthAndDay # {} THEN Looked("part", Parts, s) ELSE {})

DateOf(s) == DateFields(s, Month(s) \cup DayOf(s))

ParseDate(text) == DateOf(WithoutWeekdays(Strip(text)))

TimeFields(s, hour, minute) ==
  hour \cup minute
  \cup (IF minute = {} /\ hour # {} /\ Says(s, <<"ban">>) THEN {<<"minute", 30>>} ELSE {})
  \cup Looked("meridiem", Meridiem, s)

TimeOf(s) == TimeFields(s, Field("hour", s, "si"), Field("minute", s, "bun"))

ParseTime(text) == TimeOf(Strip(text))
=============================================================================
