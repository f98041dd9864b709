------------------------------ MODULE Verdicts ------------------------------
(***************************************************************************)
(* verdict.verdict_single and verdict.verdict_paired: does one detector    *)
(* meet its target on the meetings it was scored on, and do two detectors  *)
(* differ on the meetings both were scored on?                             *)
(*                                                                         *)
(* A meeting has n golden flags of which k were hit; alpha is a fraction.  *)
(* The bounds of the Clopper-Pearson interval are not computed: the        *)
(* verdict only compares them with the target, and "the upper bound for k  *)
(* is below t" is "at most k hits have probability below alpha / 2 when    *)
(* each has probability t", which integers decide.  For the same reason    *)
(* the one verdict that needs the width of the interval,                   *)
(* IMPRECISE_ESTIMATE, is left out: it is given only when the caller       *)
(* passes a precision target.  The p-value of the sign permutation test    *)
(* (paired.cluster_sign_test) is a fraction over 2^n, as it is in the code *)
(* for up to 20 meetings; the Monte Carlo branch above that is left out.   *)
(***************************************************************************)
EXTENDS Integers, FiniteSets, Sequences, Functions

CONSTANTS
  Singles,   \* records [kind, meetings, target, estimand, floor, num, den]
  Paireds    \* records [kind, a, b, num, den]

\* A meeting cannot have more hits than flags.
Scored == { c \in [k : Nat, n : Nat] : c.k <= c.n }
ClusterBinary == { c \in [id : STRING, k : Nat, n : Nat] : c.k <= c.n }

\* The number of meetings up to which the sign test is exact.
MaxExact == 20

\* A level that the exact test can reach: 0 < alpha < 1 and 2 / 2^20 <= alpha.
IsLevel(q) ==
  /\ q.num \in Nat /\ q.den \in Nat
  /\ q.num < q.den /\ 2 * q.den <= q.num * 2^MaxExact

\* A target is a share of the flags.
IsShare(t) == t.num \in Nat /\ t.den \in Nat \ {0} /\ t.num <= t.den

ASSUME SinglesAssumption ==
  \A q \in Singles :
    /\ q.kind = "single" /\ q.meetings \in Seq(Scored)
    /\ IsShare(q.target) /\ q.floor \in Nat /\ IsLevel(q)

ASSUME PairedsAssumption ==
  \A q \in Paireds :
    /\ q.kind = "paired" /\ q.a \in Seq(ClusterBinary) /\ q.b \in Seq(ClusterBinary)
    /\ IsLevel(q)

VARIABLES
  input,     \* kind: "single" or "paired"; num / den: alpha; target: [num, den]
  verdict,   \* "pending", "error" or a state of Verdict
  missing    \* collection_target.n_additional, 0 without a target

vvars == <<input, verdict, missing>>

Pending(kind) == verdict = "pending" /\ input.kind = kind

\* Mutant: a one-sided floor.
ReachableOneSided(n) == input.den <= input.num * 2^n

\* min_attainable_two_sided_p(n) <= alpha, where it is min(1, 2 / 2^n).
Reachable(n) == 2 * input.den <= input.num * 2^n

ComparisonFloor ==
  CHOOSE n \in 1 .. MaxExact : Reachable(n) /\ \A m \in 1 .. n - 1 : ~Reachable(m)

\* collection_target("comparison_floor", n_current = n)
NAdditional(n) == IF n >= ComparisonFloor THEN 0 ELSE ComparisonFloor - n

-----------------------------------------------------------------------------
(* verdict_single.                                                         *)

\* The operators take the meetings, so that properties can ask what other
\* meetings would have given.
Nonempty(c) == { i \in DOMAIN c : c[i].n > 0 }

\* Mutant: every meeting is an observation once one is.
NInferAll(c) == IF Nonempty(c) = {} THEN 0 ELSE Cardinality(DOMAIN c)

NInfer(c) == Cardinality(Nonempty(c))

Successes(c) == SumFunction([i \in Nonempty(c) |-> c[i].k])
Items(c) == SumFunction([i \in Nonempty(c) |-> c[i].n])

\* The point estimate times n_infer, as a fraction: hits over flags of each
\* meeting on a common denominator, or pooled.
CommonDen(c) == FoldFunction(LAMBDA x, y : x * y, 1, [i \in Nonempty(c) |-> c[i].n])

Prod(c) ==
  IF input.estimand = "meeting_weighted"
  THEN [num |-> SumFunction([i \in Nonempty(c) |-> c[i].k * (CommonDen(c) \div c[i].n)]),
        den |-> CommonDen(c)]
  ELSE [num |-> Successes(c) * NInfer(c), den |-> Items(c)]

\* Mutant: Python's round, which takes a half to the even neighbour.
RoundEven(q) ==
  LET down == q.num \div q.den
      over == 2 * (q.num % q.den)
  IN IF over < q.den \/ (over = q.den /\ down % 2 = 0) THEN down ELSE down + 1

RoundHalfDown(q) == -((q.den - 2 * q.num) \div (2 * q.den))
RoundHalfUp(q) == (2 * q.num + q.den) \div (2 * q.den)

\* How many of the t.den^n equally likely cases have j hits among n
\* observations, each of them a hit in t.num of its t.den cases; the last one is
\* a hit or it is not.
Weights(n, t) ==
  LET w[m \in 0 .. n] ==
        IF m = 0 THEN [j \in {0} |-> 1]
        ELSE [j \in 0 .. m |-> (IF j > 0 THEN t.num * w[m - 1][j - 1] ELSE 0)
                               + (IF j < m THEN (t.den - t.num) * w[m - 1][j] ELSE 0)]
  IN w[n]

Cases(J, n, t) == SumFunction([j \in J |-> Weights(n, t)[j]])

\* At most, or at least, k hits have probability below alpha / 2 at t:
\* clopper_pearson(k, n)[1] < t and clopper_pearson(k, n)[0] >= t
\* (the bounds are 1 for n hits and 0 for none, so a target of 0 is reached).
UpperBelow(k, n, t) ==
  k < n /\ 2 * input.den * Cases(0 .. k, n, t) < input.num * Cases(0 .. n, n, t)
LowerReaches(k, n, t) ==
  \/ t.num = 0
  \/ k > 0 /\ 2 * input.den * Cases(k .. n, n, t) <= input.num * Cases(0 .. n, n, t)

NoSpread(c) == \A i, j \in Nonempty(c) : c[i].k * c[j].n = c[j].k * c[i].n

\* Mutant: the two roundings swapped, which narrows the interval.
RoundedSwapped(c) == [lo |-> RoundHalfUp(Prod(c)), hi |-> RoundHalfDown(Prod(c))]

\* k_lo and k_hi, the hits that each bound of the interval is taken for: a half
\* goes down for the lower one and up for the upper one.
Rounded(c) == [lo |-> RoundHalfDown(Prod(c)), hi |-> RoundHalfUp(Prod(c))]

\* hi_cons < target and lo_cons >= target.  Mutant: meetings that all agree are
\* never a failure.
FailsUnlessUniform(c) == UpperBelow(Rounded(c).hi, NInfer(c), input.target) /\ ~NoSpread(c)

HasFailed(c) == UpperBelow(Rounded(c).hi, NInfer(c), input.target)
HasMet(c) == LowerReaches(Rounded(c).lo, NInfer(c), input.target)

M == input.meetings

Undefined ==
  /\ Pending("single") /\ NInfer(M) = 0
  /\ verdict' = "DEGENERATE" /\ UNCHANGED <<input, missing>>

TooFew ==
  /\ Pending("single") /\ NInfer(M) = 1
  /\ verdict' = "INSUFFICIENT_DATA" /\ missing' = NAdditional(NInfer(M)) /\ UNCHANGED input

Compared == Pending("single") /\ NInfer(M) > 1

Fails ==
  /\ Compared /\ HasFailed(M)
  /\ verdict' = "FAILS_TARGET" /\ missing' = NAdditional(NInfer(M)) /\ UNCHANGED input

Uniform ==
  /\ Compared /\ ~HasFailed(M) /\ NoSpread(M)
  /\ verdict' = "DEGENERATE" /\ UNCHANGED <<input, missing>>

Inferable == Compared /\ ~HasFailed(M) /\ ~NoSpread(M)

BelowFloor ==
  /\ Inferable /\ NInfer(M) < input.floor
  /\ verdict' = "DESCRIPTIVE_ONLY" /\ missing' = NAdditional(NInfer(M)) /\ UNCHANGED input

Meets ==
  /\ Inferable /\ NInfer(M) >= input.floor /\ HasMet(M)
  /\ verdict' = "MEETS_TARGET" /\ UNCHANGED <<input, missing>>

Straddles ==
  /\ Inferable /\ NInfer(M) >= input.floor /\ ~HasMet(M)
  /\ verdict' = "INCONCLUSIVE_VS_TARGET" /\ UNCHANGED <<input, missing>>

-----------------------------------------------------------------------------
(* verdict_paired.                                                         *)

Ids(c) == { c[i].id : i \in DOMAIN c }

Repeats(c) == Cardinality(Ids(c)) # Len(c)

Of(c, id) == c[CHOOSE i \in DOMAIN c : c[i].id = id]

Common == Ids(input.a) \cap Ids(input.b)

Mismatched == { id \in Common : Of(input.a, id).n # Of(input.b, id).n }

\* d: what detector A hit more than B, meeting by meeting.
Diffs == [id \in Common |-> Of(input.a, id).k - Of(input.b, id).k]

\* A tied meeting tells the sign test nothing.
Informative(d) == Cardinality({ id \in DOMAIN d : d[id] # 0 })

Abs(x) == IF x < 0 THEN -x ELSE x

Net(s, d) == Abs(SumFunction([id \in DOMAIN d |-> s[id] * d[id]]))

Flips(d) == [DOMAIN d -> {1, -1}]

Observed(d) == Net([id \in DOMAIN d |-> 1], d)

\* Mutant: only flips that are more extreme than what was observed.
AsExtremeStrict(d) == { s \in Flips(d) : Net(s, d) > Observed(d) }

AsExtreme(d) == { s \in Flips(d) : Net(s, d) >= Observed(d) }

\* p_two_sided <= alpha
PSmall(d) == Cardinality(AsExtreme(d)) * input.den <= input.num * 2^Cardinality(DOMAIN d)

WellFormed == ~Repeats(input.a) /\ ~Repeats(input.b)

\* Two clusters of one meeting, or golden flags that differ between the two.
RefusePair ==
  /\ Pending("paired")
  /\ WellFormed => Mismatched # {}
  /\ verdict' = "error" /\ UNCHANGED <<input, missing>>

NothingCommon ==
  /\ Pending("paired") /\ WellFormed /\ Common = {}
  /\ verdict' = "INSUFFICIENT_DATA" /\ UNCHANGED <<input, missing>>

Comparable == Pending("paired") /\ WellFormed /\ Common # {} /\ Mismatched = {}

Underpowered ==
  /\ Comparable /\ ~Reachable(Informative(Diffs))
  /\ verdict' = "UNDERPOWERED"
  /\ missing' = NAdditional(Informative(Diffs))
  /\ UNCHANGED input

Significant ==
  /\ Comparable /\ Reachable(Informative(Diffs)) /\ PSmall(Diffs)
  /\ verdict' = "SIGNIFICANT" /\ UNCHANGED <<input, missing>>

Inconclusive ==
  /\ Comparable /\ Reachable(Informative(Diffs)) /\ ~PSmall(Diffs)
  /\ verdict' = "INCONCLUSIVE" /\ UNCHANGED <<input, missing>>

-----------------------------------------------------------------------------
VInit == input \in Singles \cup Paireds /\ verdict = "pending" /\ missing = 0

VNext ==
  \/ Undefined \/ TooFew \/ Fails \/ Uniform \/ BelowFloor \/ Meets \/ Straddles
  \/ RefusePair \/ NothingCommon \/ Underpowered \/ Significant \/ Inconclusive

VSpec == VInit /\ [][VNext]_vvars

-----------------------------------------------------------------------------
(* Properties.                                                             *)

\* One golden flag of meeting i missed instead of hit, or the other way round.
Worse(i) == [M EXCEPT ![i].k = @ - 1]
Better(i) == [M EXCEPT ![i].k = @ + 1]

\* The gates of verdict_single in their order: what it says of meetings c.
VerdictOn(c) ==
  CASE NInfer(c) = 0 -> "DEGENERATE"
    [] NInfer(c) = 1 -> "INSUFFICIENT_DATA"
    [] NInfer(c) > 1 /\ HasFailed(c) -> "FAILS_TARGET"
    [] NInfer(c) > 1 /\ ~HasFailed(c) /\ NoSpread(c) -> "DEGENERATE"
    [] NInfer(c) > 1 /\ ~HasFailed(c) /\ ~NoSpread(c) ->
         IF NInfer(c) < input.floor THEN "DESCRIPTIVE_ONLY"
         ELSE IF HasMet(c) THEN "MEETS_TARGET" ELSE "INCONCLUSIVE_VS_TARGET"

\* One hit more or less never turns the verdict against the hits: meetings that
\* fail the target are still said to fail it with one hit less, uniform disaster
\* included, and meetings that meet it are still said to meet it with one more,
\* unless that hit makes all of them alike: then the gate for meetings without
\* spread, which is asked before the target, calls them DEGENERATE.
HitsOnlyHelp ==
  verdict \in {"FAILS_TARGET", "MEETS_TARGET"} =>
    \A i \in Nonempty(M) :
      /\ verdict = "FAILS_TARGET" /\ M[i].k > 0 => VerdictOn(Worse(i)) = "FAILS_TARGET"
      /\ verdict = "MEETS_TARGET" /\ M[i].k < M[i].n =>
           VerdictOn(Better(i)) = IF NoSpread(Better(i)) THEN "DEGENERATE" ELSE "MEETS_TARGET"

Misses == [i \in DOMAIN M |-> [k |-> M[i].n - M[i].k, n |-> M[i].n]]

\* Rounding favours neither side and never narrows the interval: the count taken
\* for the lower bound and the count the misses would be given for the upper
\* bound add up, and the lower bound is not taken for more hits than the upper.
NoSideFavoured ==
  input.kind = "single" /\ NInfer(M) > 0 =>
    Rounded(M).lo + Rounded(Misses).hi = NInfer(M) /\ Rounded(M).lo <= Rounded(M).hi

\* The meetings that have golden flags, the pairs that do not tie.
Told == Restrict(M, Nonempty(M))

Untied(d) == { id \in DOMAIN d : d[id] # 0 }

Judged == verdict \in {"UNDERPOWERED", "SIGNIFICANT", "INCONCLUSIVE"}

Decision(d) ==
  CASE ~Reachable(Informative(d)) -> "UNDERPOWERED"
    [] Reachable(Informative(d)) /\ PSmall(d) -> "SIGNIFICANT"
    [] OTHER -> "INCONCLUSIVE"

\* The test keeps its level: if the two detectors are alike, so that in each
\* meeting either could have been ahead, at most alpha of the data that could
\* have come out are called significant.
FalseAlarmsRare ==
  Judged =>
    LET d == Diffs
        alarms == { s \in Flips(d) :
                      Decision([id \in DOMAIN d |-> s[id] * d[id]]) = "SIGNIFICANT" }
    IN Cardinality(alarms) * input.den <= input.num * Cardinality(Flips(d))

\* Meetings that tell nothing do not change what is said: those without golden
\* flags can neither take a sample over the floor nor change what is left to
\* collect, and those in which two detectors tie leave the verdict as it is,
\* although the test runs over them.
UninformativeSilent ==
  /\ input.kind = "single" =>
       LET n == Cardinality(DOMAIN Told)
       IN /\ verdict \in {"MEETS_TARGET", "INCONCLUSIVE_VS_TARGET"} => n >= input.floor
          /\ verdict = "DESCRIPTIVE_ONLY" /\ input.floor = ComparisonFloor
               => n + missing = input.floor
          /\ verdict = "INSUFFICIENT_DATA" => n = 1
          /\ verdict = "FAILS_TARGET" => HasFailed(Told)
  /\ Judged => verdict = Decision(Restrict(Diffs, Untied(Diffs)))

\* UNDERPOWERED is said exactly when no result of these meetings, not even one
\* detector ahead in all of them, could have been significant, and the target
\* to collect is the least that could lift it.
UnderpoweredIsStructural ==
  Judged =>
    LET n == Informative(Diffs)
    IN /\ verdict = "UNDERPOWERED"
          <=> n = 0 \/ ~PSmall([id \in Common |-> Abs(Diffs[id])])
       /\ verdict = "UNDERPOWERED" => Reachable(n + missing) /\ ~Reachable(n + missing - 1)
=============================================================================
