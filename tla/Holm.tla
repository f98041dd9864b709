-------------------------------- MODULE Holm --------------------------------
(***************************************************************************)
(* multiplicity.holm_adjust: the p-values of a family of tests, adjusted   *)
(* one after the other from the smallest up.                               *)
(*                                                                         *)
(* A p-value is a numerator over Scale, alpha is Level over Scale.  Tests  *)
(* are numbered as in the input; the sort of the code is stable, so equal  *)
(* p-values are taken in the order of their numbers.                       *)
(***************************************************************************)
EXTENDS Integers, FiniteSets, Sequences

CONSTANTS
  Families,      \* sequences of p-values
  Scale,
  Level

ASSUME ScaleAssumption == Scale \in Nat \ {0}
ASSUME LevelAssumption == Level \in Nat /\ Level < Scale
ASSUME FamiliesAssumption == \A f \in Families : f \in Seq(Int)

VARIABLES
  p,
  done,          \* the tests whose adjusted p-value is written
  running,       \* the running maximum
  adjusted,
  rejected,      \* the tests rejected, once decided
  phase          \* "adjusting", "decided", "error"

vars == <<p, done, running, adjusted, rejected, phase>>

Tests == DOMAIN p

Before(i, j) == p[i] < p[j] \/ (p[i] = p[j] /\ i < j)

\* The test that comes next in the sorted order.
IsNext(i) == i \in Tests \ done /\ \A j \in Tests \ done : j = i \/ Before(i, j)

\* Mutant: the first test is not counted.
FactorShort == Len(p) - Cardinality(done) - 1

\* m - rank
Factor == Len(p) - Cardinality(done)

AtMostOne(x) == IF x < Scale THEN x ELSE Scale

StepUp(x) == IF AtMostOne(x) > running THEN AtMostOne(x) ELSE running

-----------------------------------------------------------------------------
Valid == \A i \in Tests : p[i] \in 0 .. Scale

Refuse ==
  /\ phase = "adjusting" /\ ~Valid
  /\ phase' = "error" /\ UNCHANGED <<p, done, running, adjusted, rejected>>

Adjust(i) ==
  /\ phase = "adjusting" /\ Valid /\ IsNext(i)
  /\ running' = StepUp(Factor * p[i])
  /\ adjusted' = [adjusted EXCEPT ![i] = StepUp(Factor * p[i])]
  /\ done' = done \cup {i}
  /\ UNCHANGED <<p, rejected, phase>>

Decide ==
  /\ phase = "adjusting" /\ Valid /\ done = Tests
  /\ rejected' = { i \in Tests : adjusted[i] <= Level }
  /\ phase' = "decided" /\ UNCHANGED <<p, done, running, adjusted>>

Init == /\ p \in Families
        /\ done = {} /\ running = 0 /\ adjusted = [i \in DOMAIN p |-> 0]
        /\ rejected = {} /\ phase = "adjusting"

Next == Refuse \/ (\E i \in Tests : Adjust(i)) \/ Decide

Spec == Init /\ [][Next]_vars

-----------------------------------------------------------------------------
(* Properties.                                                             *)

\* What a closed test rejects: the test is rejected with every set of tests it
\* belongs to, each set judged by Bonferroni's inequality.  Closed tests keep
\* the chance of any false rejection in the family at alpha.
ClosedBonferroni(i) ==
  \A S \in SUBSET Tests :
    i \in S => \E j \in S : Cardinality(S) * p[j] <= Level

\* Holm's procedure rejects what the closed test rejects: its short cut over
\* the sorted p-values loses nothing and lets nothing through.
ClosedTesting ==
  phase = "decided" => rejected = { i \in Tests : ClosedBonferroni(i) }

\* A smaller p-value never has the larger adjusted one, and equal p-values are
\* adjusted equally although the sort takes one of them first: the order of
\* the tests in the input does not matter.
AdjustedInOrder ==
  \A i, j \in done : p[i] <= p[j] => adjusted[i] <= adjusted[j]
=============================================================================
