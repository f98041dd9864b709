----------------------------- MODULE Alignment -----------------------------
(***************************************************************************)
(* cer.align_ops and score._project_span: one cheapest way to edit the     *)
(* golden text into the transcribed one, and the piece of the transcript   *)
(* that it puts in the place of a span.  Places count from 1; an operation *)
(* carries 0 where the code has None.                                      *)
(***************************************************************************)
EXTENDS Integers, Sequences

LOCAL INSTANCE SequencesExt

Least(S) == CHOOSE n \in S : \A k \in S : n <= k
Greatest(S) == CHOOSE n \in S : \A k \in S : k <= n

Differ(x, y) == IF x = y THEN 0 ELSE 1

\* Row i + 1, column j + 1: the cost of editing ref[1..i] into hyp[1..j].
Costs(ref, hyp) ==
  LET first == [j \in 1 .. Len(hyp) + 1 |-> j - 1]
      below(row, x) ==
        FoldLeftDomain(
          LAMBDA done, j : Append(done, Least({row[j] + Differ(x, hyp[j]),
                                               row[j + 1] + 1, done[j] + 1})),
          <<row[1] + 1>>, hyp)
  IN FoldLeft(LAMBDA rows, x : Append(rows, below(rows[Len(rows)], x)), <<first>>, ref)

\* Read from the end; of equally cheap operations a match or substitution is
\* taken before a deletion, a deletion before an insertion.
AlignOps(ref, hyp) ==
  LET dp == Costs(ref, hyp)
      ops[c \in (0 .. Len(ref)) \X (0 .. Len(hyp))] ==
        LET i == c[1]
            j == c[2]
        IN CASE i = 0 /\ j = 0 -> <<>>
             [] i > 0 /\ j > 0 /\ dp[i + 1][j + 1] = dp[i][j] + Differ(ref[i], hyp[j]) ->
                  Append(ops[<<i - 1, j - 1>>],
                         [op |-> IF ref[i] = hyp[j] THEN "match" ELSE "sub", i |-> i, j |-> j])
             [] i > 0 /\ ~(j > 0 /\ dp[i + 1][j + 1] = dp[i][j] + Differ(ref[i], hyp[j]))
                /\ dp[i + 1][j + 1] = dp[i][j + 1] + 1 ->
                  Append(ops[<<i - 1, j>>], [op |-> "del", i |-> i, j |-> 0])
             [] OTHER -> Append(ops[<<i, j - 1>>], [op |-> "ins", i |-> 0, j |-> j])
  IN ops[<<Len(ref), Len(hyp)>>]

\* The operations on ref[first..last], with the insertions next to them.
Touched(ops, first, last) ==
  LET inner == { k \in DOMAIN ops : ops[k].i \in first .. last }
      inserted(I) == \A k \in I : ops[k].op = "ins"
  IN { k \in DOMAIN ops : inner # {} /\ \/ k \in Least(inner) .. Greatest(inner)
                                        \/ k < Least(inner) /\ inserted(k .. Least(inner) - 1)
                                        \/ k > Greatest(inner) /\ inserted(Greatest(inner) + 1 .. k) }

\* Mutant: insertions at the edge of the span are cut off.
ProjectSpanInner(ops, hyp, first, last) ==
  LET js == { ops[k].j : k \in { n \in DOMAIN ops : ops[n].i \in first .. last } } \ {0}
  IN IF js = {} THEN <<>> ELSE SubSeq(hyp, Least(js), Greatest(js))

ProjectSpan(ops, hyp, first, last) ==
  LET js == { ops[k].j : k \in Touched(ops, first, last) } \ {0}
  IN IF js = {} THEN <<>> ELSE SubSeq(hyp, Least(js), Greatest(js))
=============================================================================
