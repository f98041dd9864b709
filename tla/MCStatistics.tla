---------------------------- MODULE MCStatistics ----------------------------
(***************************************************************************)
(* The verdicts and Holm's procedure side by side; they share no state, so *)
(* each is run with the other on one small input.                          *)
(*                                                                         *)
(* One detector: every multiset of up to seven meetings with no, one or    *)
(* two golden flags (the order of the meetings enters only sums), targets  *)
(* 0, 0.2, 0.5 and 0.8, and 0.85 for up to five meetings (TLC's integers   *)
(* hold 40 * 20^5 and not 40 * 20^6), both estimands, alpha and floor of   *)
(* the preregistration.  Two: up to four meetings at alpha 1/4 (floor 3),  *)
(* six at alpha 1/20 (floor 6) and lists with repeated, missing or         *)
(* differently scored meetings.                                            *)
(* Families: up to four tests with p-values around alpha, alpha / 2,       *)
(* alpha / 3 and alpha / 4, and some that are no p-values at all.          *)
(***************************************************************************)
EXTENDS Verdicts, Holm

Estimands == {"meeting_weighted", "flag_weighted"}

Kinds == <<[k |-> 0, n |-> 0], [k |-> 0, n |-> 1], [k |-> 1, n |-> 1],
           [k |-> 0, n |-> 2], [k |-> 1, n |-> 2], [k |-> 2, n |-> 2]>>

Sorted(n) == { f \in [1 .. n -> DOMAIN Kinds] : \A i \in 1 .. n - 1 : f[i] <= f[i + 1] }

Score(len, targets) ==
  { [kind |-> "single", meetings |-> [i \in DOMAIN f |-> Kinds[f[i]]],
     target |-> t, estimand |-> e, floor |-> 6, num |-> 1, den |-> 20] :
      f \in UNION { Sorted(n) : n \in 0 .. len }, t \in targets, e \in Estimands }

Tenths == { [num |-> t, den |-> 10] : t \in {0, 2, 5, 8} }

MCSingles == Score(7, Tenths) \cup Score(5, {[num |-> 17, den |-> 20]})

Names == <<"m1", "m2", "m3", "m4", "m5", "m6">>

Cluster(i, k, n) == [id |-> Names[i], k |-> k, n |-> n]

\* hits of A and of B among the two golden flags of a meeting
Hits == {<<0, 0>>, <<1, 0>>, <<2, 0>>, <<2, 2>>, <<0, 1>>, <<0, 2>>}

Compare(h, num, den) ==
  [a |-> [i \in DOMAIN h |-> Cluster(i, h[i][1], 2)],
   b |-> [i \in DOMAIN h |-> Cluster(i, h[i][2], 2)],
   kind |-> "paired", num |-> num, den |-> den]

Quarter == { Compare(h, 1, 4) : h \in UNION { [1 .. n -> Hits] : n \in 0 .. 4 } }

Twentieth ==
  { Compare(<<<<1, 0>>, <<2, 0>>, <<1, 0>>>> \o h, 1, 20) :
      h \in [1 .. 3 -> {<<1, 0>>, <<2, 2>>, <<0, 2>>}] }

Lists == UNION { [1 .. n -> { Cluster(i, k, n2) : i \in {1, 2}, k \in {0, 1}, n2 \in {1, 2} }] :
                   n \in 0 .. 2 }

Untidy == { [kind |-> "paired", a |-> x, b |-> y, num |-> 1, den |-> 2] : x, y \in Lists }

MCPaireds == Quarter \cup Twentieth \cup Untidy

MCFamilies == UNION { [1 .. n -> {0, 3, 4, 5, 6, 7, 12, 13, 48, 49}] : n \in 0 .. 4 }

MCInit ==
  \/ p = <<>> /\ Init /\ VInit
  \/ input = [kind |-> "paired", a |-> <<>>, b |-> <<>>, num |-> 1, den |-> 2] /\ VInit /\ Init

MCNext == (VNext /\ UNCHANGED vars) \/ (Next /\ UNCHANGED vvars)

MCSpec == MCInit /\ [][MCNext]_<<vars, vvars>>
=============================================================================
