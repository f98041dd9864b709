---------------------------- MODULE MCFileOrder ----------------------------
(***************************************************************************)
(* Two golden flags and three predictions over three segments, with two    *)
(* golden types and one unknown label: overlaps of 1/3, 1/2, 2/3 and 1,    *)
(* ties, contested flags and predictions without a grounded quote.  The    *)
(* segments of the first golden flag are {1} or {1, 2}: segments are only  *)
(* compared with each other, so any other choice is a renaming.  The       *)
(* second file is the first one reversed, which turns round every pair.    *)
(***************************************************************************)
EXTENDS FileOrder

Few == { S \in SUBSET Segments : Cardinality(S) <= 2 }

MCGolds(i, places) == [id : {i}, type : FlagTypes, segs : places]

MCItem(ids, kinds, places, lost) == [id : ids, type : kinds, segs : places, ungrounded : lost]

MCFiles(ids1, ids2, ids3) ==
  /\ \E g \in MCGolds(1, {{1}, {1, 2}}), h \in MCGolds(2, Few \ {{}}) : golds = <<g, h>>
  /\ \E p \in MCItem(ids1, PredTypes, Few, {FALSE}), q \in MCItem(ids2, PredTypes, Few, {TRUE}),
        r \in MCItem(ids3, {1}, {{1}, {1, 2}}, {FALSE}) : file = <<p, q, r>>
  /\ perm = <<3, 2, 1>>
  /\ Start

\* Every id given, out of order, the last two equal or not.
FilesWithIds == MCFiles({2}, {1}, {1, 3})

\* No id given.
SpecNoIds == MCFiles({NoId}, {NoId}, {NoId}) /\ [][FNext]_fvars
=============================================================================
