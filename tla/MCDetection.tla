---------------------------- MODULE MCDetection -----------------------------
(***************************************************************************)
(* The detection benchmark: the three things it reads (MCDetectionInputs)  *)
(* and the files it scores (MCFileOrder).  The models share no variable,   *)
(* each is run with the others at rest.                                    *)
(***************************************************************************)
EXTENDS MCDetectionInputs, MCFileOrder

InputsAtRest == QuotesAtRest /\ GateAtRest /\ ParserAtRest

FilesAtRest == golds = <<>> /\ file = <<>> /\ perm = <<>> /\ Start

inputVars == <<qvars, gvars, rvars>>

BenchInit == \/ MCInit /\ FilesAtRest
             \/ FilesWithIds /\ InputsAtRest

BenchNext == \/ MCNext /\ FilesAtRest /\ UNCHANGED fvars
             \/ FNext /\ InputsAtRest /\ UNCHANGED inputVars

BenchSpec == BenchInit /\ [][BenchNext]_<<inputVars, fvars>>
=============================================================================
