---------------------------- MODULE MCJobMachine ----------------------------
(***************************************************************************)
(* Model-checking instance of JobMachine: two transcripts and two results, *)
(* so that an overwrite shows, one error text, and callers that disagree   *)
(* on the retry budget (0: give up at once; 1; 3: the code's default).     *)
(***************************************************************************)
EXTENDS JobMachine

CONSTANTS t1, t2, r1, r2, boom

MCTranscripts == {t1, t2}
MCResults == {r1, r2}
MCErrors == {boom}
MCBudgets == {0, 1, 3}
=============================================================================
