---------------------------- MODULE MCJobDelivery ----------------------------
(***************************************************************************)
(* Two transcripts, one result computed on each, one error text and one    *)
(* budget: enough for a callback of the first submission to be taken by    *)
(* the second one and for a detection to be retried.                       *)
(***************************************************************************)
EXTENDS JobDelivery

CONSTANTS t1, t2, r1, r2, boom

MCTranscripts == {t1, t2}
MCResults == {r1, r2}
MCErrors == {boom}
MCBudgets == {2}
MCComputedOn == [r \in MCResults |-> IF r = r1 THEN t1 ELSE t2]
=============================================================================
