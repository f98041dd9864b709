----------------------------- MODULE MCJobRows ------------------------------
(***************************************************************************)
(* What happens to rows, in two models that share no variable, each run    *)
(* with the other at rest.  JobStore: two jobs, of one recording each, one *)
(* transcript and one result, callers with budget 2 (one resume), one      *)
(* crash, two readings of the clock, and rows of a version that had        *)
(* another state.  JobRehydrate: every row with at most two failures.      *)
(***************************************************************************)
EXTENDS JobRehydrate, JobStore, Sequences

CONSTANTS t1, r1, a1

MCTranscripts == {t1}
MCResults == {r1}
MCErrors == {}
MCBudgets == {2}
MCIds == {1, 2}
MCAudios == {a1}
MCText == [x \in State \cup Event |-> "'" \o x \o "'"]
MCStrange == {"'retrying'"}

MCInit == \/ Init /\ SInit
          \/ InitRow /\ SInit /\ source = "sequential"

RowsAtRest == held = None /\ now = 0 /\ rows = [i \in Ids |-> None]

MCNext == \/ SNext /\ job = NewJob /\ UNCHANGED vars
          \/ Next /\ RowsAtRest /\ UNCHANGED svars

MCSpec == MCInit /\ [][MCNext]_<<vars, svars>>
=============================================================================
