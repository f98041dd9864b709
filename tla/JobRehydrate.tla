---------------------------- MODULE JobRehydrate ----------------------------
(***************************************************************************)
(* The core started from a stored row instead of from new_job: any         *)
(* combination of fields Job.__post_init__ accepts, damaged ones included. *)
(* It coerces strings to states (an unknown string raises and never        *)
(* becomes a row), but checks no combination; advance must cope.           *)
(***************************************************************************)
EXTENDS JobMachine

CONSTANT MaxStored   \* bound: the largest attempts a stored row carries

ASSUME MaxStoredAssumption == MaxStored \in Nat

StoredRow == { j \in [state          : State,
                      transcript_ref : Transcripts \cup {None},
                      result_ref     : Results \cup {None},
                      failed_from    : State \cup {None},
                      attempts       : 0 .. MaxStored,
                      error          : Errors \cup {None}] : j \in Job }

InitRow == job \in StoredRow /\ submits = 0 /\ starts = 0 /\ applied = {}

SpecRow == InitRow /\ [][Next]_vars

-----------------------------------------------------------------------------
(* Properties.                                                             *)

\* On a damaged row nothing is bought or concluded on an empty reference: no
\* detection starts without a transcript, no job turns DONE without a result,
\* and no step leaves or enters a checkpoint whose reference is missing.
NothingOnHollowRow ==
  [][/\ starts' # starts => job.transcript_ref # None
     /\ job.state # "done" /\ job'.state = "done" => job.result_ref # None
     /\ job' # job => Intact(job) /\ Intact(job')]_vars
=============================================================================
