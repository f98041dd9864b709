---------------------------- MODULE JobContract ----------------------------
(***************************************************************************)
(* What the pipeline core promises about one recording, without stages,    *)
(* attempts or retries: at most one transcript is ever obtained, at most   *)
(* one result is computed and only from a transcript, a result is never    *)
(* thrown away, and the job ends delivered or abandoned, once and for all. *)
(* The docstring of pipeline_core/state.py states these promises.          *)
(***************************************************************************)
CONSTANTS Transcripts, Results, None

VARIABLES transcript, result, verdict

vars == <<transcript, result, verdict>>

Init == transcript = None /\ result = None /\ verdict = "open"

Transcribe == /\ verdict = "open"
              /\ transcript = None
              /\ transcript' \in Transcripts
              /\ UNCHANGED <<result, verdict>>

Analyze == /\ verdict = "open"
           /\ transcript # None
           /\ result = None
           /\ result' \in Results
           /\ UNCHANGED <<transcript, verdict>>

Deliver == /\ verdict = "open"
           /\ transcript # None
           /\ result # None
           /\ verdict' = "delivered"
           /\ UNCHANGED <<transcript, result>>

\* Only a job whose result is still missing can be given up.
Abandon == /\ verdict = "open"
           /\ result = None
           /\ verdict' = "abandoned"
           /\ UNCHANGED <<transcript, result>>

Next == Transcribe \/ Analyze \/ Deliver \/ Abandon

Spec == Init /\ [][Next]_vars
=============================================================================
