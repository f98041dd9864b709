----------------------------- MODULE JobDelivery -----------------------------
(***************************************************************************)
(* The core behind an at-least-once queue: one stored job, a driver that   *)
(* reads the row and sends the next command, an STT provider and a         *)
(* detector that answer late, twice or not at all, time-outs that race the *)
(* answers, and a worker that can crash before it acknowledges a message   *)
(* it has applied.  src/ holds only the core and names these parts (its    *)
(* docstrings speak of redelivery, of a crash before the ack, of resuming  *)
(* from the stored row); they are external, and as weak as the core's own  *)
(* words allow.                                                            *)
(***************************************************************************)
EXTENDS JobMachine

CONSTANT ComputedOn   \* the transcript each detection result was computed on

ASSUME ComputedOnAssumption == ComputedOn \in [Results -> Transcripts]

VARIABLES
  queue,    \* calls sent and not yet acknowledged
  handed    \* transcripts that have been handed to the detector

dvars == <<job, submits, starts, applied, queue, handed>>

NoArgs(e, m) == [event |-> e, transcript_ref |-> None, result_ref |-> None,
                 error |-> None, max_attempts |-> m]

\* The command the driver sends on reading the row in a given state.
Command == [s \in {"uploaded", "transcribed", "analyzed", "failed"} |->
              CASE s = "uploaded"    -> "submit_stt"
                [] s = "transcribed" -> "start_analysis"
                [] s = "analyzed"    -> "commit"
                [] s = "failed"      -> "retry"]

Send(c) == queue' = queue \cup {c} /\ UNCHANGED <<job, submits, starts,
                                                  applied, handed>>

Drive == /\ job.state \in DOMAIN Command
         /\ \E m \in Budgets : Send(NoArgs(Command[job.state], m))

\* Any STT job ever submitted may answer at any time, more than once.
SttAnswers == /\ submits > 0
              /\ \E t \in Transcripts, m \in Budgets :
                   Send([NoArgs("stt_callback", m) EXCEPT !.transcript_ref = t])

\* So may any detection ever started, on the transcript it was given.
DetectorAnswers ==
  \E r \in Results, m \in Budgets :
    /\ ComputedOn[r] \in handed
    /\ Send([NoArgs("analysis_done", m) EXCEPT !.result_ref = r])

\* The driver gives up waiting for the stage it reads in the row.
TimesOut == /\ job.state \in Active
            /\ \E err \in Errors, m \in Budgets :
                 Send([NoArgs("fail", m) EXCEPT !.error = err])

\* A worker takes a queued call, applies it to the row and acknowledges it,
\* or crashes in between and leaves it to be delivered again.
Deliver(c) ==
  /\ c \in queue
  /\ \/ MoveForward(c)
     \/ FailStage(c)
     \/ ResumeStage(c)
     \/ GiveUp(c)
     \/ Absorb(c)
     \/ Refuse(c)
  /\ handed' = IF starts' # starts THEN handed \cup {job'.transcript_ref}
                                           ELSE handed
  /\ queue' \in {queue, queue \ {c}}

DInit == Init /\ queue = {} /\ handed = {}

DNext == \/ Drive
         \/ SttAnswers
         \/ DetectorAnswers
         \/ TimesOut
         \/ \E c \in Call : Deliver(c)

DSpec == DInit /\ [][DNext]_dvars

\* What the environment owes: the driver keeps reading the row, a stage that
\* gets no answer is eventually timed out, and no queued call is starved.
Fairness == /\ WF_dvars(Drive)
            /\ WF_dvars(TimesOut)
            /\ \A c \in Call : WF_dvars(Deliver(c))

FairDSpec == DSpec /\ Fairness

-----------------------------------------------------------------------------
(* Properties.                                                             *)

\* The result in the row was computed on the transcript in the row, although
\* callbacks of an abandoned submission and answers of a timed-out detection
\* may be the ones that were taken.
ResultOfTranscript ==
  job.result_ref # None => ComputedOn[job.result_ref] = job.transcript_ref

\* All detections, retried ones included, ran on one and the same transcript:
\* the one the row keeps.
OneTranscriptAnalysed == handed \subseteq {job.transcript_ref} \ {None}

\* Every job ends, delivered or given up, however calls are redelivered.
EventuallySettled == <>(job.state \in Terminal)

\* A computed result reaches DONE: neither a crash nor a redelivery between
\* ANALYZED and COMMIT loses it.
ResultDelivered == (job.result_ref # None) ~> (job.state = "done")
=============================================================================
