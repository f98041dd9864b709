------------------------------ MODULE JobRules ------------------------------
(***************************************************************************)
(* The tables and the tests of pipeline_core/state.py: what one call of    *)
(* advance makes of one snapshot.  No variables: JobMachine keeps the      *)
(* snapshot as its state, JobStore keeps many in memory and in rows.       *)
(***************************************************************************)
EXTENDS Integers, FiniteSets

CONSTANTS
  Transcripts,  \* the references a transcript may have
  Results,      \* the references a detection result may have
  Errors,       \* the error texts a FAIL may carry
  Budgets,      \* the values callers pass as max_attempts
  None          \* Python's None

ASSUME BudgetAssumption == Budgets \subseteq Nat

-----------------------------------------------------------------------------
(* The tables of the state machine.                                        *)

HappyPath == {"uploaded", "transcribing", "transcribed",
              "analyzing", "analyzed", "done"}

State == HappyPath \cup {"failed", "permanently_failed"}

ASSUME NoneAssumption ==
  None \notin Transcripts \cup Results \cup Errors \cup State

Edge(e, s, t) == [event |-> e, src |-> s, tgt |-> t]

Forward ==
  { Edge("submit_stt",     "uploaded",     "transcribing"),
    Edge("stt_callback",   "transcribing", "transcribed"),
    Edge("start_analysis", "transcribed",  "analyzing"),
    Edge("analysis_done",  "analyzing",    "analyzed"),
    Edge("commit",         "analyzed",     "done") }

ForwardEvent == {"submit_stt", "stt_callback", "start_analysis",
                 "analysis_done", "commit"}

Event == ForwardEvent \cup {"fail", "retry"}

\* Position on the happy path, as _linear_order derives it from the edges.
Order == [s \in HappyPath |-> CASE s = "uploaded"     -> 0
                                [] s = "transcribing" -> 1
                                [] s = "transcribed"  -> 2
                                [] s = "analyzing"    -> 3
                                [] s = "analyzed"     -> 4
                                [] s = "done"         -> 5]

Terminal == {"done", "permanently_failed"}

\* The event that made a terminal state; only its redelivery is absorbed.
Made(s, e) == \/ s = "done" /\ e = "commit"
              \/ s = "permanently_failed" /\ e = "retry"

\* The stages that do outside work and so may fail.
Active == {"transcribing", "analyzing"}

\* Mutant: every failure restarts from the upload.
ResumePointUpload == [s \in Active |-> "uploaded"]

\* The checkpoint a failed stage resumes from.
ResumePoint == [s \in Active |-> IF s = "transcribing" THEN "uploaded"
                                                       ELSE "transcribed"]

-----------------------------------------------------------------------------
(* Jobs and calls.                                                         *)

\* Every row the constructor accepts, sound or not.
Job == [state          : State,
        transcript_ref : Transcripts \cup {None},
        result_ref     : Results \cup {None},
        failed_from    : State \cup {None},
        attempts       : Nat,
        error          : Errors \cup {None}]

Call == [event          : Event,
         transcript_ref : Transcripts \cup {None},
         result_ref     : Results \cup {None},
         error          : Errors \cup {None},
         max_attempts   : Budgets]

NewJob == [state |-> "uploaded", transcript_ref |-> None, result_ref |-> None,
           failed_from |-> None, attempts |-> 0, error |-> None]

\* _STATE_REQUIRES: the references a checkpoint stands for.
Required(j) == CASE j.state = "transcribed" -> {j.transcript_ref}
                 [] j.state = "analyzed"    -> {j.result_ref}
                 [] OTHER                   -> {}

\* _check_state_invariant.
Intact(j) == None \notin Required(j)

\* Mutant: the callback's transcript is not required.
ArgsPresentLax(c) == c.event = "analysis_done" => c.result_ref # None

\* The arguments a real forward transition cannot do without.
ArgsPresent(c) == /\ c.event = "stt_callback"  => c.transcript_ref # None
                  /\ c.event = "analysis_done" => c.result_ref # None

-----------------------------------------------------------------------------
(* What a call does to a job.                                              *)

Moved(j, c, tgt) ==
  [j EXCEPT !.state = tgt,
            !.transcript_ref = IF c.event = "stt_callback"
                               THEN c.transcript_ref ELSE @,
            !.result_ref     = IF c.event = "analysis_done"
                               THEN c.result_ref ELSE @]

\* Mutant: a failure is not counted against the budget.
FailedUncounted(j, c) == [j EXCEPT !.state = "failed", !.failed_from = j.state,
                                   !.error = c.error]

Failed(j, c) == [j EXCEPT !.state = "failed", !.failed_from = j.state,
                          !.attempts = @ + 1, !.error = c.error]

\* Mutant: a retry passes through the RETRYING state the design dropped.
ResumedRetrying(j) == [j EXCEPT !.state = "retrying", !.failed_from = None,
                                !.error = None]

Resumed(j) == [j EXCEPT !.state = ResumePoint[j.failed_from],
                        !.failed_from = None, !.error = None]

GivenUp(j) == [j EXCEPT !.state = "permanently_failed"]

\* Mutant: the entry check is forgotten on forward events.
TakesUnchecked(j, c, edge) ==
  /\ edge.event = c.event
  /\ j.state = edge.src
  /\ ArgsPresent(c)

Takes(j, c, edge) ==
  /\ Intact(j)
  /\ edge.event = c.event
  /\ j.state = edge.src
  /\ ArgsPresent(c)

\* Mutant: a computed result may still fail before its commit.
MayFailAnalyzed(j, c) == c.event = "fail" /\ j.state \in Active \cup {"analyzed"}

MayFail(j, c) == c.event = "fail" /\ j.state \in Active

\* Mutant: one retry too many.
MayResumeOnceMore(j, c) ==
  /\ c.event = "retry"
  /\ j.state = "failed"
  /\ j.attempts <= c.max_attempts
  /\ j.failed_from \in Active
  /\ Intact(Resumed(j))

MayResume(j, c) ==
  /\ c.event = "retry"
  /\ j.state = "failed"
  /\ j.attempts < c.max_attempts
  /\ j.failed_from \in Active
  /\ Intact(Resumed(j))

\* Mutant: a used-up budget is noticed one failure too late.
MustGiveUpLate(j, c) ==
  /\ c.event = "retry"
  /\ j.state = "failed"
  /\ j.attempts > c.max_attempts

MustGiveUp(j, c) ==
  /\ c.event = "retry"
  /\ j.state = "failed"
  /\ j.attempts >= c.max_attempts

\* Mutant: only stages beyond the target absorb, not the target itself.
AbsorbsStrictly(j, c) ==
  /\ Intact(j)
  /\ \/ j.state \in Terminal /\ Made(j.state, c.event)
     \/ /\ j.state \in HappyPath \ Terminal
        /\ \E edge \in Forward : /\ edge.event = c.event
                                 /\ Order[j.state] > Order[edge.tgt]

\* A redelivery: the job has reached or passed the target, or the call
\* repeats the one that made the job terminal.
Absorbs(j, c) ==
  /\ Intact(j)
  /\ \/ j.state \in Terminal /\ Made(j.state, c.event)
     \/ /\ j.state \in HappyPath \ Terminal
        /\ \E edge \in Forward : /\ edge.event = c.event
                                 /\ Order[j.state] >= Order[edge.tgt]

\* The places advance raises, in its order.
Refuses(j, c) ==
  \/ ~Intact(j)
  \/ j.state \in Terminal /\ ~Made(j.state, c.event)
  \/ c.event = "fail" /\ j.state \notin Active \cup Terminal
  \/ c.event = "retry" /\ j.state \notin {"failed"} \cup Terminal
  \/ /\ c.event = "retry" /\ j.state = "failed"
     /\ j.attempts < c.max_attempts
     /\ j.failed_from \in Active => ~Intact(Resumed(j))
  \/ \E edge \in Forward :
       /\ edge.event = c.event
       /\ \/ j.state = edge.src /\ ~ArgsPresent(c)
          \/ /\ j.state \in HappyPath \ Terminal
             /\ Order[j.state] < Order[edge.src]
          \/ j.state = "failed"
=============================================================================
