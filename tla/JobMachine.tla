----------------------------- MODULE JobMachine -----------------------------
(***************************************************************************)
(* The pure core of the pipeline: pipeline_core/state.py.                  *)
(*                                                                         *)
(* A Job is a frozen snapshot; advance(job, event, ...) returns the next   *)
(* snapshot, returns the same one (an absorbed redelivery), or raises      *)
(* IllegalTransition.  The module lets a caller make ANY call with ANY     *)
(* arguments in ANY order, which is what an at-least-once, reordering and  *)
(* crashing environment can do to the core: what holds here holds of every *)
(* driver that only touches a job through advance.                         *)
(*                                                                         *)
(* id, audio_ref and the time stamp ts, which no decision reads, are left  *)
(* to JobStore.                                                            *)
(***************************************************************************)
EXTENDS JobRules

VARIABLES
  job,          \* the snapshot the last call returned
  submits,      \* history: SUBMIT_STT transitions, each a paid STT job
  starts,       \* history: START_ANALYSIS transitions, each a paid detection
  applied       \* history: forward events in effect since the checkpoint

vars == <<job, submits, starts, applied>>

-----------------------------------------------------------------------------
(* The steps: one per way out of advance.                                  *)

MoveForward(c) ==
  \E edge \in Forward :
    /\ Takes(job, c, edge)
    /\ job' = Moved(job, c, edge.tgt)
    /\ submits' = submits + (IF c.event = "submit_stt" THEN 1 ELSE 0)
    /\ starts' = starts + (IF c.event = "start_analysis" THEN 1 ELSE 0)
    /\ applied' = applied \cup {c.event}

FailStage(c) ==
  /\ MayFail(job, c)
  /\ job' = Failed(job, c)
  /\ applied' = applied \ {IF job.state = "transcribing" THEN "submit_stt"
                                                        ELSE "start_analysis"}
  /\ UNCHANGED <<submits, starts>>

ResumeStage(c) ==
  /\ MayResume(job, c)
  /\ job' = Resumed(job)
  /\ UNCHANGED <<submits, starts, applied>>

GiveUp(c) ==
  /\ MustGiveUp(job, c)
  /\ job' = GivenUp(job)
  /\ UNCHANGED <<submits, starts, applied>>

Absorb(c) == Absorbs(job, c) /\ UNCHANGED vars

Refuse(c) == Refuses(job, c) /\ UNCHANGED vars

Init == job = NewJob /\ submits = 0 /\ starts = 0 /\ applied = {}

Next == \E c \in Call : \/ MoveForward(c)
                        \/ FailStage(c)
                        \/ ResumeStage(c)
                        \/ GiveUp(c)
                        \/ Absorb(c)
                        \/ Refuse(c)

Spec == Init /\ [][Next]_vars

-----------------------------------------------------------------------------
(* Invariants.                                                             *)

TypeOK == /\ job \in Job
          /\ submits \in Nat
          /\ starts \in Nat
          /\ applied \subseteq ForwardEvent

\* The stage the job is in, or the one whose failure it is recovering from.
Stage(j) == IF j.state \in {"failed", "permanently_failed"}
            THEN j.failed_from ELSE j.state

\* A job carries exactly the references its history has paid for, through
\* every failure and resume: a transcript from TRANSCRIBED on (and while a
\* failed ANALYZING waits), a result from ANALYZED on, the failed stage and
\* the error only while failed.  _check_state_invariant re-checks two states
\* only; the lineage of the other six rests on the transitions alone.
Lineage ==
  /\ Stage(job) \in State
  /\ job.failed_from # None <=> job.state \in {"failed", "permanently_failed"}
  /\ job.failed_from # None => job.failed_from \in Active
  /\ job.transcript_ref # None <=> Order[Stage(job)] >= Order["transcribed"]
  /\ job.result_ref # None <=> Order[Stage(job)] >= Order["analyzed"]
  /\ job.error # None => job.failed_from # None

\* The retry budget, whatever mixture of max_attempts the callers pass: a
\* running job was resumed under some caller's budget, a failed one is at
\* most at that budget, and a job is given up only with a budget used up.
BudgetKept ==
  /\ job.failed_from = None =>
       job.attempts = 0 \/ \E b \in Budgets : job.attempts < b
  /\ job.state = "failed" =>
       /\ job.attempts > 0
       /\ job.attempts = 1 \/ \E b \in Budgets : job.attempts <= b
  /\ job.state = "permanently_failed" => \E b \in Budgets : b <= job.attempts

\* No paid call is lost or doubled: each STT job and each detection run is
\* one counted failure, the one transcript, the one result, or the single
\* call still outstanding (crashes, duplicates and retries included).
CallsAccounted ==
  submits + starts =
    job.attempts + (IF job.transcript_ref # None THEN 1 ELSE 0)
                 + (IF job.result_ref # None THEN 1 ELSE 0)
                 + (IF job.state \in Active THEN 1 ELSE 0)

\* At-least-once delivery is absorbed: while the job runs, redelivering any
\* forward event already in effect, with any arguments (even none), is a
\* no-op and never an error; so is the COMMIT that made the job DONE.
RedeliveryAbsorbed ==
  \A c \in Call :
    /\ c.event \in applied
    /\ \/ job.state \in HappyPath \ Terminal
       \/ job.state = "done" /\ c.event = "commit"
    => Absorbs(job, c) /\ ~Refuses(job, c)

-----------------------------------------------------------------------------
(* Action properties.                                                      *)

\* What has been paid for is kept and never bought again: a transcript is
\* written once and ends all STT submissions, a result is written once and
\* ends all detections (the exactly-once seam of ANALYZED).
PaidWorkKept ==
  [][/\ job.transcript_ref # None => /\ job'.transcript_ref = job.transcript_ref
                                     /\ submits' = submits
     /\ job.result_ref # None => /\ job'.result_ref = job.result_ref
                                 /\ starts' = starts]_vars

\* Later(j, k): k is strictly after j in the order no job can go back in,
\* failures first, then the stage (a failed job waits below its checkpoint).
Rank(j) == CASE j.state = "failed"             -> 0
             [] j.state \in HappyPath          -> Order[j.state] + 1
             [] j.state = "permanently_failed" -> 6

Later(j, k) == \/ k.attempts > j.attempts
               \/ k.attempts = j.attempts /\ Rank(k) > Rank(j)

\* A job never returns to a snapshot it has left: every call that changes it
\* moves it strictly on, so with BudgetKept every sequence of calls, however
\* long and however redelivered, changes it finitely often.
NeverRepeats == [][job' # job => Later(job, job')]_vars

-----------------------------------------------------------------------------
(* What a user of the pipeline sees of a job: JobContract.                 *)

Verdict == CASE job.state = "done"               -> "delivered"
             [] job.state = "permanently_failed" -> "abandoned"
             [] OTHER                            -> "open"

Contract == INSTANCE JobContract
            WITH transcript <- job.transcript_ref,
                 result     <- job.result_ref,
                 verdict    <- Verdict

\* The state machine implements the contract: retries, failures and
\* redeliveries are invisible but for the one transcript, the one result and
\* the one verdict.
ImplementsContract == Contract!Spec
=============================================================================
