------------------------------ MODULE JobProofs ------------------------------
(***************************************************************************)
(* Theorems about the pipeline, for every set of references, errors and    *)
(* budgets.  JobMachine first: IInv is its inductive invariant, the type,  *)
(* the lineage of the references, the budget, the balance of the paid      *)
(* calls and, for the redelivery theorem, how far the events in effect     *)
(* have taken the job.                                                     *)
(*                                                                         *)
(* Then what may start from any row, damaged ones included (JobRehydrate), *)
(* and the provenance of the stored result behind an at-least-once queue   *)
(* (JobDelivery). DInv ties together the row, the transcripts handed to    *)
(* the detector and the answers still queued: a late answer is sound only  *)
(* because every detection ever started was given the transcript the row   *)
(* still holds.                                                            *)
(*                                                                         *)
(* Last the store (JobStore): its invariant follows one paid call from the *)
(* transition in memory that stands for it, over the payment, to the row   *)
(* that accounts for it; a crash in between leaves a call without a row.   *)
(***************************************************************************)
EXTENDS JobRehydrate, JobDelivery, JobStore, TLAPS

\* Where a job stands, or will stand once its failure is retried.
Checkpoint(j) == IF j.state \in {"failed", "permanently_failed"}
                 THEN ResumePoint[j.failed_from] ELSE j.state

\* No forward event is in effect beyond the place the job has kept.
AppliedReached ==
  \A edge \in Forward :
    edge.event \in applied => Order[edge.tgt] <= Order[Checkpoint(job)]

IInv == TypeOK /\ Lineage /\ BudgetKept /\ CallsAccounted /\ AppliedReached

-----------------------------------------------------------------------------
LEMMA InitIInv == Init => IInv
BY NoneAssumption
   DEF Init, IInv, TypeOK, Lineage, BudgetKept, CallsAccounted, AppliedReached,
       NewJob, Job, Stage, State, HappyPath, Active, Order, Forward, Edge,
       Checkpoint

\* Every call keeps the types, from any typed row, sound or damaged.
LEMMA TypeStep == TypeOK /\ [Next]_vars => TypeOK'
<1> SUFFICES ASSUME TypeOK, [Next]_vars PROVE TypeOK'
  OBVIOUS
<1>1. CASE UNCHANGED vars
  BY <1>1 DEF TypeOK, vars
<1>2. ASSUME NEW c \in Call, MoveForward(c) PROVE TypeOK'
  <2> PICK edge \in Forward :
        /\ Takes(job, c, edge)
        /\ job' = Moved(job, c, edge.tgt)
        /\ submits' = submits + (IF c.event = "submit_stt" THEN 1 ELSE 0)
        /\ starts' = starts + (IF c.event = "start_analysis" THEN 1 ELSE 0)
        /\ applied' = applied \cup {c.event}
    BY <1>2 DEF MoveForward
  <2>1. job' \in Job
    <3>1. /\ edge.tgt \in State
          /\ c.transcript_ref \in Transcripts \cup {None}
          /\ c.result_ref \in Results \cup {None}
      BY DEF Call, State, HappyPath, Forward, Edge
    <3> QED
      BY <3>1 DEF TypeOK, Job, Moved
  <2>2. submits' \in Nat /\ starts' \in Nat
    BY DEF TypeOK
  <2>3. applied' \subseteq ForwardEvent
    <3>1. c.event \in ForwardEvent
      BY DEF ForwardEvent, Takes, Forward, Edge
    <3> QED
      BY <3>1 DEF TypeOK
  <2> QED
    BY <2>1, <2>2, <2>3 DEF TypeOK
<1>3. ASSUME NEW c \in Call, FailStage(c) PROVE TypeOK'
  <2>1. job' \in Job
    <3>1. "failed" \in State /\ c.error \in Errors \cup {None}
      BY DEF Call, State
    <3>2. job \in Job /\ job.state \in State \cup {None} /\ job.attempts + 1 \in Nat
      BY DEF TypeOK, Job
    <3> QED
      BY <1>3, <3>1, <3>2 DEF Job, FailStage, Failed
  <2>2. applied' \subseteq ForwardEvent
    BY <1>3 DEF TypeOK, FailStage
  <2> QED
    BY <1>3, <2>1, <2>2 DEF TypeOK, FailStage
<1>4. ASSUME NEW c \in Call, ResumeStage(c) PROVE TypeOK'
  BY <1>4 DEF TypeOK, Job, State, HappyPath, ResumeStage, MayResume, Resumed,
              Active, ResumePoint
<1>5. ASSUME NEW c \in Call, GiveUp(c) PROVE TypeOK'
  BY <1>5 DEF TypeOK, Job, State, GiveUp, GivenUp
<1>6. ASSUME NEW c \in Call, Absorb(c) \/ Refuse(c) PROVE TypeOK'
  BY <1>1, <1>6 DEF Absorb, Refuse
<1> QED
  BY <1>1, <1>2, <1>3, <1>4, <1>5, <1>6 DEF Next

\* One real forward transition.
LEMMA MoveIInv ==
  ASSUME IInv, NEW c \in Call, MoveForward(c)
  PROVE  IInv'
<1> PICK edge \in Forward :
      /\ Takes(job, c, edge)
      /\ job' = Moved(job, c, edge.tgt)
      /\ submits' = submits + (IF c.event = "submit_stt" THEN 1 ELSE 0)
      /\ starts' = starts + (IF c.event = "start_analysis" THEN 1 ELSE 0)
      /\ applied' = applied \cup {c.event}
  BY DEF MoveForward
<1> USE NoneAssumption DEF Takes, Moved, Forward, Edge
<1>1. TypeOK'
  BY TypeStep DEF IInv, Next
<1>2. Lineage'
  BY DEF IInv, TypeOK, Lineage, Job, Call, State, HappyPath, Stage, Order,
         Active, ArgsPresent
<1>3. BudgetKept'
  BY DEF IInv, TypeOK, Lineage, BudgetKept, Job, State, HappyPath, Active
<1>4. CallsAccounted'
  BY DEF IInv, TypeOK, Lineage, CallsAccounted, Job, Call, State, HappyPath,
         Stage, Order, Active, ArgsPresent
<1>5. AppliedReached'
  BY DEF IInv, TypeOK, AppliedReached, Job, State, HappyPath, Order, Checkpoint
<1> QED
  BY <1>1, <1>2, <1>3, <1>4, <1>5 DEF IInv

\* The failure of an active stage.
LEMMA FailIInv ==
  ASSUME IInv, NEW c \in Call, FailStage(c)
  PROVE  IInv'
<1> USE NoneAssumption DEF FailStage, MayFail, Failed, Active
<1>1. TypeOK'
  BY TypeStep DEF IInv, Next
<1>2. Lineage'
  BY DEF IInv, TypeOK, Lineage, Job, State, HappyPath, Stage, Order
<1>3. BudgetKept'
  BY BudgetAssumption
     DEF IInv, TypeOK, Lineage, BudgetKept, Job, State, HappyPath
<1>4. CallsAccounted'
  BY DEF IInv, TypeOK, CallsAccounted, Job
<1>5. AppliedReached'
  BY DEF IInv, TypeOK, Lineage, AppliedReached, Job, State, HappyPath, Order,
         Checkpoint, ResumePoint, Forward, Edge
<1> QED
  BY <1>1, <1>2, <1>3, <1>4, <1>5 DEF IInv

\* A retry within the budget.
LEMMA ResumeIInv ==
  ASSUME IInv, NEW c \in Call, ResumeStage(c)
  PROVE  IInv'
<1> USE NoneAssumption DEF ResumeStage, MayResume, Resumed, Active, ResumePoint
<1>1. TypeOK'
  BY TypeStep DEF IInv, Next
<1>2. Lineage'
  BY DEF IInv, TypeOK, Lineage, Job, State, HappyPath, Stage, Order
<1>3. BudgetKept'
  BY DEF IInv, TypeOK, BudgetKept, Job, Call
<1>4. CallsAccounted'
  BY DEF IInv, TypeOK, CallsAccounted, Job
<1>5. AppliedReached'
  BY DEF IInv, TypeOK, AppliedReached, Job, State, HappyPath, Order, Checkpoint,
         Forward, Edge
<1> QED
  BY <1>1, <1>2, <1>3, <1>4, <1>5 DEF IInv

\* A retry beyond the budget.
LEMMA GiveUpIInv ==
  ASSUME IInv, NEW c \in Call, GiveUp(c)
  PROVE  IInv'
<1> USE NoneAssumption DEF GiveUp, MustGiveUp, GivenUp
<1>1. TypeOK'
  BY TypeStep DEF IInv, Next
<1>2. Lineage'
  BY DEF IInv, TypeOK, Lineage, Job, Stage
<1>3. BudgetKept'
  BY DEF IInv, TypeOK, Lineage, BudgetKept, Job, Call
<1>4. CallsAccounted'
  BY DEF IInv, TypeOK, CallsAccounted, Job, Active
<1>5. AppliedReached'
  BY DEF IInv, TypeOK, AppliedReached, Job, Checkpoint
<1> QED
  BY <1>1, <1>2, <1>3, <1>4, <1>5 DEF IInv

LEMMA StutterIInv == IInv /\ UNCHANGED vars => IInv'
BY DEF IInv, TypeOK, Lineage, BudgetKept, CallsAccounted, AppliedReached, vars,
       Stage, Checkpoint

LEMMA NextIInv == IInv /\ [Next]_vars => IInv'
<1> SUFFICES ASSUME IInv, [Next]_vars PROVE IInv'
  OBVIOUS
<1>1. CASE UNCHANGED vars
  BY <1>1, StutterIInv
<1>2. ASSUME NEW c \in Call, MoveForward(c) PROVE IInv'
  BY <1>2, MoveIInv
<1>3. ASSUME NEW c \in Call, FailStage(c) PROVE IInv'
  BY <1>3, FailIInv
<1>4. ASSUME NEW c \in Call, ResumeStage(c) PROVE IInv'
  BY <1>4, ResumeIInv
<1>5. ASSUME NEW c \in Call, GiveUp(c) PROVE IInv'
  BY <1>5, GiveUpIInv
<1>6. ASSUME NEW c \in Call, Absorb(c) \/ Refuse(c) PROVE IInv'
  BY <1>6, StutterIInv DEF Absorb, Refuse
<1> QED
  BY <1>1, <1>2, <1>3, <1>4, <1>5, <1>6 DEF Next

LEMMA Invariance == Spec => []IInv
BY InitIInv, NextIInv, PTL DEF Spec

-----------------------------------------------------------------------------
(* The theorems.                                                           *)

\* The type invariant: every field of a job and every counter keeps its type
\* through every call.
THEOREM TypeCorrect == Spec => []TypeOK
BY Invariance, PTL DEF IInv

\* A job carries exactly the references its history has paid for.
THEOREM LineageHolds == Spec => []Lineage
BY Invariance, PTL DEF IInv

\* Retries stay within some caller's budget, for every set of budgets.
THEOREM BudgetHolds == Spec => []BudgetKept
BY Invariance, PTL DEF IInv

\* Every paid call is a failure, the transcript, the result or outstanding.
THEOREM CallsBalance == Spec => []CallsAccounted
BY Invariance, PTL DEF IInv

\* Redelivered forward events are absorbed as long as the job runs.
LEMMA IInvAbsorbs == IInv => RedeliveryAbsorbed
<1> SUFFICES ASSUME IInv, NEW c \in Call, c.event \in applied,
                    \/ job.state \in HappyPath \ Terminal
                    \/ job.state = "done" /\ c.event = "commit"
             PROVE  Absorbs(job, c) /\ ~Refuses(job, c)
  BY DEF RedeliveryAbsorbed
<1>1. Intact(job)
  BY DEF IInv, Lineage, Intact, Required, Stage, Order, HappyPath
<1>2. CASE job.state = "done" /\ c.event = "commit"
  BY <1>1, <1>2 DEF Absorbs, Refuses, Made, Terminal, Forward, Edge, Active
<1>3. CASE job.state \in HappyPath \ Terminal
  <2>1. PICK edge \in Forward : edge.event = c.event
    BY DEF IInv, TypeOK, ForwardEvent, Forward, Edge
  <2>2. Order[edge.tgt] <= Order[job.state]
    BY <1>3, <2>1 DEF IInv, AppliedReached, Checkpoint, HappyPath, Terminal
  <2>3. Absorbs(job, c)
    BY <1>1, <1>3, <2>1, <2>2, SMT
       DEF Absorbs, HappyPath, Terminal, Order, Forward, Edge
  <2>4. ~Refuses(job, c)
    BY <1>1, <1>3, <2>1, <2>2
       DEF Refuses, HappyPath, Terminal, Order, Forward, Edge, Active
  <2> QED
    BY <2>3, <2>4
<1> QED
  BY <1>2, <1>3

THEOREM RedeliveriesAbsorbed == Spec => []RedeliveryAbsorbed
BY Invariance, IInvAbsorbs, PTL

\* Nothing paid for is overwritten or bought twice.
LEMMA StepKeepsPaidWork ==
  ASSUME IInv, [Next]_vars
  PROVE  [/\ job.transcript_ref # None =>
                /\ job'.transcript_ref = job.transcript_ref
                /\ submits' = submits
          /\ job.result_ref # None =>
                /\ job'.result_ref = job.result_ref
                /\ starts' = starts]_vars
<1>1. ASSUME NEW c \in Call, NEW edge \in Forward, Takes(job, c, edge),
             job' = Moved(job, c, edge.tgt),
             submits' = submits + (IF c.event = "submit_stt" THEN 1 ELSE 0),
             starts' = starts + (IF c.event = "start_analysis" THEN 1 ELSE 0)
      PROVE  /\ job.transcript_ref # None =>
                /\ job'.transcript_ref = job.transcript_ref
                /\ submits' = submits
             /\ job.result_ref # None =>
                /\ job'.result_ref = job.result_ref
                /\ starts' = starts
  <2>1. /\ job.transcript_ref # None => c.event \notin {"submit_stt", "stt_callback"}
        /\ job.result_ref # None => c.event \notin {"start_analysis", "analysis_done"}
    BY <1>1 DEF IInv, Lineage, Stage, Order, HappyPath, Takes, Forward, Edge
  <2>2. /\ c.event # "stt_callback" => job'.transcript_ref = job.transcript_ref
        /\ c.event # "analysis_done" => job'.result_ref = job.result_ref
    BY <1>1 DEF IInv, TypeOK, Job, Moved
  <2>3. submits \in Nat /\ starts \in Nat
    BY DEF IInv, TypeOK
  <2>4. /\ c.event # "submit_stt" => submits' = submits
        /\ c.event # "start_analysis" => starts' = starts
    BY <1>1, <2>3
  <2> QED
    BY <2>1, <2>2, <2>4
<1>2. ASSUME NEW c \in Call, MoveForward(c)
      PROVE  /\ job.transcript_ref # None =>
                /\ job'.transcript_ref = job.transcript_ref
                /\ submits' = submits
             /\ job.result_ref # None =>
                /\ job'.result_ref = job.result_ref
                /\ starts' = starts
  BY <1>1, <1>2 DEF MoveForward
<1>3. ASSUME NEW c \in Call,
             \/ FailStage(c)
             \/ ResumeStage(c)
             \/ GiveUp(c)
             \/ Absorb(c)
             \/ Refuse(c)
      PROVE  UNCHANGED <<submits, starts, job.transcript_ref, job.result_ref>>
  BY <1>3 DEF IInv, TypeOK, Job, FailStage, Failed, ResumeStage, Resumed,
              GiveUp, GivenUp, Absorb, Refuse, vars
<1> QED
  BY <1>2, <1>3 DEF Next

THEOREM PaidWorkIsKept == Spec => PaidWorkKept
BY Invariance, StepKeepsPaidWork, PTL DEF Spec, PaidWorkKept

\* No call sequence brings a job back to a snapshot it has left.
LEMMA StepMovesOn == IInv /\ [Next]_vars => [job' # job => Later(job, job')]_vars
<1> SUFFICES ASSUME IInv, Next, job' # job PROVE Later(job, job')
  OBVIOUS
<1> USE DEF Later, Rank, Active, HappyPath
<1>1. ASSUME NEW c \in Call, MoveForward(c) PROVE Later(job, job')
  BY <1>1 DEF IInv, TypeOK, Job, MoveForward, Takes, Moved, Forward, Edge, Order
<1>2. ASSUME NEW c \in Call, FailStage(c) PROVE Later(job, job')
  BY <1>2 DEF IInv, TypeOK, Job, FailStage, Failed
<1>3. ASSUME NEW c \in Call, ResumeStage(c) PROVE Later(job, job')
  BY <1>3 DEF IInv, TypeOK, Job, ResumeStage, MayResume, Resumed, ResumePoint,
              Order
<1>4. ASSUME NEW c \in Call, GiveUp(c) PROVE Later(job, job')
  BY <1>4 DEF IInv, TypeOK, Job, GiveUp, MustGiveUp, GivenUp
<1>5. ASSUME NEW c \in Call, Absorb(c) \/ Refuse(c) PROVE FALSE
  BY <1>5 DEF Absorb, Refuse, vars
<1> QED
  BY <1>1, <1>2, <1>3, <1>4, <1>5 DEF Next

THEOREM NeverRepeating == Spec => NeverRepeats
BY Invariance, StepMovesOn, PTL DEF Spec, NeverRepeats

-----------------------------------------------------------------------------
(* The state machine implements JobContract.                               *)

LEMMA InitImplements == Init => Contract!Init
BY DEF Init, NewJob, Contract!Init, Verdict

LEMMA MoveImplements ==
  ASSUME IInv, NEW c \in Call, MoveForward(c)
  PROVE  Contract!Next \/ UNCHANGED Contract!vars
<1> PICK edge \in Forward : /\ Takes(job, c, edge)
                            /\ job' = Moved(job, c, edge.tgt)
  BY DEF MoveForward
<1> USE NoneAssumption DEF Verdict
<1>1. /\ job.state = edge.src
      /\ job'.state = edge.tgt
      /\ job'.transcript_ref = IF c.event = "stt_callback"
                               THEN c.transcript_ref ELSE job.transcript_ref
      /\ job'.result_ref = IF c.event = "analysis_done"
                           THEN c.result_ref ELSE job.result_ref
  BY DEF IInv, TypeOK, Job, Takes, Moved
<1>2. CASE c.event = "stt_callback"
  <2>1. job.transcript_ref = None /\ c.transcript_ref \in Transcripts
    BY <1>2 DEF IInv, Lineage, Stage, Order, HappyPath, Takes, ArgsPresent, Call,
                Forward, Edge
  <2> QED
    BY <1>1, <1>2, <2>1
       DEF Contract!Next, Contract!Transcribe, Takes, Forward, Edge
<1>3. CASE c.event = "analysis_done"
  <2>1. /\ job.transcript_ref # None
        /\ job.result_ref = None
        /\ c.result_ref \in Results
    BY <1>3 DEF IInv, Lineage, Stage, Order, HappyPath, Takes, ArgsPresent, Call,
                Forward, Edge
  <2> QED
    BY <1>1, <1>3, <2>1
       DEF Contract!Next, Contract!Analyze, Takes, Forward, Edge
<1>4. CASE c.event = "commit"
  <2>1. job.transcript_ref # None /\ job.result_ref # None
    BY <1>4 DEF IInv, Lineage, Stage, Order, HappyPath, Takes, Forward, Edge
  <2> QED
    BY <1>1, <1>4, <2>1
       DEF Contract!Next, Contract!Deliver, Takes, Forward, Edge
<1>5. CASE c.event \in {"submit_stt", "start_analysis"}
  BY <1>1, <1>5 DEF Contract!vars, Takes, Forward, Edge
<1> QED
  BY <1>2, <1>3, <1>4, <1>5 DEF Takes, Forward, Edge

LEMMA GiveUpImplements ==
  ASSUME IInv, NEW c \in Call, GiveUp(c)
  PROVE  Contract!Next
<1>1. /\ job.state = "failed"
      /\ job'.state = "permanently_failed"
      /\ UNCHANGED <<job.transcript_ref, job.result_ref>>
  BY DEF IInv, TypeOK, Job, GiveUp, MustGiveUp, GivenUp
<1>2. job.result_ref = None
  BY <1>1 DEF IInv, Lineage, Stage, Order, HappyPath, Active
<1> QED
  BY <1>1, <1>2 DEF Contract!Next, Contract!Abandon, Verdict

LEMMA StepImplements == IInv /\ [Next]_vars => [Contract!Next]_(Contract!vars)
<1> SUFFICES ASSUME IInv, [Next]_vars
             PROVE  Contract!Next \/ UNCHANGED Contract!vars
  OBVIOUS
<1>1. CASE UNCHANGED vars
  BY <1>1 DEF vars, Contract!vars, Verdict
<1>2. ASSUME NEW c \in Call, MoveForward(c)
      PROVE  Contract!Next \/ UNCHANGED Contract!vars
  BY <1>2, MoveImplements
<1>3. ASSUME NEW c \in Call, FailStage(c)
      PROVE  UNCHANGED Contract!vars
  BY <1>3 DEF IInv, TypeOK, Job, FailStage, MayFail, Failed, Active,
              Contract!vars, Verdict
<1>4. ASSUME NEW c \in Call, ResumeStage(c)
      PROVE  UNCHANGED Contract!vars
  BY <1>4 DEF IInv, TypeOK, Job, ResumeStage, MayResume, Resumed, ResumePoint,
              Active, Contract!vars, Verdict
<1>5. ASSUME NEW c \in Call, GiveUp(c)
      PROVE  Contract!Next
  BY <1>5, GiveUpImplements
<1>6. ASSUME NEW c \in Call, Absorb(c) \/ Refuse(c)
      PROVE  UNCHANGED Contract!vars
  BY <1>6 DEF Absorb, Refuse, vars, Contract!vars, Verdict
<1> QED
  BY <1>1, <1>2, <1>3, <1>4, <1>5, <1>6 DEF Next

\* The state machine implements the contract: one transcript, one result from
\* a transcript, no result thrown away, one final verdict.
THEOREM ContractImplemented == Spec => ImplementsContract
BY Invariance, InitImplements, StepImplements, PTL
   DEF Spec, ImplementsContract, Contract!Spec

-----------------------------------------------------------------------------
(* From any stored row, however damaged, only the type is invariant; the   *)
(* action property follows from it and from the guards of the steps.       *)

LEMMA RowTypeCorrect == SpecRow => []TypeOK
<1>1. InitRow => TypeOK
  BY DEF InitRow, TypeOK, StoredRow
<1> QED
  BY <1>1, TypeStep, PTL DEF SpecRow

\* Nothing is bought or concluded on an empty reference.
LEMMA StepNotHollow ==
  ASSUME TypeOK, Next
  PROVE  /\ starts' # starts => job.transcript_ref # None
         /\ job.state # "done" /\ job'.state = "done" => job.result_ref # None
         /\ job' # job => Intact(job) /\ Intact(job')
<1> DEFINE Sound == /\ starts' # starts => job.transcript_ref # None
                    /\ job.state # "done" /\ job'.state = "done" =>
                         job.result_ref # None
                    /\ job' # job => Intact(job) /\ Intact(job')
<1>1. ASSUME NEW c \in Call, MoveForward(c) PROVE Sound
  <2> PICK edge \in Forward :
        /\ Takes(job, c, edge)
        /\ job' = Moved(job, c, edge.tgt)
        /\ starts' = starts + (IF c.event = "start_analysis" THEN 1 ELSE 0)
    BY <1>1 DEF MoveForward
  <2>1. /\ job'.state = edge.tgt
        /\ c.event = "stt_callback" => job'.transcript_ref # None
        /\ c.event = "analysis_done" => job'.result_ref # None
    BY DEF TypeOK, Job, Takes, Moved, ArgsPresent
  <2>2. Intact(job')
    BY <2>1 DEF Intact, Required, Takes, Forward, Edge
  <2>3. starts' # starts => c.event = "start_analysis"
    BY DEF TypeOK
  <2> QED
    BY <2>1, <2>2, <2>3 DEF Takes, Intact, Required, Forward, Edge
<1>2. ASSUME NEW c \in Call, FailStage(c) PROVE Sound
  BY <1>2 DEF TypeOK, Job, FailStage, MayFail, Failed, Active, Intact, Required
<1>3. ASSUME NEW c \in Call, ResumeStage(c) PROVE Sound
  BY <1>3 DEF TypeOK, Job, ResumeStage, MayResume, Resumed, ResumePoint,
              Active, Intact, Required
<1>4. ASSUME NEW c \in Call, GiveUp(c) PROVE Sound
  BY <1>4 DEF TypeOK, Job, GiveUp, MustGiveUp, GivenUp, Intact, Required
<1>5. ASSUME NEW c \in Call, Absorb(c) \/ Refuse(c) PROVE Sound
  BY <1>5 DEF Absorb, Refuse, vars
<1> QED
  BY <1>1, <1>2, <1>3, <1>4, <1>5 DEF Next

\* No damaged row makes the core buy or conclude anything on an empty
\* reference, whatever is called and in whatever order.
THEOREM NothingHollow == SpecRow => NothingOnHollowRow
BY RowTypeCorrect, StepNotHollow, PTL DEF SpecRow, NothingOnHollowRow

-----------------------------------------------------------------------------
(* The core behind its queue (JobDelivery).                                *)

QueueSound == /\ queue \subseteq Call
              /\ \A c \in queue : c.event = "analysis_done" /\ c.result_ref # None =>
                                    ComputedOn[c.result_ref] \in handed

DInv == IInv /\ QueueSound /\ OneTranscriptAnalysed /\ ResultOfTranscript

\* Sending a message touches nothing but the queue.
LEMMA SendDInv ==
  ASSUME DInv, NEW c \in Call, Send(c),
         c.event = "analysis_done" => ComputedOn[c.result_ref] \in handed
  PROVE  DInv'
<1>1. IInv'
  BY StutterIInv DEF DInv, Send, vars
<1> QED
  BY <1>1 DEF DInv, Send, QueueSound, OneTranscriptAnalysed, ResultOfTranscript

\* Delivering one is a step of the core.
LEMMA DeliverDInv ==
  ASSUME DInv, NEW c \in Call, Deliver(c)
  PROVE  DInv'
<1>1. [Next]_vars
  BY DEF Deliver, Next
<1>2. IInv'
  BY <1>1, NextIInv DEF DInv
<1>3. job.transcript_ref # None => job'.transcript_ref = job.transcript_ref
  BY <1>1, StepKeepsPaidWork DEF DInv, vars
<1>4. /\ starts' # starts => /\ c.event = "start_analysis"
                             /\ job.transcript_ref # None
      /\ job'.result_ref # job.result_ref =>
           /\ c.event = "analysis_done"
           /\ job'.result_ref = c.result_ref
           /\ job.transcript_ref # None
  <2>1. ASSUME NEW edge \in Forward, Takes(job, c, edge),
               job' = Moved(job, c, edge.tgt),
               starts' = starts + (IF c.event = "start_analysis" THEN 1 ELSE 0)
        PROVE  <1>4
    <3>1. /\ starts' # starts => c.event = "start_analysis"
          /\ job'.result_ref # job.result_ref =>
               c.event = "analysis_done" /\ job'.result_ref = c.result_ref
      BY <2>1 DEF DInv, IInv, TypeOK, Job, Moved
    <3>2. c.event \in {"start_analysis", "analysis_done"} =>
            job.transcript_ref # None
      BY <2>1 DEF DInv, IInv, Lineage, Stage, Order, HappyPath, Takes, Forward,
                  Edge
    <3> QED
      BY <3>1, <3>2
  <2>2. CASE MoveForward(c)
    BY <2>1, <2>2 DEF MoveForward
  <2>3. CASE ~MoveForward(c)
    <3>1. UNCHANGED <<starts, job.result_ref>>
      BY <2>3 DEF Deliver, DInv, IInv, TypeOK, Job, FailStage, Failed,
                  ResumeStage, Resumed, GiveUp, GivenUp, Absorb, Refuse, vars
    <3> QED
      BY <3>1
  <2> QED
    BY <2>2, <2>3
<1>5. /\ queue' \subseteq queue
      /\ c \in queue
      /\ handed' = IF starts' # starts THEN handed \cup {job'.transcript_ref}
                                       ELSE handed
  BY DEF Deliver
<1>6. QueueSound'
  BY <1>5 DEF DInv, QueueSound
<1>7. OneTranscriptAnalysed'
  BY <1>3, <1>4, <1>5 DEF DInv, OneTranscriptAnalysed
<1>8. ResultOfTranscript'
  <2>1. CASE job'.result_ref = job.result_ref
    <3>1. job.result_ref # None => job.transcript_ref # None
      BY DEF DInv, IInv, TypeOK, Job, State, Lineage, Stage, Order, HappyPath,
             Active
    <3> QED
      BY <1>3, <2>1, <3>1 DEF DInv, ResultOfTranscript
  <2>2. CASE job'.result_ref # job.result_ref /\ job'.result_ref # None
    <3>1. ComputedOn[job'.result_ref] \in handed
      BY <1>4, <1>5, <2>2 DEF DInv, QueueSound
    <3> QED
      BY <1>3, <1>4, <2>2, <3>1 DEF DInv, OneTranscriptAnalysed, ResultOfTranscript
  <2> QED
    BY <2>1, <2>2 DEF ResultOfTranscript
<1> QED
  BY <1>2, <1>6, <1>7, <1>8 DEF DInv

LEMMA StepDInv == DInv /\ [DNext]_dvars => DInv'
<1> SUFFICES ASSUME DInv, [DNext]_dvars PROVE DInv'
  OBVIOUS
<1> USE DEF NoArgs, Event, ForwardEvent
<1>1. CASE UNCHANGED dvars
  <2>1. IInv'
    BY <1>1, StutterIInv DEF DInv, dvars, vars
  <2> QED
    BY <1>1, <2>1 DEF DInv, dvars, QueueSound, OneTranscriptAnalysed,
                      ResultOfTranscript
<1>2. CASE Drive
  <2> PICK m \in Budgets : Send(NoArgs(Command[job.state], m))
    BY <1>2 DEF Drive
  <2>1. Command[job.state] \in {"submit_stt", "start_analysis", "commit", "retry"}
    BY <1>2 DEF Drive, Command
  <2>2. NoArgs(Command[job.state], m) \in Call
    BY <2>1 DEF Call
  <2> QED
    BY <2>1, <2>2, SendDInv
<1>3. CASE SttAnswers
  <2> PICK t \in Transcripts, m \in Budgets :
        Send([NoArgs("stt_callback", m) EXCEPT !.transcript_ref = t])
    BY <1>3 DEF SttAnswers
  <2>1. [NoArgs("stt_callback", m) EXCEPT !.transcript_ref = t] \in Call
    BY DEF Call
  <2> QED
    BY <2>1, SendDInv
<1>4. CASE DetectorAnswers
  <2> PICK r \in Results, m \in Budgets :
        /\ ComputedOn[r] \in handed
        /\ Send([NoArgs("analysis_done", m) EXCEPT !.result_ref = r])
    BY <1>4 DEF DetectorAnswers
  <2>1. [NoArgs("analysis_done", m) EXCEPT !.result_ref = r] \in Call
    BY DEF Call
  <2> QED
    BY <2>1, SendDInv
<1>5. CASE TimesOut
  <2> PICK err \in Errors, m \in Budgets :
        Send([NoArgs("fail", m) EXCEPT !.error = err])
    BY <1>5 DEF TimesOut
  <2>1. [NoArgs("fail", m) EXCEPT !.error = err] \in Call
    BY DEF Call
  <2> QED
    BY <2>1, SendDInv
<1>6. ASSUME NEW c \in Call, Deliver(c) PROVE DInv'
  BY <1>6, DeliverDInv
<1> QED
  BY <1>1, <1>2, <1>3, <1>4, <1>5, <1>6 DEF DNext

LEMMA DeliveryInvariance == DSpec => []DInv
<1>1. DInit => DInv
  BY InitIInv DEF DInit, Init, NewJob, DInv, QueueSound, OneTranscriptAnalysed,
                  ResultOfTranscript
<1> QED
  BY <1>1, StepDInv, PTL DEF DSpec

\* The committed result was computed on the committed transcript, through
\* every late, duplicated or reordered answer.
THEOREM ProvenanceHolds == DSpec => []ResultOfTranscript
BY DeliveryInvariance, PTL DEF DInv

\* Every detection run ever paid for ran on the transcript the row keeps.
THEOREM OneTranscript == DSpec => []OneTranscriptAnalysed
BY DeliveryInvariance, PTL DEF DInv

-----------------------------------------------------------------------------
(* The store.                                                              *)

\* The references and the failed stage a sound job has in each state.
Sound(j) ==
  /\ j.state \in {"uploaded", "transcribing"} =>
       j.transcript_ref = None /\ j.result_ref = None /\ j.failed_from = None
  /\ j.state \in {"transcribed", "analyzing"} =>
       j.transcript_ref # None /\ j.result_ref = None /\ j.failed_from = None
  /\ j.state \in {"analyzed", "done"} =>
       j.transcript_ref # None /\ j.result_ref # None /\ j.failed_from = None
  /\ j.state \in {"failed", "permanently_failed"} =>
       /\ j.failed_from \in {"transcribing", "analyzing"}
       /\ j.result_ref = None
       /\ j.transcript_ref # None <=> j.failed_from = "analyzing"

\* What one call may make of a sound job.
Step(j, k) ==
  /\ k \in FullJob /\ Sound(k)
  /\ k.id = j.id /\ k.audio_ref = j.audio_ref
  /\ j.transcript_ref # None => k.transcript_ref = j.transcript_ref
  /\ j.result_ref # None => k.result_ref = j.result_ref
  /\ Owed(j, k) \in {"store", "stt", "detection"}
  /\ Owed(j, k) = "store" => Accounts(k) = Accounts(j)
  /\ Owed(j, k) # "store" => Accounts(k) = Accounts(j) + 1
  /\ Owed(j, k) = "stt" => j.transcript_ref = None
  /\ Owed(j, k) = "detection" => j.result_ref = None

-----------------------------------------------------------------------------
(* One call.                                                               *)

\* Every way advance goes on from a sound job leads to a sound job, keeps
\* what was paid for, and owes a provider exactly what it accounts for.
LEMMA ChangedIsStep ==
  ASSUME NEW j \in FullJob, Sound(j), NEW c \in Call, NEW k \in Changed(j, c)
  PROVE  Step(j, k) /\ k.ts = j.ts
<1> USE NoneAssumption DEF FullJob, Snapshots, State, HappyPath
<1>1. ASSUME NEW edge \in Forward, Takes(j, c, edge), k = Moved(j, c, edge.tgt)
      PROVE  Step(j, k) /\ k.ts = j.ts
  <2>1. PICK e \in Event, s \in State, t \in State : edge = Edge(e, s, t)
    BY DEF Forward, Edge, Event, ForwardEvent
  <2>2. /\ <<e, s, t>> \in { <<"submit_stt", "uploaded", "transcribing">>,
                             <<"stt_callback", "transcribing", "transcribed">>,
                             <<"start_analysis", "transcribed", "analyzing">>,
                             <<"analysis_done", "analyzing", "analyzed">>,
                             <<"commit", "analyzed", "done">> }
        /\ c.event = e /\ j.state = s /\ edge.tgt = t
    BY <1>1, <2>1 DEF Forward, Edge, Takes
  <2>3. /\ e = "stt_callback" => c.transcript_ref # None
        /\ e = "analysis_done" => c.result_ref # None
    BY <1>1, <2>2 DEF Takes, ArgsPresent
  <2>4. /\ k \in FullJob /\ k.state = t
        /\ k.id = j.id /\ k.audio_ref = j.audio_ref /\ k.ts = j.ts
        /\ k.failed_from = j.failed_from /\ k.attempts = j.attempts
        /\ k.transcript_ref = IF e = "stt_callback" THEN c.transcript_ref
                                                   ELSE j.transcript_ref
        /\ k.result_ref = IF e = "analysis_done" THEN c.result_ref
                                                 ELSE j.result_ref
    BY <1>1, <2>2 DEF Moved, Call
  <2>5. Sound(k)
    BY <2>2, <2>3, <2>4 DEF Sound
  <2>6. /\ j.transcript_ref # None => k.transcript_ref = j.transcript_ref
        /\ j.result_ref # None => k.result_ref = j.result_ref
    BY <2>2, <2>4 DEF Sound
  <2>7. /\ Owed(j, k) = IF t = "transcribing" THEN "stt"
                        ELSE IF t = "analyzing" THEN "detection" ELSE "store"
        /\ t = "transcribing" => j.transcript_ref = None
        /\ t = "analyzing" => j.result_ref = None
    BY <2>2, <2>4 DEF Owed, Sound
  <2>8. Accounts(k) = IF t \in Active THEN Accounts(j) + 1 ELSE Accounts(j)
    BY <2>2, <2>3, <2>4 DEF Accounts, Active, Sound
  <2> QED
    BY <2>2, <2>4, <2>5, <2>6, <2>7, <2>8 DEF Step, Active
<1>2. ASSUME MayFail(j, c), k = Failed(j, c)
      PROVE  Step(j, k) /\ k.ts = j.ts
  <2>1. c.error \in Errors \cup {None} /\ j.state \in Active
    BY <1>2 DEF MayFail, Call
  <2>2. k = [j EXCEPT !.state = "failed", !.failed_from = j.state,
                      !.attempts = j.attempts + 1, !.error = c.error]
    BY <1>2, Zenon DEF Failed
  <2>3. j.state \in State /\ j.attempts + 1 \in Nat /\ "failed" \in State
    OBVIOUS
  <2>4. k \in FullJob
    BY <2>1, <2>2, <2>3
  <2>5. /\ k \in FullJob /\ k.state = "failed" /\ j.state \in Active
        /\ k.id = j.id /\ k.audio_ref = j.audio_ref /\ k.ts = j.ts
        /\ k.failed_from = j.state /\ k.attempts = j.attempts + 1
        /\ k.transcript_ref = j.transcript_ref /\ k.result_ref = j.result_ref
    BY <2>1, <2>2, <2>4
  <2>6. Sound(k) /\ Accounts(k) = Accounts(j)
    BY <2>5 DEF Sound, Accounts, Active
  <2> QED
    BY <2>5, <2>6 DEF Step, Owed, Active
<1>3. ASSUME MayResume(j, c), k = Resumed(j)
      PROVE  Step(j, k) /\ k.ts = j.ts
  <2>1. /\ k \in FullJob /\ j.state = "failed"
        /\ k.state = IF j.failed_from = "transcribing" THEN "uploaded" ELSE "transcribed"
        /\ k.id = j.id /\ k.audio_ref = j.audio_ref /\ k.ts = j.ts
        /\ k.failed_from = None /\ k.attempts = j.attempts
        /\ k.transcript_ref = j.transcript_ref /\ k.result_ref = j.result_ref
    BY <1>3 DEF Resumed, MayResume, ResumePoint, Active
  <2>2. Sound(k) /\ Accounts(k) = Accounts(j)
    BY <2>1 DEF Sound, Accounts, Active
  <2> QED
    BY <2>1, <2>2 DEF Step, Owed
<1>4. ASSUME MustGiveUp(j, c), k = GivenUp(j)
      PROVE  Step(j, k) /\ k.ts = j.ts
  <2>1. /\ k \in FullJob /\ j.state = "failed" /\ k.state = "permanently_failed"
        /\ k.id = j.id /\ k.audio_ref = j.audio_ref /\ k.ts = j.ts
        /\ k.failed_from = j.failed_from /\ k.attempts = j.attempts
        /\ k.transcript_ref = j.transcript_ref /\ k.result_ref = j.result_ref
    BY <1>4 DEF GivenUp, MustGiveUp
  <2>2. Sound(k) /\ Accounts(k) = Accounts(j)
    BY <2>1 DEF Sound, Accounts, Active
  <2> QED
    BY <2>1, <2>2 DEF Step, Owed
<1> QED
  BY <1>1, <1>2, <1>3, <1>4 DEF Changed

-----------------------------------------------------------------------------
(* Rows and strings.                                                       *)

LEMMA NamedText ==
  ASSUME NEW x \in State
  PROVE  Named(Text[x]) = x /\ Text[x] # None
BY TextAssumption, Zenon DEF Named

\* Writing a job and constructing it from its row gives the job again.
LEMMA ReadWritten ==
  ASSUME NEW j \in FullJob
  PROVE  /\ AsRow(j) # None
         /\ Readable(AsRow(j))
         /\ AsJob(AsRow(j)) = j
         /\ AsRow(j).audio_ref = j.audio_ref
         /\ AsRow(j).transcript_ref = j.transcript_ref
         /\ AsRow(j).result_ref = j.result_ref
         /\ AsRow(j).ts = j.ts
<1> DEFINE r == AsRow(j)
<1>1. j.state \in State /\ j.failed_from \in State \cup {None} /\ None \notin State
  BY NoneAssumption DEF FullJob, Snapshots
<1>2. /\ Written(j.state) = Text[j.state]
      /\ j.failed_from = None => Written(j.failed_from) = None
      /\ j.failed_from # None => Written(j.failed_from) = Text[j.failed_from]
  BY <1>1 DEF Written
<1>3. /\ r.state = Text[j.state]
      /\ r.failed_from = IF j.failed_from = None THEN None ELSE Text[j.failed_from]
      /\ r = [j EXCEPT !.state = r.state, !.failed_from = r.failed_from]
      /\ r.audio_ref = j.audio_ref /\ r.ts = j.ts
      /\ r.transcript_ref = j.transcript_ref /\ r.result_ref = j.result_ref
  BY <1>1, <1>2 DEF AsRow, FullJob, Snapshots
<1>4. r \in Row
  BY <1>1, <1>3 DEF Row, FullJob, Snapshots
<1>5. Readable(r)
  BY <1>1, <1>3 DEF Readable
<1>6. /\ Named(r.state) = j.state
      /\ r.failed_from = None => j.failed_from = None
      /\ r.failed_from # None => Named(r.failed_from) = j.failed_from
  BY <1>1, <1>3, NamedText
<1>7. AsJob(r) = [r EXCEPT !.state = j.state, !.failed_from = j.failed_from]
  BY <1>1, <1>3, <1>6, Zenon DEF AsJob
<1>8. AsJob(r) = j
  BY <1>3, <1>4, <1>7 DEF Row, FullJob, Snapshots
<1> QED
  BY <1>3, <1>4, <1>5, <1>8, RowAssumption

-----------------------------------------------------------------------------
(* The invariant.                                                          *)

Used(i) == IF source = "uuid" THEN i \in uuids ELSE i <= drawn

Kept(i) == AsJob(rows[i])

\* The held job is its row's, or one unsaved call ahead of it.
Follows(r) ==
  \/ held = r /\ due \in {"nothing", "store"}
  \/ /\ due # "nothing"
     /\ Step(r, held) /\ OneCall(r, held) /\ r.ts <= held.ts
     /\ due \in {"stt", "detection"} => due = Owed(r, held)

SType ==
  /\ DOMAIN rows = Ids
  /\ held # None => held \in FullJob /\ Sound(held) /\ held.ts <= now
  /\ due \in {"nothing", "store", "stt", "detection"}
  /\ held = None => due = "nothing"
  /\ now \in Nat /\ drawn \in Nat
  /\ source \in {"uuid", "sequential"}
  /\ uuids \subseteq Ids
  /\ paid \in [Ids -> [stt : Nat, detection : Nat]]
  /\ crashes \in [Ids -> Nat]

RowsSound ==
  \A i \in Ids : rows[i] # None =>
    /\ Used(i)
    /\ Readable(rows[i]) =>
         /\ Kept(i) \in FullJob /\ Sound(Kept(i))
         /\ Kept(i).id = i /\ Kept(i).ts <= now
         /\ rows[i] = AsRow(Kept(i))

HeldFollows ==
  held # None =>
    /\ Used(held.id)
    /\ rows[held.id] = None => /\ due = "store" /\ Accounts(held) = 0
                               /\ held.state = "uploaded"
    /\ rows[held.id] # None => Readable(rows[held.id]) /\ Follows(Kept(held.id))

CallsCounted ==
  \A i \in Ids :
    /\ Recorded(i) <= Calls(i)
    /\ Calls(i) <= Recorded(i) + crashes[i] + (IF Storing(i) THEN 1 ELSE 0)
    /\ Storing(i) => /\ Accounts(held) <= Calls(i)
                     /\ Calls(i) <= Accounts(held) + crashes[i]

SInv == SType /\ RowsSound /\ HeldFollows /\ CallsCounted

LEMMA AccountsNat ==
  ASSUME NEW j \in FullJob
  PROVE  Accounts(j) \in Nat
BY DEF Accounts, FullJob, Snapshots

LEMMA CountsNat ==
  ASSUME SType, RowsSound, NEW i \in Ids
  PROVE  Recorded(i) \in Nat /\ Calls(i) \in Nat /\ crashes[i] \in Nat
<1>1. Calls(i) \in Nat /\ crashes[i] \in Nat
  BY DEF SType, Calls
<1>2. Recorded(i) \in Nat
  BY AccountsNat DEF RowsSound, Recorded, Stored, Kept
<1> QED
  BY <1>1, <1>2

\* Steps that leave the rows alone leave what is known of them alone.
LEMMA SameRows ==
  ASSUME SType, RowsSound, rows' = rows, now' \in Nat, now <= now',
         \A i \in Ids : rows[i] # None => (Used(i) => Used(i)')
  PROVE  RowsSound' /\ \A i \in Ids : Recorded(i)' = Recorded(i)
<1>1. ASSUME NEW i \in Ids, rows[i] # None, Readable(rows[i])
      PROVE  Kept(i).ts <= now'
  BY <1>1 DEF RowsSound, FullJob, Snapshots, SType
<1>2. RowsSound'
  BY <1>1 DEF RowsSound, Kept
<1> QED
  BY <1>2 DEF Recorded, Stored

-----------------------------------------------------------------------------
(* The invariant holds initially.                                          *)

LEMMA NothingReadable ==
  ASSUME SInit, NEW i \in Ids, rows[i] # None
  PROVE  ~Readable(rows[i])
<1>1. PICK k \in Ids, a \in Audios, s \in Strange :
        rows[i] = [AsRow(Fresh(k, a)) EXCEPT !.state = s]
  BY DEF SInit, StrangeRows
<1>2. rows[i].state = s /\ s # None /\ \A x \in State : Text[x] # s
  BY <1>1, TextAssumption DEF AsRow, Fresh
<1> QED
  BY <1>2 DEF Readable

LEMMA SInitInv == SInit => SInv
<1> SUFFICES ASSUME SInit PROVE SInv
  OBVIOUS
<1>1. SType
  BY DEF SInit, SType
<1>2. ASSUME NEW i \in Ids, rows[i] # None
      PROVE  Used(i) /\ ~Readable(rows[i])
  BY <1>2, NothingReadable DEF SInit, Used
<1>3. RowsSound
  BY <1>2 DEF RowsSound
<1>4. HeldFollows
  BY DEF SInit, HeldFollows
<1>5. CallsCounted
  BY <1>2 DEF SInit, CallsCounted, Recorded, Calls, Stored, Storing
<1> QED
  BY <1>1, <1>3, <1>4, <1>5 DEF SInv

-----------------------------------------------------------------------------
(* Every step keeps it.                                                    *)

LEMMA CreateInv == SInv /\ Create => SInv'
<1> SUFFICES ASSUME SInv, Create PROVE SInv'
  OBVIOUS
<1> USE DEF SInv
<1>1. PICK i \in NewId, a \in Audios :
        held' = Fresh(i, a) /\ uuids' = uuids \cup {i}
  BY DEF Create
<1>2. /\ i \in Ids /\ i \in Nat /\ ~Used(i) /\ Used(i)'
      /\ \A k \in Ids : Used(k) => Used(k)'
  BY <1>1, IdAssumption
  DEF Create, NewId, UuidIdSource, SequentialIdSource, Used, SType
<1>3. /\ held' \in FullJob /\ Sound(held') /\ Accounts(held') = 0
      /\ held'.ts = now /\ held'.id = i /\ held'.state = "uploaded"
  BY <1>1, <1>2, NoneAssumption
  DEF Fresh, FullJob, Snapshots, State, HappyPath, Sound, Accounts, Active, SType
<1>4. rows[i] = None
  BY <1>2 DEF RowsSound
<1>5. SType'
  BY <1>1, <1>2, <1>3, RowAssumption DEF Create, SType
<1>6. RowsSound' /\ \A k \in Ids : Recorded(k)' = Recorded(k)
  BY <1>2, SameRows DEF Create, SType
<1>7. HeldFollows'
  BY <1>2, <1>3, <1>4 DEF HeldFollows, Create
<1>8. ASSUME NEW k \in Ids
      PROVE  /\ Calls(k)' = Calls(k) /\ crashes'[k] = crashes[k]
             /\ ~Storing(k) /\ (Storing(k)' => k = i)
  BY <1>3 DEF Create, Calls, Storing
<1>9. Recorded(i) = 0
  BY <1>4 DEF Recorded, Stored
<1>10. CallsCounted'
  <2> SUFFICES ASSUME NEW k \in Ids
               PROVE  /\ Recorded(k)' <= Calls(k)'
                      /\ Calls(k)' <= Recorded(k)' + crashes'[k] + (IF Storing(k)' THEN 1 ELSE 0)
                      /\ Storing(k)' => /\ Accounts(held') <= Calls(k)'
                                        /\ Calls(k)' <= Accounts(held') + crashes'[k]
    BY DEF CallsCounted
  <2>1. Recorded(k) \in Nat /\ Calls(k) \in Nat /\ crashes[k] \in Nat
    BY CountsNat
  <2> QED
    BY <1>3, <1>6, <1>8, <1>9, <2>1 DEF CallsCounted
<1> QED
  BY <1>5, <1>6, <1>7, <1>10

LEMMA LoadInv == ASSUME NEW i \in Ids PROVE SInv /\ Load(i) => SInv'
<1> SUFFICES ASSUME SInv, Load(i) PROVE SInv'
  OBVIOUS
<1> USE DEF SInv
<1>1. /\ held' = Kept(i) /\ Kept(i) \in FullJob /\ Sound(Kept(i))
      /\ Kept(i).id = i /\ Kept(i).ts <= now /\ Used(i)
      /\ rows[i] # None /\ Readable(rows[i])
  BY DEF Load, RowsSound, Kept
<1>2. held = None /\ due = "nothing" /\ due' = due
  BY DEF Load, SType
<1>3. SType'
  BY <1>1, <1>2 DEF Load, SType
<1>4. RowsSound' /\ \A k \in Ids : Recorded(k)' = Recorded(k)
  BY SameRows DEF Load, SType, Used
<1>5. HeldFollows'
  BY <1>1, <1>2 DEF Load, HeldFollows, Follows, Used, Kept
<1>6. CallsCounted'
  BY <1>2, <1>4 DEF Load, CallsCounted, Calls, Storing
<1> QED
  BY <1>3, <1>4, <1>5, <1>6

LEMMA AdvanceInv == ASSUME NEW c \in Call
                    PROVE  SInv /\ held # None /\ due = "nothing" /\ Advance(c) => SInv'
<1> SUFFICES ASSUME SInv, held # None, due = "nothing", Advance(c) PROVE SInv'
  OBVIOUS
<1> USE DEF SInv
<1> DEFINE i == held.id
<1>1. PICK k \in Advanced(held, c) : held' = k /\ due' = Owed(held, k)
  BY DEF Advance
<1>2. held \in FullJob /\ Sound(held) /\ i \in Ids /\ held.ts <= now /\ now \in Nat
  BY DEF SType, FullJob, Snapshots
<1>3. /\ rows[i] # None /\ Readable(rows[i]) /\ Kept(i) = held
  BY DEF HeldFollows, Follows
<1>4. \/ k = held
      \/ /\ Step(held, k) /\ k.ts = now
         /\ OneCall(held, k)
  <2>1. CASE k \in Same(held, c)
    BY <2>1 DEF Same
  <2>2. CASE \E x \in Changed(held, c) : k = [x EXCEPT !.ts = now]
    <3>1. PICK x \in Changed(held, c) : k = [x EXCEPT !.ts = now]
      BY <2>2
    <3>2. Step(held, x) /\ x.ts = held.ts
      BY <1>2, ChangedIsStep
    <3>3. /\ k \in FullJob /\ k.ts = now /\ k.state = x.state /\ k.id = x.id
          /\ k.audio_ref = x.audio_ref /\ k.transcript_ref = x.transcript_ref
          /\ k.result_ref = x.result_ref /\ k.failed_from = x.failed_from
          /\ k.attempts = x.attempts
      BY <1>2, <3>1, <3>2 DEF Step, FullJob, Snapshots
    <3>4. Sound(k) /\ Accounts(k) = Accounts(x) /\ Owed(held, k) = Owed(held, x)
      BY <3>2, <3>3 DEF Step, Sound, Accounts, Owed
    <3>5. Step(held, k)
      BY <3>2, <3>3, <3>4 DEF Step
    <3>6. OneCall(held, k)
      BY <3>1, <3>3 DEF OneCall
    <3> QED
      BY <3>3, <3>5, <3>6
  <2> QED
    BY <1>1, <2>1, <2>2 DEF Advanced
<1>5. /\ k \in FullJob /\ Sound(k) /\ k.id = i /\ k.ts <= now
      /\ due' \in {"store", "stt", "detection"}
      /\ due' = "store" => Accounts(k) = Accounts(held)
  <2>1. CASE k = held
    BY <1>1, <1>2, <2>1 DEF Owed
  <2>2. CASE Step(held, k) /\ k.ts = now
    BY <1>1, <1>2, <2>2 DEF Step
  <2> QED
    BY <1>4, <2>1, <2>2
<1>6. SType'
  BY <1>1, <1>5, RowAssumption DEF Advance, SType
<1>7. RowsSound' /\ \A j \in Ids : Recorded(j)' = Recorded(j)
  BY SameRows DEF Advance, SType, Used
<1>8. Follows(Kept(i))'
  <2>1. CASE k = held
    <3>1. held' = held /\ due' = "store" /\ rows' = rows
      BY <1>1, <2>1 DEF Advance, Owed
    <3> QED
      BY <1>3, <3>1 DEF Follows, Kept
  <2>2. CASE Step(held, k) /\ k.ts = now /\ OneCall(held, k)
    BY <1>1, <1>2, <1>3, <1>5, <2>2 DEF Advance, Follows, Kept
  <2> QED
    BY <1>4, <2>1, <2>2
<1>9. HeldFollows'
  BY <1>1, <1>3, <1>5, <1>8 DEF Advance, HeldFollows, Used
<1>10. CallsCounted'
  <2>1. Recorded(i) = Accounts(held)
    BY <1>3 DEF Recorded, Stored, Kept
  <2>2. \A j \in Ids : /\ Calls(j)' = Calls(j) /\ crashes'[j] = crashes[j]
                       /\ ~Storing(j) /\ (Storing(j)' => j = i /\ Accounts(held') = Accounts(held))
    BY <1>1, <1>5 DEF Advance, Calls, Storing
  <2>3. \A j \in Ids : Recorded(j) \in Nat /\ Calls(j) \in Nat /\ crashes[j] \in Nat
    BY CountsNat
  <2> QED
    BY <1>7, <2>1, <2>2, <2>3 DEF CallsCounted
<1> QED
  BY <1>6, <1>7, <1>9, <1>10

LEMMA PayInv == SInv /\ Pay => SInv'
<1> SUFFICES ASSUME SInv, Pay PROVE SInv'
  OBVIOUS
<1> USE DEF SInv
<1> DEFINE i == held.id
<1>1. /\ held # None /\ held \in FullJob /\ i \in Ids
      /\ due \in {"stt", "detection"} /\ due' = "store"
      /\ held' = held /\ rows' = rows /\ crashes' = crashes
  BY DEF Pay, SType, FullJob, Snapshots
<1>2. /\ rows[i] # None /\ Readable(rows[i])
      /\ Kept(i) \in FullJob
      /\ Step(Kept(i), held) /\ OneCall(Kept(i), held) /\ Kept(i).ts <= held.ts
      /\ due = Owed(Kept(i), held)
  BY <1>1 DEF HeldFollows, Follows, RowsSound
<1>3. SType'
  BY <1>1 DEF Pay, SType
<1>4. RowsSound' /\ \A k \in Ids : Recorded(k)' = Recorded(k)
  BY SameRows DEF Pay, SType, Used
<1>5. HeldFollows'
  BY <1>1, <1>2 DEF Pay, HeldFollows, Follows, Used, Kept
<1>6. /\ Calls(i)' = Calls(i) + 1
      /\ \A k \in Ids \ {i} : Calls(k)' = Calls(k)
  BY <1>1 DEF Pay, Calls, SType
<1>7. Accounts(held) = Recorded(i) + 1
  BY <1>1, <1>2 DEF Step, Recorded, Stored, Kept
<1>8. CallsCounted'
  <2>1. \A k \in Ids : /\ ~Storing(k) /\ (Storing(k)' <=> k = i)
    BY <1>1, RowAssumption DEF Storing
  <2>2. \A k \in Ids : Recorded(k) \in Nat /\ Calls(k) \in Nat /\ crashes[k] \in Nat
    BY CountsNat
  <2> QED
    BY <1>1, <1>4, <1>6, <1>7, <2>1, <2>2 DEF CallsCounted
<1> QED
  BY <1>3, <1>4, <1>5, <1>8

\* A store writes the held job over the row it follows.
LEMMA StoreWrites ==
  ASSUME SInv, Store
  PROVE  /\ held # None /\ held \in FullJob /\ held.id \in Ids
         /\ held' = held /\ due = "store" /\ due' = "nothing"
         /\ rows'[held.id] = AsRow(held)
         /\ \A k \in Ids \ {held.id} : rows'[k] = rows[k]
         /\ DOMAIN rows' = Ids
         /\ rows[held.id] # None =>
              \/ AsRow(held) = rows[held.id]
              \/ /\ Step(Kept(held.id), held) /\ OneCall(Kept(held.id), held)
                 /\ Kept(held.id).ts <= held.ts
<1>1. /\ held # None /\ held \in FullJob /\ held.id \in Ids
      /\ held' = held /\ due = "store" /\ due' = "nothing"
  BY DEF SInv, Store, SType, FullJob, Snapshots
<1>2. /\ rows'[held.id] = AsRow(held)
      /\ \A k \in Ids \ {held.id} : rows'[k] = rows[k]
      /\ DOMAIN rows' = Ids
  BY <1>1 DEF SInv, Store, SType
<1>3. rows[held.id] # None => rows[held.id] = AsRow(Kept(held.id))
  BY <1>1 DEF SInv, HeldFollows, RowsSound
<1> QED
  BY <1>1, <1>2, <1>3 DEF SInv, HeldFollows, Follows

LEMMA StoreInv == SInv /\ Store => SInv'
<1> SUFFICES ASSUME SInv, Store PROVE SInv'
  OBVIOUS
<1> USE DEF SInv
<1> DEFINE i == held.id
<1>1. /\ held # None /\ held \in FullJob /\ i \in Ids /\ Sound(held)
      /\ held.ts <= now /\ Used(i)
      /\ held' = held /\ due = "store" /\ due' = "nothing"
      /\ rows'[i] = AsRow(held) /\ \A k \in Ids \ {i} : rows'[k] = rows[k]
      /\ DOMAIN rows' = Ids
  BY StoreWrites DEF SType, HeldFollows
<1>2. /\ rows'[i] # None /\ Readable(rows'[i]) /\ AsJob(rows'[i]) = held
  BY <1>1, ReadWritten
<1>3. SType'
  BY <1>1 DEF Store, SType
<1>4. RowsSound'
  BY <1>1, <1>2 DEF Store, RowsSound, Kept, Used
<1>5. HeldFollows'
  BY <1>1, <1>2 DEF Store, HeldFollows, Follows, Kept, Used
<1>6. CallsCounted'
  <2>1. /\ Recorded(i)' = Accounts(held)
        /\ \A k \in Ids \ {i} : Recorded(k)' = Recorded(k)
    BY <1>1, <1>2 DEF Recorded, Stored
  <2>2. \A k \in Ids : /\ Storing(k) <=> k = i
                       /\ ~Storing(k)' /\ Calls(k)' = Calls(k) /\ crashes'[k] = crashes[k]
    BY <1>1 DEF Storing, Store, Calls
  <2>3. \A k \in Ids : Recorded(k) \in Nat /\ Calls(k) \in Nat /\ crashes[k] \in Nat
    BY CountsNat
  <2>4. Accounts(held) \in Nat
    BY <1>1, AccountsNat
  <2> QED
    BY <1>1, <2>1, <2>2, <2>3, <2>4 DEF CallsCounted
<1> QED
  BY <1>3, <1>4, <1>5, <1>6

LEMMA RestInv == SInv /\ (Release \/ Crash \/ Tick \/ UNCHANGED svars) => SInv'
<1> SUFFICES ASSUME SInv, Release \/ Crash \/ Tick \/ UNCHANGED svars PROVE SInv'
  OBVIOUS
<1> USE DEF SInv
<1>1. /\ rows' = rows /\ uuids' = uuids /\ paid' = paid /\ source' = source
      /\ now' \in Nat /\ now <= now' /\ drawn' \in Nat
      /\ source = "uuid" \/ drawn' = drawn
  BY DEF Release, Crash, Tick, svars, SType
<1>2. \/ held' = None /\ due' = "nothing"
      \/ held' = held /\ due' = due
  BY DEF Release, Crash, Tick, svars, SType
<1>3. /\ crashes' \in [Ids -> Nat]
      /\ \A k \in Ids : crashes[k] <= crashes'[k]
      /\ \A k \in Ids : Storing(k) => Storing(k)' \/ crashes'[k] = crashes[k] + 1
      /\ \A k \in Ids : Storing(k)' => Storing(k) /\ held' = held /\ crashes'[k] = crashes[k]
  <2>1. CASE Crash
    <3>1. /\ held # None /\ held.id \in Ids /\ held' = None
          /\ crashes' = [crashes EXCEPT ![held.id] = @ + 1]
      BY <2>1 DEF Crash, SType, FullJob, Snapshots
    <3> QED
      BY <3>1 DEF SType, Storing
  <2>2. CASE Release \/ Tick \/ UNCHANGED svars
    BY <2>2 DEF Release, Tick, svars, SType, Storing
  <2> QED
    BY <2>1, <2>2
<1>4. SType'
  <2>1. held' # None => held' \in FullJob /\ Sound(held') /\ held'.ts <= now'
    BY <1>1, <1>2 DEF SType, FullJob, Snapshots
  <2> QED
    BY <1>1, <1>2, <1>3, <2>1 DEF SType
<1>5. RowsSound' /\ \A k \in Ids : Recorded(k)' = Recorded(k)
  <2>1. \A k \in Ids : Used(k) => Used(k)'
    BY <1>1 DEF Used
  <2> QED
    BY <1>1, <2>1, SameRows
<1>6. HeldFollows'
  BY <1>1, <1>2 DEF HeldFollows, Follows, Used, Kept
<1>7. CallsCounted'
  <2>1. \A k \in Ids : Calls(k)' = Calls(k)
    BY <1>1 DEF Calls
  <2>2. \A k \in Ids : Recorded(k) \in Nat /\ Calls(k) \in Nat
                       /\ crashes[k] \in Nat /\ crashes'[k] \in Nat
    BY <1>3, CountsNat
  <2> QED
    BY <1>3, <1>5, <2>1, <2>2 DEF CallsCounted
<1> QED
  BY <1>4, <1>5, <1>6, <1>7

LEMMA SNextInv == SInv /\ [SNext]_svars => SInv'
<1> SUFFICES ASSUME SInv, [SNext]_svars PROVE SInv'
  OBVIOUS
<1>1. ASSUME NEW i \in Ids, LoadFails(i) PROVE SInv'
  BY <1>1, RestInv DEF LoadFails
<1>2. ASSUME Handle PROVE SInv'
  <2>1. ASSUME NEW c \in Call, AdvanceRaises(c) PROVE SInv'
    BY <2>1, RestInv DEF AdvanceRaises
  <2>2. ASSUME NEW e \in Strange, EventUnknown(e) PROVE SInv'
    BY <2>2, RestInv DEF EventUnknown
  <2> QED
    BY <1>2, <2>1, <2>2, AdvanceInv DEF Handle
<1> QED
  BY <1>1, <1>2, CreateInv, LoadInv, PayInv, StoreInv, RestInv DEF SNext

\* The invariant of every behaviour of the store.
THEOREM StoreInvariant == SSpec => []SInv
BY SInitInv, SNextInv, PTL DEF SSpec

-----------------------------------------------------------------------------
(* What follows from it.                                                   *)

\* A restart reads back the snapshot the process held after its last store.
THEOREM ReadBackProved == SSpec => []ReadBackIsHeld
<1>1. SInv => ReadBackIsHeld
  BY DEF SInv, HeldFollows, ReadBackIsHeld, Stored, Follows, Kept
<1> QED
  BY <1>1, StoreInvariant, PTL

\* Only a crash can make the process pay for the same call again.
THEOREM RepeatedCallsProved == SSpec => []RepeatedByCrashesOnly
<1>1. SInv => RepeatedByCrashesOnly
  BY DEF SInv, CallsCounted, RepeatedByCrashesOnly
<1> QED
  BY <1>1, StoreInvariant, PTL

\* A store keeps the references of the row it writes over.
LEMMA StoreKeeps ==
  ASSUME SInv, Store, NEW i \in Ids, rows[i] # None, rows'[i] # rows[i]
  PROVE  /\ Stored(i) /\ Stored(i)'
         /\ rows'[i].audio_ref = rows[i].audio_ref
         /\ rows[i].ts <= rows'[i].ts
         /\ OneCall(AsJob(rows[i]), AsJob(rows'[i]))
         /\ rows[i].transcript_ref # None => rows'[i].transcript_ref = rows[i].transcript_ref
         /\ rows[i].result_ref # None => rows'[i].result_ref = rows[i].result_ref
<1>1. /\ i = held.id /\ held \in FullJob
      /\ rows'[i] = AsRow(held)
      /\ Step(Kept(i), held) /\ OneCall(Kept(i), held) /\ Kept(i).ts <= held.ts
  BY StoreWrites
<1>2. /\ Readable(rows[i]) /\ rows[i] = AsRow(Kept(i)) /\ Kept(i) \in FullJob
  BY <1>1, StoreWrites DEF SInv, HeldFollows, RowsSound
<1>3. /\ AsJob(rows'[i]) = held /\ Readable(rows'[i]) /\ rows'[i] # None
      /\ rows'[i].audio_ref = held.audio_ref /\ rows'[i].ts = held.ts
      /\ rows'[i].transcript_ref = held.transcript_ref
      /\ rows'[i].result_ref = held.result_ref
  BY <1>1, ReadWritten
<1>4. /\ rows[i].audio_ref = Kept(i).audio_ref /\ rows[i].ts = Kept(i).ts
      /\ rows[i].transcript_ref = Kept(i).transcript_ref
      /\ rows[i].result_ref = Kept(i).result_ref
  BY <1>2, ReadWritten
<1> QED
  BY <1>1, <1>2, <1>3, <1>4 DEF Stored, Step, Kept

\* All other steps leave every row as it is.
LEMMA OthersKeepRows ==
  ASSUME [SNext]_svars, ~Store
  PROVE  rows' = rows
<1>1. ASSUME Handle PROVE rows' = rows
  BY <1>1 DEF Handle, Advance, AdvanceRaises, EventUnknown, svars
<1> QED
  BY <1>1 DEF SNext, Create, Load, LoadFails, Pay, Release, Crash, Tick, svars

\* Nothing but a payment pays, and it pays for what the row does not have.
LEMMA PaidIsNew ==
  ASSUME SInv, [SNext]_svars, NEW i \in Ids, rows[i] # None
  PROVE  /\ rows[i].transcript_ref # None => paid'[i].stt = paid[i].stt
         /\ rows[i].result_ref # None => paid'[i].detection = paid[i].detection
<1>1. CASE Pay
  <2>1. /\ held # None /\ held.id \in Ids /\ due \in {"stt", "detection"}
        /\ paid' = [paid EXCEPT ![held.id][due] = @ + 1]
    BY <1>1 DEF SInv, Pay, SType, FullJob, Snapshots
  <2>2. CASE i = held.id
    <3>1. /\ Kept(i) \in FullJob /\ rows[i] = AsRow(Kept(i))
          /\ Step(Kept(i), held) /\ due = Owed(Kept(i), held)
      BY <2>1, <2>2 DEF SInv, HeldFollows, Follows, RowsSound
    <3>2. /\ rows[i].transcript_ref = Kept(i).transcript_ref
          /\ rows[i].result_ref = Kept(i).result_ref
      BY <3>1, ReadWritten
    <3> QED
      BY <2>1, <2>2, <3>1, <3>2 DEF Step, SInv, SType
  <2>3. CASE i # held.id
    BY <2>1, <2>3 DEF SInv, SType
  <2> QED
    BY <2>2, <2>3
<1>2. CASE ~Pay
  <2>1. ASSUME Handle PROVE paid' = paid
    BY <2>1 DEF Handle, Advance, AdvanceRaises, EventUnknown, svars
  <2>2. paid' = paid
    BY <1>2, <2>1 DEF SNext, Create, Load, LoadFails, Store, Release, Crash, Tick, svars
  <2> QED
    BY <2>2
<1> QED
  BY <1>1, <1>2

\* What a row has is kept and never paid for again.
THEOREM StoredWorkProved == SSpec => StoredWorkKept
<1>1. ASSUME SInv, [SNext]_svars, NEW i \in Ids, rows[i] # None
      PROVE  /\ rows[i].transcript_ref # None =>
                  rows'[i].transcript_ref = rows[i].transcript_ref
             /\ rows[i].result_ref # None => rows'[i].result_ref = rows[i].result_ref
  BY <1>1, StoreKeeps, OthersKeepRows
<1>2. SInv /\ [SNext]_svars =>
        [\A i \in Ids : rows[i] # None =>
          /\ rows[i].transcript_ref # None =>
               /\ rows'[i].transcript_ref = rows[i].transcript_ref
               /\ paid'[i].stt = paid[i].stt
          /\ rows[i].result_ref # None =>
               /\ rows'[i].result_ref = rows[i].result_ref
               /\ paid'[i].detection = paid[i].detection]_svars
  BY <1>1, PaidIsNew
<1> QED
  BY <1>2, StoreInvariant, PTL DEF SSpec, StoredWorkKept

\* A row moves only by calls on its own job.
THEOREM RowsMoveProved == SSpec => RowsMoveByCalls
<1>1. SInv /\ [SNext]_svars =>
        [\A i \in Ids : rows[i] # None /\ rows'[i] # rows[i] =>
          /\ Stored(i)
          /\ rows'[i].audio_ref = rows[i].audio_ref
          /\ rows[i].ts <= rows'[i].ts
          /\ OneCall(AsJob(rows[i]), AsJob(rows'[i]))]_svars
  BY StoreKeeps, OthersKeepRows
<1> QED
  BY <1>1, StoreInvariant, PTL DEF SSpec, RowsMoveByCalls

-----------------------------------------------------------------------------
(* Every row implements JobContract.                                       *)

JobVerdict(j) == CASE j.state = "done"               -> "delivered"
                   [] j.state = "permanently_failed" -> "abandoned"
                   [] OTHER                          -> "open"

\* What the contract sees of a job stays as it is.
Unseen(j, k) == /\ k.transcript_ref = j.transcript_ref
                /\ k.result_ref = j.result_ref
                /\ JobVerdict(k) = JobVerdict(j)

\* One step of the contract takes what it sees of j to what it sees of k.
Seen(j, k) ==
  /\ JobVerdict(j) = "open"
  /\ \/ /\ j.transcript_ref = None /\ k.transcript_ref \in Transcripts
        /\ k.result_ref = j.result_ref /\ JobVerdict(k) = "open"
     \/ /\ j.transcript_ref # None /\ j.result_ref = None
        /\ k.result_ref \in Results
        /\ k.transcript_ref = j.transcript_ref /\ JobVerdict(k) = "open"
     \/ /\ j.transcript_ref # None /\ j.result_ref # None
        /\ JobVerdict(k) = "delivered"
        /\ k.transcript_ref = j.transcript_ref /\ k.result_ref = j.result_ref
     \/ /\ j.result_ref = None
        /\ JobVerdict(k) = "abandoned"
        /\ k.transcript_ref = j.transcript_ref /\ k.result_ref = j.result_ref

\* One call on a sound job is one step of the contract, or none.
LEMMA ChangedIsSeen ==
  ASSUME NEW j \in FullJob, Sound(j), NEW c \in Call, NEW k \in Changed(j, c)
  PROVE  Seen(j, k) \/ Unseen(j, k)
<1> USE NoneAssumption DEF FullJob, Snapshots, State, HappyPath
<1>1. ASSUME NEW edge \in Forward, Takes(j, c, edge), k = Moved(j, c, edge.tgt)
      PROVE  Seen(j, k) \/ Unseen(j, k)
  <2>1. PICK e \in Event, s \in State, t \in State : edge = Edge(e, s, t)
    BY DEF Forward, Edge, Event, ForwardEvent
  <2>2. /\ <<e, s, t>> \in { <<"submit_stt", "uploaded", "transcribing">>,
                             <<"stt_callback", "transcribing", "transcribed">>,
                             <<"start_analysis", "transcribed", "analyzing">>,
                             <<"analysis_done", "analyzing", "analyzed">>,
                             <<"commit", "analyzed", "done">> }
        /\ c.event = e /\ j.state = s /\ edge.tgt = t
    BY <1>1, <2>1 DEF Forward, Edge, Takes
  <2>3. /\ e = "stt_callback" => c.transcript_ref \in Transcripts
        /\ e = "analysis_done" => c.result_ref \in Results
    BY <1>1, <2>2 DEF Takes, ArgsPresent, Call
  <2>4. /\ k.state = t
        /\ k.transcript_ref = IF e = "stt_callback" THEN c.transcript_ref
                                                   ELSE j.transcript_ref
        /\ k.result_ref = IF e = "analysis_done" THEN c.result_ref
                                                 ELSE j.result_ref
    BY <1>1, <2>2 DEF Moved
  <2>5. /\ JobVerdict(j) = "open"
        /\ JobVerdict(k) = IF e = "commit" THEN "delivered" ELSE "open"
    BY <2>2, <2>4 DEF JobVerdict
  <2> QED
    BY <2>2, <2>3, <2>4, <2>5 DEF Seen, Unseen, Sound
<1>2. ASSUME MayFail(j, c), k = Failed(j, c)
      PROVE  Unseen(j, k)
  <2>1. /\ k.state = "failed" /\ j.state \in Active
        /\ k.transcript_ref = j.transcript_ref /\ k.result_ref = j.result_ref
    BY <1>2 DEF MayFail, Failed
  <2> QED
    BY <2>1 DEF Unseen, JobVerdict, Active
<1>3. ASSUME MayResume(j, c), k = Resumed(j)
      PROVE  Unseen(j, k)
  <2>1. /\ j.state = "failed" /\ k.state \in {"uploaded", "transcribed"}
        /\ k.transcript_ref = j.transcript_ref /\ k.result_ref = j.result_ref
    BY <1>3 DEF Resumed, MayResume, ResumePoint, Active
  <2> QED
    BY <2>1 DEF Unseen, JobVerdict
<1>4. ASSUME MustGiveUp(j, c), k = GivenUp(j)
      PROVE  Seen(j, k)
  <2>1. /\ j.state = "failed" /\ k.state = "permanently_failed"
        /\ k.transcript_ref = j.transcript_ref /\ k.result_ref = j.result_ref
    BY <1>4 DEF GivenUp, MustGiveUp
  <2> QED
    BY <2>1 DEF Seen, JobVerdict, Sound
<1> QED
  BY <1>1, <1>2, <1>3, <1>4 DEF Changed

\* Nor does the stamp matter.
LEMMA OneCallIsSeen ==
  ASSUME NEW j \in FullJob, Sound(j), NEW k, OneCall(j, k)
  PROVE  Seen(j, k) \/ Unseen(j, k)
<1>0. PICK c \in Call : k \in { [x EXCEPT !.ts = k.ts] : x \in Changed(j, c) }
  BY DEF OneCall
<1>1. PICK x \in Changed(j, c) : k = [x EXCEPT !.ts = k.ts]
  BY <1>0
<1>2. Step(j, x) /\ (Seen(j, x) \/ Unseen(j, x))
  BY ChangedIsStep, ChangedIsSeen
<1>3. /\ k.state = x.state
      /\ k.transcript_ref = x.transcript_ref /\ k.result_ref = x.result_ref
  BY <1>1, <1>2 DEF Step, FullJob, Snapshots
<1>4. JobVerdict(k) = JobVerdict(x)
  BY <1>3 DEF JobVerdict
<1> QED
  BY <1>2, <1>3, <1>4 DEF Seen, Unseen

\* A row shows the references and the verdict of the job it was written for.
LEMMA RowShows ==
  ASSUME NEW i \in Ids, NEW j \in FullJob, rows[i] = AsRow(j)
  PROVE  /\ RowTranscript(i) = j.transcript_ref
         /\ RowResult(i) = j.result_ref
         /\ RowVerdict(i) = JobVerdict(j)
<1>1. Stored(i)
  BY ReadWritten DEF Stored
<1>2. j.state \in State /\ rows[i].state = Text[j.state]
  BY NoneAssumption DEF AsRow, Written, FullJob, Snapshots
<1>3. Named(rows[i].state) = j.state
  BY <1>2, NamedText
<1> QED
  BY <1>1, <1>3, ReadWritten DEF RowTranscript, RowResult, RowVerdict, JobVerdict

LEMMA RowShowsNext ==
  ASSUME NEW i \in Ids, NEW j \in FullJob, rows'[i] = AsRow(j)
  PROVE  /\ RowTranscript(i)' = j.transcript_ref
         /\ RowResult(i)' = j.result_ref
         /\ RowVerdict(i)' = JobVerdict(j)
<1>1. rows'[i] # None /\ Readable(rows'[i]) /\ Stored(i)'
  BY ReadWritten DEF Stored
<1>2. j.state \in State /\ rows'[i].state = Text[j.state]
  BY NoneAssumption DEF AsRow, Written, FullJob, Snapshots
<1>3. Named(rows'[i].state) = j.state
  BY <1>2, NamedText
<1> QED
  BY <1>1, <1>3, ReadWritten DEF RowTranscript, RowResult, RowVerdict, JobVerdict

LEMMA RowInitImplements ==
  ASSUME SInit, NEW i \in Ids
  PROVE  RowContract(i)!Init
<1>1. ~Stored(i)
  BY SInitInv, NothingReadable DEF Stored
<1> QED
  BY <1>1 DEF RowContract!Init, RowTranscript, RowResult, RowVerdict

\* A store is a step of the contract of the stored job and of no other.
LEMMA StoreImplements ==
  ASSUME SInv, Store, NEW i \in Ids
  PROVE  RowContract(i)!Next \/ UNCHANGED RowContract(i)!vars
<1> DEFINE j == Kept(i)
<1>1. CASE rows'[i] = rows[i]
  BY <1>1 DEF RowContract!vars, RowTranscript, RowResult, RowVerdict, Stored
<1>2. CASE rows[i] = None /\ rows'[i] # rows[i]
  <2>1. /\ i = held.id /\ held \in FullJob /\ rows'[i] = AsRow(held)
        /\ Sound(held) /\ held.state = "uploaded"
    BY <1>2, StoreWrites DEF SInv, SType, HeldFollows
  <2>2. /\ RowTranscript(i)' = None /\ RowResult(i)' = None /\ RowVerdict(i)' = "open"
    BY <2>1, RowShowsNext DEF Sound, JobVerdict
  <2>3. /\ RowTranscript(i) = None /\ RowResult(i) = None /\ RowVerdict(i) = "open"
    BY <1>2 DEF RowTranscript, RowResult, RowVerdict, Stored
  <2> QED
    BY <2>2, <2>3 DEF RowContract!vars
<1>3. CASE rows[i] # None /\ rows'[i] # rows[i]
  <2>1. /\ i = held.id /\ held \in FullJob /\ rows'[i] = AsRow(held)
        /\ OneCall(j, held)
    BY <1>3, StoreWrites
  <2>2. rows[i] = AsRow(j) /\ j \in FullJob /\ Sound(j)
    BY <1>3, <2>1, StoreWrites DEF SInv, HeldFollows, RowsSound
  <2>3. Seen(j, held) \/ Unseen(j, held)
    BY <2>1, <2>2, OneCallIsSeen
  <2>4. /\ RowTranscript(i) = j.transcript_ref /\ RowResult(i) = j.result_ref
        /\ RowVerdict(i) = JobVerdict(j)
    BY <2>2, RowShows
  <2>5. /\ RowTranscript(i)' = held.transcript_ref /\ RowResult(i)' = held.result_ref
        /\ RowVerdict(i)' = JobVerdict(held)
    BY <2>1, RowShowsNext
  <2> HIDE DEF j
  <2> QED
    BY <2>3, <2>4, <2>5
       DEF Seen, Unseen, RowContract!vars, RowContract!Next, RowContract!Transcribe,
           RowContract!Analyze, RowContract!Deliver, RowContract!Abandon
<1> QED
  BY <1>1, <1>2, <1>3

LEMMA RowStepImplements ==
  ASSUME SInv, [SNext]_svars, NEW i \in Ids
  PROVE  [RowContract(i)!Next]_(RowContract(i)!vars)
<1>1. CASE Store
  BY <1>1, StoreImplements
<1>2. CASE ~Store
  <2>1. rows' = rows
    BY <1>2, OthersKeepRows
  <2> QED
    BY <2>1 DEF RowContract!vars, RowTranscript, RowResult, RowVerdict, Stored
<1> QED
  BY <1>1, <1>2

\* Every row implements the contract of its job: one transcript, one result from
\* a transcript, no result thrown away, one final verdict, over any number of
\* crashes and restarts and whatever happens to the other jobs.
THEOREM RowRefines ==
  ASSUME NEW i \in Ids
  PROVE  SSpec => RowContract(i)!Spec
<1>1. SInit => RowContract(i)!Init
  BY RowInitImplements
<1>2. SInv /\ [SNext]_svars => [RowContract(i)!Next]_(RowContract(i)!vars)
  BY RowStepImplements
<1> QED
  BY <1>1, <1>2, StoreInvariant, PTL DEF SSpec, RowContract!Spec

\* The same of all rows at once, in the form that the run checks.
THEOREM RowsRefine == SSpec => RowsImplementContract
<1>1. SInit => \A i \in Ids : RowContract(i)!Init
  BY RowInitImplements
<1>2. SInv /\ [SNext]_svars =>
        [\A i \in Ids : rows'[i] # rows[i] =>
                          [RowContract(i)!Next]_(RowContract(i)!vars)]_svars
  BY RowStepImplements
<1> QED
  BY <1>1, <1>2, StoreInvariant, PTL DEF SSpec, RowsImplementContract
=============================================================================
