----------------------------- MODULE GoldenGate -----------------------------
(***************************************************************************)
(* A golden meeting on its way to the scorer: labels.validate_golden, then *)
(* the first loop of score.score_detection, as report.main runs them.      *)
(*                                                                         *)
(* The gate looks at the segments, then at the flags one by one, then at   *)
(* the references both ways, and refuses at the first thing it finds       *)
(* wrong.  The scorer grounds the golden flags again and raises when one   *)
(* of them has no segment.  A quote <<>> is a string of white space; the   *)
(* empty string is NoQuote.                                                *)
(***************************************************************************)
EXTENDS Grounding

CONSTANTS
  Meetings,      \* [transcript |-> segments with id and flags, flags |-> golden flags]
  NoQuote        \* the empty string

ASSUME MeetingsAssumption ==
  \A m \in Meetings : Len(m.flags) \in Nat /\ DOMAIN m.flags = 1 .. Len(m.flags)

VARIABLES
  meeting,
  segset,        \* flag_segset: the flags that passed, with their segments
  at,            \* the flag a loop is at
  received,      \* the scorer's golden flags
  stage          \* "segments", "flags", "forward", "backward", "passed",
                 \* "scored", or why it ended: "refused", "raised"

gvars == <<meeting, segset, at, received, stage>>

Transcript == meeting.transcript
Flags == meeting.flags

\* resolve_flag_segments(flag, transcript, span=False)
Quoting(f) == { st \in { f.statements[n] : n \in DOMAIN f.statements } : st.quote # <<>> }
SegsOf(f) == UNION { GroundQuote(st, Transcript) : st \in Quoting(f) }
Ungrounded(f) == { st \in Quoting(f) : GroundQuote(st, Transcript) = {} }

Refuse == stage' = "refused" /\ UNCHANGED <<meeting, segset, at, received>>

Repeated(i) == \E k \in 1 .. i - 1 : Transcript[k].id = Transcript[i].id

CheckSegments ==
  /\ stage = "segments"
  /\ IF \E i \in DOMAIN Transcript : Repeated(i)
     THEN Refuse
     ELSE stage' = "flags" /\ UNCHANGED <<meeting, segset, at, received>>

\* Mutant: a flag id used twice overwrites the first flag's segments.
WellFormedAnyId(f) ==
  /\ f.statements # <<>>
  /\ \A n \in DOMAIN f.statements : /\ f.statements[n].speaker # NoSpeaker
                                    /\ f.statements[n].quote # NoQuote
  /\ Ungrounded(f) = {}

WellFormed(f) ==
  /\ f.id \notin DOMAIN segset
  /\ f.statements # <<>>
  /\ \A n \in DOMAIN f.statements : /\ f.statements[n].speaker # NoSpeaker
                                    /\ f.statements[n].quote # NoQuote
  /\ Ungrounded(f) = {}

CheckFlag ==
  /\ stage = "flags" /\ at \in DOMAIN Flags
  /\ IF WellFormed(Flags[at])
     THEN /\ segset' = [id \in DOMAIN segset \cup {Flags[at].id} |->
                          IF id = Flags[at].id THEN SegsOf(Flags[at]) ELSE segset[id]]
          /\ at' = at + 1
          /\ UNCHANGED <<meeting, received, stage>>
     ELSE Refuse

EndFlags ==
  /\ stage = "flags" /\ at \notin DOMAIN Flags
  /\ stage' = "forward"
  /\ UNCHANGED <<meeting, segset, at, received>>

CheckForward ==
  /\ stage = "forward"
  /\ IF \A id \in DOMAIN segset : \A i \in segset[id] : id \in Transcript[i].flags
     THEN stage' = "backward" /\ UNCHANGED <<meeting, segset, at, received>>
     ELSE Refuse

\* Mutant: a segment may refer to a flag that quotes it nowhere.
CheckBackwardExists ==
  /\ stage = "backward"
  /\ IF \A i \in DOMAIN Transcript : Transcript[i].flags \subseteq DOMAIN segset
     THEN stage' = "passed" /\ at' = 1 /\ UNCHANGED <<meeting, segset, received>>
     ELSE Refuse

CheckBackward ==
  /\ stage = "backward"
  /\ IF \A i \in DOMAIN Transcript : \A id \in Transcript[i].flags :
          id \in DOMAIN segset /\ i \in segset[id]
     THEN stage' = "passed" /\ at' = 1 /\ UNCHANGED <<meeting, segset, received>>
     ELSE Refuse

ScoreGold ==
  /\ stage = "passed" /\ at \in DOMAIN Flags
  /\ LET segs == SegsOf(Flags[at])
     IN IF segs = {}
        THEN stage' = "raised" /\ UNCHANGED <<meeting, segset, at, received>>
        ELSE /\ received' = Append(received, [id |-> Flags[at].id, segs |-> segs])
             /\ at' = at + 1
             /\ UNCHANGED <<meeting, segset, stage>>

EndGolds ==
  /\ stage = "passed" /\ at \notin DOMAIN Flags
  /\ stage' = "scored"
  /\ UNCHANGED <<meeting, segset, at, received>>

GInit == /\ meeting \in Meetings
         /\ segset = <<>> /\ at = 1 /\ received = <<>> /\ stage = "segments"

GNext == \/ CheckSegments \/ CheckFlag \/ EndFlags \/ CheckForward \/ CheckBackward
         \/ ScoreGold \/ EndGolds

GSpec == GInit /\ [][GNext]_gvars

-----------------------------------------------------------------------------
(* Properties.                                                             *)

Passed == stage \in {"passed", "scored", "raised"}

\* What the gate is for: in a meeting that passed, a segment names a flag
\* exactly if a quote of that flag, and of no other flag of the same id, is
\* grounded in it.
ReferencesAgree ==
  Passed =>
    \A i \in DOMAIN Transcript :
      Transcript[i].flags = { Flags[n].id : n \in { m \in DOMAIN Flags : i \in SegsOf(Flags[m]) } }

\* The scorer receives the golden set that the gate approved: one golden flag
\* per flag, each with an id of its own and the segments the gate approved.
ScoredAsApproved ==
  stage = "scored" =>
    /\ Len(received) = Len(Flags)
    /\ \A m, n \in DOMAIN received : received[m].id = received[n].id => m = n
    /\ \A n \in DOMAIN received : received[n].segs = segset[received[n].id]

\* After the gate the scorer raises for one reason only: a flag all of whose
\* quotes are white space.
RaisesOnBlankOnly ==
  stage = "raised" => Quoting(Flags[at]) = {}

\* Both: gate and scorer, which ground the flags separately, agree.
GoldsAsApproved == ScoredAsApproved /\ RaisesOnBlankOnly

\* validate_golden's docstring: "each flag's quotes are grounded in the
\* transcript", and score_detection's error tells the caller to pass
\* validate_golden first.  A meeting that has passed still raises it.
PassedCanBeScored == Passed => stage # "raised"
=============================================================================
