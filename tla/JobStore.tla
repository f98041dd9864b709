------------------------------ MODULE JobStore ------------------------------
(***************************************************************************)
(* Jobs in memory and in rows.  new_job names a job (IdSource) and stamps  *)
(* it (Clock); advance stamps every change; Job.__post_init__ turns the    *)
(* strings of a row back into states.  One process holds one job at a      *)
(* time, makes the call a transition stands for, stores the job after      *)
(* every transition and may crash between any two of these steps; rows are *)
(* all that survives.  The process and the rows are external: the test     *)
(* suite says that the orchestrator persists after each transition, and    *)
(* the package docstring names orchestrator and repository.                *)
(***************************************************************************)
EXTENDS JobRules

LOCAL INSTANCE Functions

CONSTANTS
  Ids,          \* a set 1 .. n: how many jobs there can be
  Audios,       \* the references a recording may have
  Text,         \* the string each State and Event is written as
  Strange,      \* strings that name no State and no Event
  MaxNow,       \* bound: readings of the clock
  MaxCrashes    \* bound: crashes in all

ASSUME IdAssumption == Ids \subseteq Nat

ASSUME TextAssumption ==
  /\ DOMAIN Text = State \cup Event
  /\ \A x, y \in State \cup Event : Text[x] = Text[y] => x = y
  /\ \A x, y \in State \cup Event : Text[x] # y
  /\ \A x \in State \cup Event : Text[x] \notin Strange \cup {None}
  /\ None \notin Strange

ASSUME StoreBoundAssumption == MaxNow \in Nat /\ MaxCrashes \in Nat

VARIABLES
  rows,      \* per id the stored row, or None
  held,      \* the job in the memory of the process, or None
  due,       \* what the process owes the held job: a paid call, a store
  now,       \* the clock
  source,    \* which IdSource the process was given
  drawn,     \* SequentialIdSource._n, in memory
  uuids,     \* ids a UuidIdSource cannot produce again
  paid,      \* history: per id the calls paid to each provider
  crashes    \* history: per id the crashes while the job was held

svars == <<rows, held, due, now, source, drawn, uuids, paid, crashes>>

-----------------------------------------------------------------------------
(* Jobs, rows and strings.                                                 *)

\* Every job or row whose states are written as members of S.
Snapshots(S) ==
  [id : Ids, audio_ref : Audios, ts : Nat, state : S, failed_from : S \cup {None},
   transcript_ref : Transcripts \cup {None}, result_ref : Results \cup {None},
   attempts : Nat, error : Errors \cup {None}]

FullJob == Snapshots(State)

Row == Snapshots({ Text[x] : x \in State })

ASSUME RowAssumption == None \notin FullJob \cup Row

\* new_job.
Fresh(i, audio) ==
  [id |-> i, audio_ref |-> audio, ts |-> now,
   state |-> "uploaded", transcript_ref |-> None, result_ref |-> None,
   failed_from |-> None, attempts |-> 0, error |-> None]

Written(x) == IF x = None THEN None ELSE Text[x]

\* A job as a row keeps it: states are strings.
AsRow(j) == [j EXCEPT !.state = Written(@), !.failed_from = Written(@)]

Named(s) == CHOOSE x \in State : Text[x] = s

\* State(s) raises on a string that names no state.
Readable(row) == \A s \in {row.state, row.failed_from} \ {None} :
                   \E x \in State : Text[x] = s

\* Mutant: only the state is turned back, as before the first review.
AsJobStateOnly(row) == [row EXCEPT !.state = Named(@)]

\* Job.__post_init__ on a row.
AsJob(row) == [row EXCEPT !.state = Named(@),
                          !.failed_from = IF @ = None THEN None ELSE Named(@)]

-----------------------------------------------------------------------------
(* What advance returns for a job with all its fields.                     *)

\* An event may be given by name: Event(event) raises on other strings.
Heard(e) == { v \in Event : v = e \/ Text[v] = e }

\* The snapshots advance goes on to; none where it raises or absorbs.
Changed(j, c) ==
  { Moved(j, c, edge.tgt) : edge \in { e \in Forward : Takes(j, c, e) } }
  \cup (IF MayFail(j, c) THEN {Failed(j, c)} ELSE {})
  \cup (IF MayResume(j, c) THEN {Resumed(j)} ELSE {})
  \cup (IF MustGiveUp(j, c) THEN {GivenUp(j)} ELSE {})

Same(j, c) == IF Absorbs(j, c) THEN {j} ELSE {}

\* The job advance returns, as a set: empty where it raises.
Advanced(j, c) == { [k EXCEPT !.ts = now] : k \in Changed(j, c) } \cup Same(j, c)

-----------------------------------------------------------------------------
(* The steps.                                                              *)

UuidIdSource == Ids \ uuids

SequentialIdSource == {drawn + 1} \cap Ids

\* Mutant: the product is given the tests' source.
NewIdSequential == SequentialIdSource

\* ids.new_id().
NewId == IF source = "uuid" THEN UuidIdSource ELSE SequentialIdSource

Create == /\ held = None
          /\ \E i \in NewId, a \in Audios :
               /\ held' = Fresh(i, a)
               /\ uuids' = uuids \cup {i}
          /\ due' = "store"
          /\ drawn' = drawn + 1
          /\ UNCHANGED <<rows, now, source, paid, crashes>>

Load(i) == /\ held = None
           /\ rows[i] # None
           /\ Readable(rows[i])
           /\ held' = AsJob(rows[i])
           /\ UNCHANGED <<rows, due, now, source, drawn, uuids, paid, crashes>>

\* Job(...) raises: the row stays as it is.
LoadFails(i) == /\ held = None
                /\ rows[i] # None
                /\ ~Readable(rows[i])
                /\ UNCHANGED svars

\* The call a transition stands for is paid before the job is stored.
Owed(j, k) == CASE k.state = "transcribing" /\ j.state # k.state -> "stt"
                [] k.state = "analyzing"    /\ j.state # k.state -> "detection"
                [] OTHER                                         -> "store"

\* advance(held, event, ...), the event given by name, as a queue gives it.
Advance(c) ==
  /\ c.event \in Heard(Text[c.event])
  /\ \E k \in Advanced(held, c) : held' = k /\ due' = Owed(held, k)
  /\ UNCHANGED <<rows, now, source, drawn, uuids, paid, crashes>>

\* IllegalTransition: the process keeps the job it had.
AdvanceRaises(c) == Refuses(held, c) /\ UNCHANGED svars

\* Event(event) raises.
EventUnknown(e) == Heard(e) = {} /\ UNCHANGED svars

Handle == /\ held # None
          /\ due = "nothing"
          /\ \/ \E c \in Call : Advance(c) \/ AdvanceRaises(c)
             \/ \E e \in Strange : EventUnknown(e)

Pay == /\ due \in {"stt", "detection"}
       /\ paid' = [paid EXCEPT ![held.id][due] = @ + 1]
       /\ due' = "store"
       /\ UNCHANGED <<rows, held, now, source, drawn, uuids, crashes>>

Store == /\ due = "store"
         /\ rows' = [rows EXCEPT ![held.id] = AsRow(held)]
         /\ due' = "nothing"
         /\ UNCHANGED <<held, now, source, drawn, uuids, paid, crashes>>

Release == /\ due = "nothing"
           /\ held' = None
           /\ UNCHANGED <<rows, due, now, source, drawn, uuids, paid, crashes>>

CrashesLeft == FoldFunction(LAMBDA n, sum : n + sum, 0, crashes) < MaxCrashes

\* The test source numbers the jobs of one process that is never restarted.
Crash == /\ held # None
         /\ source = "uuid"
         /\ CrashesLeft
         /\ crashes' = [crashes EXCEPT ![held.id] = @ + 1]
         /\ held' = None
         /\ due' = "nothing"
         /\ drawn' = 0
         /\ UNCHANGED <<rows, now, source, uuids, paid>>

\* SystemClock between two readings; under FixedClock it never happens.
Tick == /\ now < MaxNow
        /\ now' = now + 1
        /\ UNCHANGED <<rows, held, due, source, drawn, uuids, paid, crashes>>

\* A row that another version wrote, in a state this one does not have.
StrangeRows(i) == { [AsRow(Fresh(i, a)) EXCEPT !.state = s] :
                      a \in Audios, s \in Strange }

SInit == /\ now = 0
         /\ source \in {"uuid", "sequential"}
         /\ rows \in [Ids -> {None} \cup UNION { StrangeRows(i) : i \in Ids }]
         /\ \A i \in Ids : rows[i] # None => source = "uuid" /\ rows[i].id = i
         /\ uuids = { i \in Ids : rows[i] # None }
         /\ held = None
         /\ due = "nothing"
         /\ drawn = 0
         /\ paid = [i \in Ids |-> [stt |-> 0, detection |-> 0]]
         /\ crashes = [i \in Ids |-> 0]

SNext == \/ Create
         \/ \E i \in Ids : Load(i) \/ LoadFails(i)
         \/ Handle
         \/ Pay
         \/ Store
         \/ Release
         \/ Crash
         \/ Tick

SSpec == SInit /\ [][SNext]_svars

-----------------------------------------------------------------------------
(* Properties.                                                             *)

Stored(i) == rows[i] # None /\ Readable(rows[i])

\* A crash loses nothing but time: what a restart reads back from the row is
\* the very snapshot the process held after its last store, so that it takes,
\* absorbs and refuses the same calls (the string states of a row included).
ReadBackIsHeld ==
  held # None /\ due = "nothing" =>
    Stored(held.id) /\ AsJob(rows[held.id]) = held

\* The paid calls a job accounts for: one per failure, one per reference and
\* the one that is running.
Accounts(j) == j.attempts + (IF j.transcript_ref # None THEN 1 ELSE 0)
                          + (IF j.result_ref # None THEN 1 ELSE 0)
                          + (IF j.state \in Active THEN 1 ELSE 0)

Recorded(i) == IF Stored(i) THEN Accounts(AsJob(rows[i])) ELSE 0

Calls(i) == paid[i].stt + paid[i].detection

Storing(i) == held # None /\ held.id = i /\ due = "store"

\* Nothing is bought twice but what a crash made the process forget: every
\* call a row accounts for was paid, and beyond these at most one per crash
\* and the one about to be stored.
RepeatedByCrashesOnly ==
  \A i \in Ids :
    /\ Recorded(i) <= Calls(i)
    /\ Calls(i) <= Recorded(i) + crashes[i] + (IF Storing(i) THEN 1 ELSE 0)

\* What is stored stays stored and is never bought again, over any number of
\* crashes, restarts and redeliveries.
StoredWorkKept ==
  [][\A i \in Ids : rows[i] # None =>
       /\ rows[i].transcript_ref # None =>
            /\ rows'[i].transcript_ref = rows[i].transcript_ref
            /\ paid'[i].stt = paid[i].stt
       /\ rows[i].result_ref # None =>
            /\ rows'[i].result_ref = rows[i].result_ref
            /\ paid'[i].detection = paid[i].detection]_svars

\* What one call makes of j is k, but for the stamp.
OneCall(j, k) == \E c \in Call : k \in { [x EXCEPT !.ts = k.ts] : x \in Changed(j, c) }

\* A row is written for one recording and moves only by calls on that very
\* job, dated no earlier than the last: no other job, no restarted id source,
\* no forgotten transition and no redelivery ever replaces or restamps it.
RowsMoveByCalls ==
  [][\A i \in Ids : rows[i] # None /\ rows'[i] # rows[i] =>
       /\ Stored(i)
       /\ rows'[i].audio_ref = rows[i].audio_ref
       /\ rows[i].ts <= rows'[i].ts
       /\ OneCall(AsJob(rows[i]), AsJob(rows'[i]))]_svars

-----------------------------------------------------------------------------
(* What a reader of the rows sees of one job: JobContract.                 *)

RowTranscript(i) == IF Stored(i) THEN rows[i].transcript_ref ELSE None

RowResult(i) == IF Stored(i) THEN rows[i].result_ref ELSE None

RowVerdict(i) ==
  CASE Stored(i) /\ Named(rows[i].state) = "done"               -> "delivered"
    [] Stored(i) /\ Named(rows[i].state) = "permanently_failed" -> "abandoned"
    [] OTHER                                                    -> "open"

RowContract(i) == INSTANCE JobContract
                  WITH transcript <- RowTranscript(i),
                       result     <- RowResult(i),
                       verdict    <- RowVerdict(i)

\* Every row implements the contract of its job, over any number of crashes,
\* restarts, releases and redeliveries and whatever is done for other jobs:
\* \A i \in Ids : RowContract(i)!Spec, written as TLC evaluates it (while a row
\* stays as it is, so does what the contract sees of it).
RowsImplementContract ==
  /\ \A i \in Ids : RowContract(i)!Init
  /\ [][\A i \in Ids : rows'[i] # rows[i] =>
                          [RowContract(i)!Next]_(RowContract(i)!vars)]_svars
=============================================================================
