# A verification project for meeting-tracker

TLA+ models, TLC runs and TLAPS proofs for the Python code of meeting-tracker:
the pipeline that takes a recorded meeting through speech-to-text and
flow-break detection, and the three benches that measure those steps. The code
is Python without dependencies, mostly pure and fail-loud; what makes it hard is
what happens around the pure functions (redelivery, crashes, retries, damaged
rows, untrusted model output) and the exactness of its small algorithms
(grounding, greedy matching, alignment, exact statistics).

## 1. The system

| Component | Source | State it keeps | Operations |
|---|---|---|---|
| Pipeline state machine | `pipeline/pipeline_core/state.py` | one frozen `Job` per recording: state, transcript and result references, failed stage, attempts, error, time stamp | `new_job`, `advance` with seven events, `Job.__post_init__` (rows read back); sources of time and ids |
| Pipeline shell (planned) | only named in `pipeline_core/__init__.py`, `plan.md` | repository row, queue, outstanding provider calls | repository, STT port, ingest, orchestrator, CLI: not written yet |
| Detection labels and loaders | `benchmarks/detection/detect_bench/labels.py` | none (values) | strict golden loader, lenient prediction loader, `validate_golden` |
| Grounding | `detect_bench/grounding.py` | none | `ground_quote`, `ground_quote_span`, `resolve_flag_segments` |
| Detection scoring | `detect_bench/score.py` | none | `_greedy_match`, `score_detection` |
| Detection adapter and report | `detect_bench/detect.py`, `report.py`, `cliutil.py` | none | prompt, response parsing, replay and API ports, command lines |
| Statistics bench | `benchmarks/stats/bench_stats/` | frozen preregistration file | exact and bootstrap intervals, sign test, Holm, power, verdicts |
| STT alignment and scoring | `benchmarks/stt/stt_bench/cer.py`, `score.py`, `report.py` | none | `align_ops`, `_project_span`, `_classify`, `score_clip`, `score_meeting` |
| STT number and date parsing | `stt_bench/korean_numbers.py`, `korean_datetime.py` | none | `parse_number`, `parse_date`, `parse_time` |
| STT golden clips | `stt_bench/synth.py`, `golden.py` | golden clip files | markup, `build_golden`, `validate_golden` |
| STT rendering | `stt_bench/render.py` | audio files | speech synthesis |

How they interact. `advance` is called by a driver (orchestrator) with events
that come from the driver itself, from the STT provider's callback and from the
detector; the driver stores the returned job. The detection bench is a chain of
calls: golden file -> `meeting_from_data` -> `validate_golden`; response text ->
`parse_detection_response` -> `pred_flags_from_items`; both ->
`score_detection`, which grounds every quote and matches flags one to one. The
statistics bench takes the counts of many meetings; the STT bench works on clips.

Nothing in the repository runs concurrently by itself. The hard behaviours are:
events duplicated, delayed, reordered or lost between the driver and the core;
a crash after a step is stored and before it is acknowledged; a time-out racing
a late answer; rows read back damaged; callers with different budgets; quotes
that occur twice, across segments or not at all; ties in the matching; loaders
that must reject a bad golden file and must not reject a bad prediction.

What makes each component correct:

- **Pipeline**: redelivered events are absorbed and never an error; a paid
  transcript or result is never lost or bought twice; a retry budget is kept
  whoever passes it; a job ends; a damaged row concludes nothing; a crash costs at
  most the call that was running, and a row stays the row of its job.
- **Golden gate**: what it lets through is what the scorer needs, and a segment
  names a flag exactly if the flag quotes it.
- **Grounding**: an untrusted hint never loses a quote; a window holds nothing
  the quote does without; a verbatim quote finds its own utterance.
- **Detection scoring**: the matching is one to one and stable, the report adds
  up, and the order of a file says nothing.
- **Response parser**: neither an echo nor a truncated answer passes for the
  model's answer, and "no flags" is said only of answers without flags.
- **Statistics**: a verdict follows the hits, keeps its level, is withheld
  exactly when it could not be reached, and does not depend on tied or empty
  meetings or on the order of tests.
- **STT bench**: a token is a hit if and only if its value was heard; a golden clip
  that passed marks what the author marked.

## 2. Modules

| Module | Models | State and actions |
|---|---|---|
| `JobContract` | what the docstring of `state.py` promises of one recording | transcript, result, verdict; the abstract specification |
| `JobRules` | the tables of `state.py` and what one call of `advance` makes of one snapshot: operators | none |
| `JobMachine` | one job under `advance` | `job` is the frozen snapshot; an action is one way out of `advance` (`MoveForward`, `FailStage`, `ResumeStage`, `GiveUp`, `Absorb`, `Refuse`), taken for any call in any order; `submits`, `starts`, `applied` are history |
| `JobRehydrate` | the same from any row `Job.__post_init__` accepts | `InitRow` |
| `JobStore` | `new_job`, `Clock`, `IdSource`, `Job.__post_init__` and `advance` in a process that keeps jobs in rows of strings | `rows`, `held` (the job in memory), `due` (what the process owes it: a paid call, a store), `now`, `drawn` and `uuids` (id sources); `Create`, `Load`, `Handle` (one call), `Pay`, `Store`, `Release`, `Crash`, `Tick`; `paid` and `crashes` are history. Process and rows are external |
| `JobDelivery` | `JobMachine` behind an at-least-once queue | `queue`, `handed`; driver, provider and detector answers, time-outs, deliveries that may crash before the acknowledgement (external) |
| `Grounding` | `grounding.py`: operators | none |
| `FlagResolution` | `resolve_flag_segments` | the loop over a flag's statements |
| `GoldenGate` | `labels.validate_golden`, then the first loop of `score_detection`, in the order of `report.main` | one action per check, per flag, per golden flag scored |
| `FlagMatching` | `_greedy_match` and `score_detection` | one action per pair taken by each pass |
| `FileOrder` | `FlagMatching` twice, on a prediction file and on the same file reordered, with the loader's numbering of flags without id | the second scoring is `INSTANCE FlagMatching WITH ...` |
| `ResponseParser` | `parse_detection_response` and the loader's refusal | one action per bracket the scanner tries, then the choice |
| `Verdicts` | `verdict_single`, `verdict_paired`, `cluster_sign_test` | one action per return of the two functions |
| `Holm` | `holm_adjust` | one action per test in the sorted loop |
| `KoreanNumbers`, `KoreanDatetime` | `parse_number`, `parse_date`, `parse_time`: operators | none |
| `Alignment` | `align_ops`, `_project_span`: operators | none |
| `Normalization` | what NFC does to a text: operators | none |
| `TokenScoring` | `build_golden`, `validate_golden`, the join of `score_meeting`, `score_clip`, `_classify` | one action per step of the bench and per token judged |
| `GoldenMarkup` | `_strip_markup`, `_parse_fields`, `build_golden` for one turn, an edit by hand, `golden_from_data`, `validate_golden` | one action per token stripped, then one per step of the file's way |
| `JobProofs`, `FlagMatchingProofs`, `GroundingProofs`, `ResponseParserProofs`, `StatisticsProofs`, `AlignmentProofs`, `GoldenClipProofs` | theorems (section 5) about `JobMachine`, `JobRehydrate`, `JobDelivery` and `JobStore`; `FlagMatching` and `FileOrder`; `FlagResolution` and `GoldenGate`; `ResponseParser`; `Verdicts` and `Holm`; `Alignment`; `GoldenMarkup` and `TokenScoring` | |
| `SequenceFacts` | lemmas on recursive functions and flattened sequences that several of them use | |
| `MC*` | instances for TLC | |

`JobRules` is extended by `JobMachine` and `JobStore`, so that both apply the same
transitions; `JobMachine` is extended by `JobRehydrate` and `JobDelivery` and
implements `JobContract`, and so does every row of `JobStore` (`RowContract(i)`, what
row i shows of its recording); `Grounding` is extended by `FlagResolution` and `GoldenGate`;
`FlagMatching` by `FileOrder`; `TokenScoring` extends `Alignment` and
`KoreanDatetime`, which extends `KoreanNumbers`. `GoldenMarkup` and `TokenScoring`
both extend `Normalization`, for the NFC check of the gate, and meet in the golden
clip: the first ends with a clip that passed, the second starts from the parts its
markup says.

What the models abstract, on purpose:

- *Jobs*: `id`, `audio_ref` and `ts` are fields in `JobStore` only, since no decision
  of `advance` reads them. Event arguments are model values. `Text` is any way to
  write states and events as strings that tells them apart; the code's enums
  write them in lower case. `Crash` is possible under `UuidIdSource` only:
  `SequentialIdSource` is for tests and its docstring says so.
- *Text in grounding* is a sequence of words and a word is a model value; the
  code compares characters, but only for equality, containment and length.
  Letter case, white space and punctuation are already collapsed.
- *Ids* of flags, types and segments are numbers in the order of their strings,
  because the sort key reads nothing else of them.
- *Responses* are sequences of pieces, each of which decodes to a value or does
  not; brackets and quotes inside strings are the decoder's (Python's `json`).
- *Statistics*: floats, targets among them, are exact fractions. "The
  Clopper-Pearson bound is below the target" is replaced by the tail probability it
  stands for, which integers decide; `IMPRECISE_ESTIMATE` (given only on request) and the Monte Carlo
  p-value above 20 meetings (`MaxExact`) are left out. `verdict_per_type` maps
  `verdict_single` over the types and adds nothing.
- *Korean text* is a sequence of romanised syllables, each standing for one
  character, and the tables hold a few characters of each kind, since all
  characters of a kind take the same branches. Aliases of names are left out.
  `TokenScoring` is given a script as its parts, each of them in NFC, as
  `_strip_markup` leaves them, with plain text as one part up to the next token;
  transcripts are in NFC, as the scorer makes them. The clean text of a turn need
  not be: two characters of the alphabet join when nothing stands between them.
- *Markup* is a sequence of pieces: `[[`, `]]`, `|`, field names, words, and the
  two characters that NFC joins. Derived values are reduced to whether they can be
  derived (`Derivable`), because the gate derives them again with the same
  parser; aliases, and blanks around fields, are left out.

Two libraries of operators were compared with the Python code beyond the runs,
while they were written: several thousand random texts for the two parsers and
for alignment, projection and classification gave the same answers.

## 3. Runs

| Run | Question | Instance |
|---|---|---|
| `job_machine` | Do lineage, budgets, paid work and the absorption of redeliveries hold under every sequence of calls, and does the core implement its contract? | two transcripts, two results, callers with budgets 0, 1 and 3 |
| `job_rows` | Is what a restart reads back what was held, is a call repeated only for a crash, does stored work stay, do rows move by calls alone, does each keep the contract? And does a damaged row conclude nothing? | two jobs, one transcript and result, budget 2, one crash, a clock of two readings, rows of an older version; beside it every row with up to two failures |
| `job_delivery` | With duplicates, races and crashes around it: was the stored result computed on the stored transcript, does every job end, is every result delivered? | two transcripts with a result each, budget 2 |
| `detection` | Four models that share no state, side by side. Quotes: hints, verbatim quotes, windows. Golden meetings: does the gate approve what the scorer then uses? Answers: which value of a model's answer is taken? Files: is the matching stable, are all extra pairs confusions, does the report add up, is the order of a file with ids irrelevant? | four segments over all cuts of three words, five castings of speakers, flags of up to two statements; three segments, two flags of up to two statements; every answer of up to three pieces with up to two elements; two golden flags, three predictions, three segments, three types |
| `file_order_no_ids` | The claim about order for files without ids: violated, see below. | two golden flags, three predictions, ids missing |
| `golden_gate_blank` | Can everything that passed the gate be scored: violated, see below. | the meetings of `detection` |
| `quote_hijack` | Does a copy of a golden statement match it: violated, see below. | the quotes of `detection` |
| `statistics` | Verdicts and Holm's procedure; the two share no state and run side by side. | all multisets of up to seven meetings against the targets 0, 0.2, 0.5 and 0.8, of up to five against 0.85; pairs of detectors on up to six; families of up to four p-values |
| `token_scoring` | Is a token a hit exactly when its value was heard, and is a turn that was not heard lost? What does the gate refuse of what was built? Beside it: does a clip that passed mark what the script marked, edited or not? | eight kinds of token, two to four ways to say each value, four contexts; two turns of two tokens, any of them unheard; turns whose parts join at a bracket; every turn of four chunks of markup out of thirteen, one edit |
| `token_scoring_units` | A number heard with a unit its type cannot have: violated, see below. | amounts and percentages |
| `markup_swallowed` | Does all markup of a clip that passed become a token: violated, see below. | every turn of four chunks |
| `built_refused` | Does the gate pass every clip that was built and not edited: violated, see below. | every turn of four chunks |

**Why the bounds are enough.** Two references of a kind are what an overwrite or a
stale answer needs; budgets 0, 1 and 3 disagree in every way (give up at once,
after one failure, the code's default). In the matching, overlaps of 1/3, 1/2, 2/3
and 1 fall on both sides of the threshold, and three predictions for two golden
flags make every tie and contest of one pair with two others. Grounding looks at
no more than `_MAX_SPAN` = 3 consecutive segments, so four make windows that
overlap, nest and compete. The parser's choice compares two candidates at a time,
so three pieces hold one that wins, one before and one after it. Seven meetings
pass the inference floor of six (0.85, the target of the preregistration, stops at
five, where TLC's integers end, and so below the floor: there the runs see it
failed and not met, and `VerdictsFollowHits` holds for every target); six are the
comparison floor at alpha 0.05. Four chunks of markup hold two tokens with text
between them, a token with all its fields, or one that is cut anywhere. Two jobs
are what a confusion of rows needs; one crash repeats one call, and
`RepeatedByCrashesOnly` is proved for any number. Counters that the code leaves
unbounded (`attempts`, `submits`, `starts`) are bounded by the budgets
(`BudgetKept`, and `CallsAccounted`, which is proved); `MaxStored` bounds what a
stored row carries, `MaxNow` the readings of the clock, `MaxCrashes` the crashes.

**Deadlock.** The pipeline runs check it. The others model functions that
return, so their configurations switch it off.

**Fairness** is assumed in `job_delivery` only, for two liveness properties. The
core decides nothing about scheduling; its environment (named in `plan.md` and
the package docstring, not written yet) owes: the driver keeps reading the row
(`WF(Drive)`), a stage without an answer is timed out (`WF(TimesOut)`), a queued
call is not starved (`WF(Deliver(c))` for each). A provider owes nothing: it may
never answer.

## 4. Where code and documents disagree

- **Order of a prediction file without ids** (`file_order_no_ids`).
  `_greedy_match` promises the same score when the order of the predicted flags
  changes. The loader numbers flags without an id by position, and the
  tie-break compares these numbers before types and segments. With ids it holds
  (`OrderBlindWithIds`).
- **A golden flag of white space** (`golden_gate_blank`). `score_detection` tells
  the caller to run `validate_golden` first; a flag whose quotes are white space
  passes the gate, which skips blank quotes, and then raises in the scorer.
  That this is the only way is a part of `GoldsAsApproved`, which is proved.
- **A fuzzy quote that moves** (`quote_hijack`). The docstring of `ground_quote_span`
  widens a fuzzy single segment only to a window that holds *that* segment. The
  code widens it to a window that holds any of the tied candidates, so that a
  prediction that copies a golden statement word for word, with its speaker and
  time, can be grounded apart from it.
- **A number with a foreign unit** (`token_scoring_units`). A comment in `score.py`
  says a number outside the units of its type is deleted. `_salvage_number`
  parses its digits again without the unit: 13 percent heard as 13 won, or
  3000 won heard as 3000 things, is a hit.
- **A token that is not closed** (`markup_swallowed`). `synth.py` says that unbalanced
  markup is an error at once. `[[3|NUMBER|k hello [[world]]` ends at the only `]]`:
  what lies before it, `[[` and all, becomes the token's key, the text is `3`, and
  the clip passes the gate.
- **A built clip that is refused** (`built_refused`). `synth.py` says that a built
  golden file always passes the gate, because both use the same rules, and its
  tests say so too. `_strip_markup` normalises the text while the brackets are in it
  and not after they are gone. A token that ends in an open syllable, with a final
  consonant right behind its bracket, leaves a clean text in which NFC joins the
  two, and the gate refuses it as not normalised. What else can go wrong with a
  clip nobody edited is proved: nothing in the gate but this (`OnlyTwoReasons`) and
  repeated turn ids (`RefusedForTwoReasons`).

A verdict that a reader may not expect, although no document denies it: a detector
that meets its target can stop doing so by one hit more. If that hit makes all
meetings alike, the gate for meetings without spread (`verdict.py:97`), which is
asked before the target, says `DEGENERATE`. Six perfect meetings and one with one
of two hit meet 0.2; seven perfect ones are degenerate. `HitsOnlyHelp` says that
this is the only such case, and that a failure never has one: it is asked first.

Two limits of the STT bench show when the properties of `token_scoring` are
asked without their assumption that what stands next to a token is heard, and
that transcripts carry no sentence marks. A digit heard in the place of the
space behind a number ("3 x" as "30x") aligns with that space and stays outside
the span: the token is a hit. A full stop behind a number without unit ("30.")
becomes part of the number, which then cannot be read: the token is deleted,
although the docstring of `korean_numbers.py` treats surface forms alike.

## 5. Proofs

TLAPS proves, for every value of the constants that satisfies their `ASSUME`s,
all but one of the invariants the passing runs check, and their action
properties:

- **`JobProofs`**, the core: `TypeOK`, `Lineage`, `BudgetKept`, `CallsAccounted` (by proof
  only: the runs check what it becomes with crashes, `RepeatedByCrashesOnly`),
  `RedeliveryAbsorbed`, `PaidWorkKept`, `NeverRepeats`, and that `JobMachine`
  implements `JobContract`. The invariant `IInv` adds to the checked parts what
  relates `applied` to the stage; without it, that an event in effect is
  absorbed does not follow. There is one lemma per action. `NothingOnHollowRow`,
  from any row, needs types only, because each action re-checks what it concludes
  on. `ResultOfTranscript` behind the queue: a late answer may belong to an
  abandoned detection, so `DInv` says that every answer in the queue was computed
  on a transcript in `handed` and that `handed` holds only the transcript of the
  row, which `PaidWorkKept` never replaces.
- **`JobProofs`**, the store: `ReadBackIsHeld`, `RepeatedByCrashesOnly`, `StoredWorkKept`,
  `RowsMoveByCalls`, for any number of jobs and crashes. None is inductive: the
  job in memory runs ahead of its row. The invariant `SInv` relates the two (the
  held job is the row read back, or one call ahead of it while something is due),
  says that calls and rows of an id balance up to the crashes, and that a row is
  sound (`Sound`: the references of its state), stands under its own id, and that
  the id has been drawn. Two lemmas about the strings
  (`NamedText`, `ReadWritten`) use only that `Text` tells states apart.
  From the same invariant: every row implements `JobContract` (`RowsRefine` is the
  property the run checks, `RowRefines` the refinement proper, for each id). A
  store is the only step that changes a row, and writes a job that is one call
  ahead of it; one call takes the contract one step or none (`OneCallIsSeen`), a
  new row shows nothing yet, and every other step is a stutter. So what the
  docstring promises of a recording holds of what is on disk, whatever the
  process holds when it dies.
- **`FlagMatchingProofs`**: types, `ExtrasMistyped`, `NoBlockingPair`, `ScoreBalances`,
  `OrderBlindWithIds`. For stability the invariant says that every candidate out of
  reach is *dominated* by a taken pair that overlaps at least as much; a pair is
  taken only if it is first. The report adds up because a matching that is one
  to one has as many golden flags as predictions, and a column summed over the
  types counts each of its flags once. That the order of the file says nothing
  relates two runs of the algorithm: predictions with ids can be paired with those
  of the reordered file so that predictions the sort cannot tell apart keep their
  order (`TwinsExist`), the sort then orders twins as it orders the pairs they
  stand for (`TwinsInOrder`), and the second matching takes twins of pairs the
  first took (`Mirror`). The reason is `Beaten`: a pair that the first left out
  shares a flag with a pair taken that comes before it, whose twin would have to
  be taken before its own.
- **`GroundingProofs`**: `HintsOnlyChoose` (hints filter and never empty a set, and a
  quote that has one window without hints has it with any), `VerbatimFindsItself`
  (the window it was cut from carries it, and an exact candidate is never
  dropped), `NoBystander` (the windows left are those that hold no other, and a
  window without its first or last segment would be one), `OwnWindowOrNothing`.
  Of the golden gate `ReferencesAgree` and both halves of `GoldsAsApproved`: the
  invariant says what each stage has established (`segset` records the flags
  passed; forward and backward references hold after their stages).
- **`ResponseParserProofs`**: `AnswerNotStolen`, `ZeroMeansNone`, `CutOffIsRefused`,
  `LoaderTakesIt`. The properties are about the end of the scan; `RInv` says of
  every moment that `best` and `fallback` are the best of the candidates passed
  (of equals the last for `best`), and that the fallback has a flag.
- **`StatisticsProofs`**: `FalseAlarmsRare` by turning every outcome round at the
  least significant one: its alarms are as many as the outcomes as extreme, which
  its p-value counts. `NoSideFavoured`: the complements of the hits have the
  product of all denominators, times the meetings, as their sum, so that the two
  roundings are of the same fraction; that the lower one is not above the upper
  one is a fact about halves. `HitsOnlyHelp`: a sum, its rounding and a binomial
  tail are monotone, each by itself, so one hit less keeps a failure and one more
  keeps the target met; what the verdict is then follows from the order of the
  gates. `UninformativeSilent` and `UnderpoweredIsStructural` count outcomes: what
  comes out on a part of the meetings leaves the rest free, so tied meetings
  multiply outcomes and alarms alike; and of a detector ahead in all meetings only
  two outcomes are as extreme, which is `min_attainable_two_sided_p`. Holm:
  `ClosedTesting`, and `AdjustedInOrder`, which no run checks: the loop's running
  maximum is a bar the smaller p-values have passed, and passing it is
  Bonferroni's inequality for the largest set that has to be asked.
- **`AlignmentProofs`**: `AlignCheapest`, what `align_ops` returns edits the golden
  text into the transcribed one, uses every character of both once and in order,
  and has the fewest edits of all scripts that do. The table is a fold of folds and
  is first unrolled (`CostsAre`: each cell is the least of its three neighbours
  plus what the operation costs). The operations at cell i, j are then an edit
  script at the cost of that cell (`AlignCheap`, on i + j), and any other script
  pays at each of its steps at least what the table grows by (`CostsBound`,
  `NoCheaper`). Three facts about spans follow, which no run checks: a text aligned
  with itself gives every span its own words, since a cheapest script then holds
  matches only (`SpanOfItself`); no character of a transcript counts for two
  tokens that a character stands between, since the operation on that character
  separates what each span touches (`SpansApart`); and where the two neighbours of a
  span were put opposite characters of the transcript (or the span ends with the
  text), the span gets all that stands between these and nothing else, however
  much of it was inserted, lost or changed (`SpanBetweenNeighbours`): the operations
  between those of the neighbours are the ones on the span and insertions, and an
  insertion is next to the span because no other operation lies in between.
- **`GoldenClipProofs`**, the markup: `PassedMarksScript`, and
  `BuiltFailsForTwoReasons`, which no run checks: what was built and not edited is
  refused only where stripping joined two pieces. The invariant follows the tokens
  while they are stripped: each came from a bracketed piece of the script
  (`FromScript`), they lie one behind the other (`InOrder`), and as long as nobody
  edits the file they point at their surfaces (`Untouched`).
- **`GoldenClipProofs`**, the bench: `UnheardIsLost`. The invariant `ScoreInv`
  says of the two loops of `score_meeting` that the scores so far are those of the
  tokens in front of the one judged next, each once (`Counts`), and that each is
  just. `RefusedForIdsOrSeams`: the gate refuses what `build_golden` built exactly
  for a repeated turn id or a pair that NFC joins, because offsets and derived
  values come out again as they were built; every part is in NFC by itself, so
  such a pair has one half on each side of a bracket (`SeamOrNfc`). From the same
  invariant, for any script and transcript: in a turn that was transcribed as it
  was said every token is a hit, if its unit is one its type can have and its
  words carry no blanks at the edges (`VerbatimScoredHit`, from `SpanOfItself`).
  Whatever else was heard: a token whose neighbours were aligned is judged by
  exactly what was heard between them, and is a hit if that is its own words
  (`HeardBetweenIsJudged`, from `SpanBetweenNeighbours`). These are the parts of
  `HitMeansSaid` that hold of every text.

Sums, products, flattened sequences and the weights of the binomial are folds and
recursive functions, and the library's induction theorems cannot be used with
them. They are treated by a least counterexample: of the sets, or numbers, for
which the claim fails, one has no smaller (`LeastNatural`, `EverySubset`,
`AllSubsets`, and the lemmas of `SequenceFacts`), and one unfolding refutes it. That
works wherever a recursive function is known to exist, which is shown first
(`FoldsExist`, `RowsExist`, `GrownExists`, `OpsExist`).

Assumptions, each named where its constant is declared: finitely many segments
and golden types, and natural numbers for ids (`FlagMatching`, `FileOrder`), non-negative
budgets and references that are not `None` (`JobRules`), an injective `Text`, ids
from 1 up and rows that are not `None` (`JobStore`), a result computed on one
transcript (`JobDelivery`), sequences where the code has lists and numbers where
it has numbers (`FlagResolution`, `GoldenGate`, `ResponseParser`, `GoldenMarkup`,
`TokenScoring`), parts of a script and transcripts in NFC, no two plain parts in a
row (`TokenScoring`), an alpha below one and integer numerators (`Holm`), no more hits than flags in a
meeting, a target between zero and one, and an alpha below one that the exact sign test can reach, 2/2^20 or more
(`Verdicts`; below it the code has gone over to Monte Carlo, which is not modelled).

Model-checked only: liveness (`EventuallySettled`, `ResultDelivered`), which needs
`ENABLED`, and `HitMeansSaid`. The latter says what the parsers make of every way of
saying a value, and which ways say the same value is a table of the run: for every
text it would be induction over the text through recursive parsers. What holds
without that table is proved, see `GoldenClipProofs`.

## 6. Not modelled

- The pipeline shell (repository, ports, orchestrator): not written. Its contract
  with the core is `JobDelivery`'s environment.
- `detect.py` outside the response parser, `cliutil.py`, `report.py` of the detection
  bench, `render.py`: prompts, HTTP, command lines, formatting, audio.
- `exact.py`, `boot.py`, `power.py`: floating-point numerics and seeded simulation;
  `Verdicts` uses what they decide.
- `prereg.py`, the coercions of damaged predictions in `labels.py`, character error
  rates in `cer.py` and `normalize.py`, the render manifest of `synth.py`: see the
  plan.
- The prototype, fixtures and documents.

## 7. Plan

1. *Extend.* `PredictionLoader`: the coercions in `labels.py`, composed with
   `ResponseParser` and `FileOrder`. `Preregistration`: freeze, dump, edit, load.
   Character error rates over `Alignment`, checked against the least number of
   edits. Aliases and sentence marks in `TokenScoring` and `GoldenMarkup`. `JobStore`
   behind the queue of `JobDelivery`, once the orchestrator is written.
2. *Prove.* When `align_ops` is bound to put the neighbours of a token opposite the
   characters heard for them, which `HeardBetweenIsJudged` takes as given. For the
   modules to come, their safety properties as in section 5.
