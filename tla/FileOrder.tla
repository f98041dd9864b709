----------------------------- MODULE FileOrder -----------------------------
(***************************************************************************)
(* Does the order of the flags in a prediction file matter?  The file is   *)
(* loaded as labels.pred_flags_from_items loads it, which gives a flag     *)
(* without an id the id "pred" plus its position, and scored               *)
(* (FlagMatching); then the same flags in another order are loaded and     *)
(* scored (Again).                                                         *)
(***************************************************************************)
EXTENDS FlagMatching, Functions

CONSTANTS
  NoId,          \* the item carries neither flag_id nor id
  FallbackBase   \* where the ids "pred0" to "pred9" sort among the others

ASSUME FallbackAssumption == FallbackBase \in Nat

VARIABLES
  file,          \* the items as written: [1..m -> Item]
  perm,          \* the order they have in the second file
  preds2, strict2, extra2, phase2      \* scoring the reordered file

vars2 == <<preds2, strict2, extra2, phase2>>
fvars == <<vars, file, perm, vars2>>

Item == [id : Nat \cup {NoId}, type : PredTypes, segs : SUBSET Segments,
         ungrounded : BOOLEAN]

\* flag_from_data(f, strict=False, fallback_id=f"pred{i}") for every item.
Loaded(items) ==
  [i \in DOMAIN items |->
     [items[i] EXCEPT !.id = IF @ = NoId THEN FallbackBase + (i - 1) ELSE @]]

Reordered == [i \in DOMAIN file |-> file[perm[i]]]

Again == INSTANCE FlagMatching WITH preds <- preds2, strict <- strict2,
                                    extra <- extra2, phase <- phase2

Start == /\ preds = Loaded(file) /\ strict = {} /\ extra = {} /\ phase = "strict"
         /\ preds2 = Loaded(Reordered)
         /\ strict2 = {} /\ extra2 = {} /\ phase2 = "strict"

ScoreFirst == Next /\ UNCHANGED <<file, perm, vars2>>

ScoreSecond ==
  phase = "done" /\ Again!Next /\ UNCHANGED <<file, perm, preds, strict, extra, phase>>

FNext == ScoreFirst \/ ScoreSecond

\* Any golden flags, any predictions, any order.
FInit == /\ golds \in UNION { [1 .. n -> Gold] : n \in Nat }
         /\ file \in UNION { [1 .. n -> Item] : n \in Nat }
         /\ perm \in Bijection(DOMAIN file, DOMAIN file)
         /\ Start

FSpec == FInit /\ [][FNext]_fvars

-----------------------------------------------------------------------------
(* Properties.                                                             *)

Scored == phase = "done" /\ phase2 = "done"

\* What a score says, with flags named by their ids.
Signature ==
  [overall |-> Overall,
   located |-> Localization,
   matches |-> { <<golds[c[1]].id, preds[c[2]].id>> : c \in strict },
   misses  |-> { golds[gi].id : gi \in Misses },
   fps     |-> { <<preds[f[1]].id, f[2]>> : f \in FalsePositives }]

SignatureAgain ==
  [overall |-> Again!Overall,
   located |-> Again!Localization,
   matches |-> { <<golds[c[1]].id, preds2[c[2]].id>> : c \in strict2 },
   misses  |-> { golds[gi].id : gi \in Again!Misses },
   fps     |-> { <<preds2[f[1]].id, f[2]>> : f \in Again!FalsePositives }]

\* When every prediction carries an id (repeated ids allowed), the order of
\* the file changes none of these: the counts, the localization, and which flags
\* are matched, missed or false (the list tainted_matches is not compared).
OrderBlindWithIds ==
  Scored /\ (\A i \in DOMAIN file : file[i].id # NoId) => Signature = SignatureAgain

\* _greedy_match says: "the same score comes out when the order of the flags
\* in the prediction file changes".  For predictions without ids it does not:
\* the loader numbers them by position and the tie-break compares the numbers.
SameScoreAnyOrder == Scored => Overall = Again!Overall
=============================================================================
