--------------------------- MODULE ResponseParser ---------------------------
(***************************************************************************)
(* detect.parse_detection_response and the loader behind it: which JSON    *)
(* value of a free-form model answer is taken for the list of flags.       *)
(*                                                                         *)
(* A response is a sequence of pieces: objects with a "flags" list, bare   *)
(* lists, lone flags, other objects, each perhaps cut off.  The scanner    *)
(* tries to decode a value at every opening bracket, so it meets a piece,  *)
(* the list in it and the elements in that, each as a candidate of its     *)
(* own; a bracket whose value is cut off does not decode and is passed by. *)
(* An element is "flag" (an object with "type" or "statements"), "object"  *)
(* or "scalar".  A flag's own statements never look like flags and are     *)
(* left out.                                                               *)
(***************************************************************************)
EXTENDS Integers, FiniteSets, Sequences

LOCAL INSTANCE SequencesExt

CONSTANTS
  Responses,     \* sequences of pieces
  None

Kinds == {"flag", "object", "scalar"}

Pieces == [form : {"wrapped", "list", "single", "other"},
           cut : {"no", "inside", "outer"}, elems : Seq(Kinds)]

\* Only an object with "flags" and a list have elements.
ASSUME ResponsesAssumption ==
  \A r \in Responses :
    /\ r \in Seq(Pieces)
    /\ \A k \in DOMAIN r : r[k].form \in {"single", "other"} => r[k].elems = <<>>

Candidate == [form : {"wrapped", "list", "single", "other"},
               elems : Seq(Kinds), piece : Nat]

ASSUME NoneAssumption == None \notin Candidate

VARIABLES
  response,
  opening,       \* the opening bracket the scanner is at
  best,          \* best_flags: the "flags" object chosen so far, or None
  fallback,      \* the list or lone flag chosen so far, or None
  outcome        \* "scanning", "flags", "error", then "loaded", "unloadable"

rvars == <<response, opening, best, fallback, outcome>>

\* What the scanner decodes at the opening brackets of piece k: its form, its
\* elements and the piece it is from.
Opening(form, elems, k) == [form |-> form, elems |-> elems, piece |-> k]

ElementOpenings(e, k) ==
  CASE e = "flag"   -> <<Opening("single", <<e>>, k)>>
    [] e = "object" -> <<Opening("other", <<>>, k)>>
    [] e = "scalar" -> <<>>

PieceOpenings(p, k) ==
  LET elems == FlattenSeq([n \in DOMAIN p.elems |-> ElementOpenings(p.elems[n], k)])
      list  == IF p.cut = "inside" THEN <<>> ELSE <<Opening("list", p.elems, k)>>
  IN CASE p.form = "wrapped" ->
            (IF p.cut = "no" THEN <<Opening("wrapped", p.elems, k)>> ELSE <<>>)
            \o list \o elems
       [] p.form = "list" -> list \o elems
       [] p.form = "single" -> <<Opening("single", <<"flag">>, k)>>
       [] p.form = "other" -> <<Opening("other", <<>>, k)>>

Openings == FlattenSeq([k \in DOMAIN response |-> PieceOpenings(response[k], k)])

\* '"flags"' in raw
NamesFlags == \E k \in DOMAIN response : response[k].form = "wrapped"

FlagLike(elems) == Cardinality({ n \in DOMAIN elems : elems[n] = "flag" })

\* best_n and fallback_n
BestN == IF best = None THEN -1 ELSE FlagLike(best.elems)
FallbackN == IF fallback = None THEN 0 ELSE FlagLike(fallback.elems)

-----------------------------------------------------------------------------
Scanning == outcome = "scanning" /\ opening \in DOMAIN Openings

Now == Openings[opening]

\* Mutant: the last "flags" object wins, whatever is in it.
ScanWrappedLast ==
  /\ Scanning /\ Now.form = "wrapped"
  /\ best' = Now
  /\ opening' = opening + 1 /\ UNCHANGED <<response, fallback, outcome>>

\* The "flags" object with most flag-like elements, the last of equals.
ScanWrapped ==
  /\ Scanning /\ Now.form = "wrapped"
  /\ best' = IF FlagLike(Now.elems) >= BestN THEN Now ELSE best
  /\ opening' = opening + 1 /\ UNCHANGED <<response, fallback, outcome>>

ScanList ==
  /\ Scanning /\ Now.form = "list"
  /\ fallback' = IF FlagLike(Now.elems) > FallbackN THEN Now ELSE fallback
  /\ opening' = opening + 1 /\ UNCHANGED <<response, best, outcome>>

ScanSingle ==
  /\ Scanning /\ Now.form = "single"
  /\ fallback' = IF FallbackN < 1 THEN Now ELSE fallback
  /\ opening' = opening + 1 /\ UNCHANGED <<response, best, outcome>>

ScanOther ==
  /\ Scanning /\ Now.form = "other"
  /\ opening' = opening + 1 /\ UNCHANGED <<response, best, fallback, outcome>>

Scanned == outcome = "scanning" /\ opening \notin DOMAIN Openings

\* Mutant: it does not give way.
YieldsNever == FALSE

\* A "flags" object without content yields to a candidate with content.
Yields == best # None /\ BestN = 0 /\ FallbackN > 0

Objects(elems) == { n \in DOMAIN elems : elems[n] # "scalar" }

\* Mutant: lists of scalars are returned.
HollowNever(elems) == FALSE

\* A list none of whose elements is an object.
Hollow(elems) == elems # <<>> /\ Objects(elems) = {}

\* Mutant: a flags object that is cut off does not keep its elements from
\* being taken.
MayFallBackAlways == fallback # None /\ (Yields \/ best = None)

MayFallBack == fallback # None /\ (Yields \/ (best = None /\ ~NamesFlags))

ReturnBest ==
  /\ Scanned /\ best # None /\ ~Yields /\ ~Hollow(best.elems)
  /\ outcome' = "flags" /\ UNCHANGED <<response, opening, best, fallback>>

\* What is returned is kept in best.
ReturnFallback ==
  /\ Scanned /\ MayFallBack
  /\ best' = fallback
  /\ outcome' = "flags" /\ UNCHANGED <<response, opening, fallback>>

Raise ==
  /\ Scanned /\ ~MayFallBack
  /\ best # None => ~Yields /\ Hollow(best.elems)
  /\ outcome' = "error" /\ UNCHANGED <<response, opening, best, fallback>>

\* labels.pred_flags_from_items on what was returned.
Load ==
  /\ outcome = "flags"
  /\ outcome' = IF best.elems # <<>> /\ Objects(best.elems) = {} THEN "unloadable"
                ELSE "loaded"
  /\ UNCHANGED <<response, opening, best, fallback>>

RInit == /\ response \in Responses
         /\ opening = 1 /\ best = None /\ fallback = None /\ outcome = "scanning"

RNext == \/ ScanWrapped \/ ScanList \/ ScanSingle \/ ScanOther
         \/ ReturnBest \/ ReturnFallback \/ Raise
         \/ Load

RSpec == RInit /\ [][RNext]_rvars

-----------------------------------------------------------------------------
(* Properties.                                                             *)

Returned == outcome \in {"flags", "loaded", "unloadable"}

Whole(p) == p.form = "wrapped" /\ p.cut = "no"

\* A complete "flags" object with more flags than every later one, and no
\* fewer than every earlier one, is the answer; without the word "flags", the
\* list with the most flags is. Echoes, lists, objects and pieces cut off that
\* surround it never take its place.
AnswerNotStolen ==
  outcome # "scanning" =>
    \A k \in DOMAIN response :
      LET p == response[k]
          n(j) == FlagLike(response[j].elems)
          rest == DOMAIN response \ {k}
      IN /\ /\ Whole(p) /\ n(k) > 0
            /\ \A j \in rest : Whole(response[j]) =>
                 IF j < k THEN n(j) <= n(k) ELSE n(j) < n(k)
            => Returned /\ best = Opening("wrapped", p.elems, k)
         /\ /\ ~NamesFlags /\ p.form = "list" /\ p.cut = "no" /\ n(k) > 1
            /\ \A j \in rest : n(j) < n(k)
            => Returned /\ best = Opening("list", p.elems, k)

\* "No flags detected" is never said of a response in which a complete flag
\* can be read anywhere.
ZeroMeansNone ==
  Returned /\ FlagLike(best.elems) = 0 =>
    \A k \in DOMAIN response :
      response[k].form # "single" /\ FlagLike(response[k].elems) = 0

\* A response whose one "flags" object is cut off is refused, not read as the
\* flags that happened to be complete.
CutOffIsRefused ==
  outcome # "scanning" /\ NamesFlags /\ (\A k \in DOMAIN response : ~Whole(response[k]))
    => outcome = "error"

\* What the parser returns, the loader takes: the adapter needs no check of
\* its own between the two.
LoaderTakesIt == outcome # "unloadable"
=============================================================================
