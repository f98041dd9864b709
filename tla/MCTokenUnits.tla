---------------------------- MODULE MCTokenUnits ----------------------------
(***************************************************************************)
(* Numbers heard with a unit their type does not allow.                    *)
(***************************************************************************)
EXTENDS MCTokens

\* Amounts and percentages heard as so many things, and percentages as money.
UnitMisheard ==
       Singles("AMOUNT", Of("won", Large), Of("gae", Large))
  \cup Singles("PERCENT", Of("%", Small), Of("gae", Small) \cup Of("won", Small))
=============================================================================
