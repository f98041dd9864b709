---------------------------- MODULE Normalization ----------------------------
(***************************************************************************)
(* What NFC does to a text here: "ha" and "n" are an open syllable and a   *)
(* final consonant, which become "han" when nothing is in between. Every   *)
(* other character stays as it is.                                         *)
(***************************************************************************)
EXTENDS Integers, FiniteSets, Sequences

\* The k-th smallest member of S.
Nth(S, k) == CHOOSE n \in S : Cardinality({ m \in S : m <= n }) = k

\* A final consonant closes the open syllable right before it.
Closes(s, n) == n \in DOMAIN s /\ n > 1 /\ s[n - 1] = "ha" /\ s[n] = "n"

Nfc(s) ==
  LET kept == { n \in DOMAIN s : ~Closes(s, n) }
  IN [k \in 1 .. Cardinality(kept) |->
        IF Closes(s, Nth(kept, k) + 1) THEN "han" ELSE s[Nth(kept, k)]]
=============================================================================
