------------------------------ MODULE MCFairPlay ------------------------------
(***************************************************************************)
(* Instances of FairPlay for TLC: a hash of five base-4 digits, of which   *)
(* four form a word of 256.                                                *)
(***************************************************************************)
EXTENDS FairPlay

\* The ends of the range of draws, crash points that lose a hundredth (25600
\* over 15, 30, 101, 220, 226) with their neighbours, and one in between.
Drawn == {0, 1, 14, 15, 29, 63, 100, 219, 225, 252, 253, 254, 255}

MCHashes == {s \in [1..5 -> 0..3] : s[5] \in {0, 2} /\ 64 * s[1] + 16 * s[2] + 4 * s[3] + s[4] \in Drawn}

\* Of the crash points the word of 256 can give, those that lose a hundredth
\* in the conversion of utils/money.go.
MCLossy == {113, 114, 115, 116, 201, 203, 226, 228, 230, 232, 253, 406, 853, 1706}
=============================================================================
