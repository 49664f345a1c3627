----------------------------- MODULE MCCrashGame -----------------------------
(***************************************************************************)
(* Instances of CrashGame for TLC.                                         *)
(***************************************************************************)
EXTENDS CrashGame, TLC

CONSTANTS u1, c1, c2

\* One player, with one connection or with two.
OneOfOne  == (c1 :> u1)
BothOfOne == (c1 :> u1) @@ (c2 :> u1)

\* The two connections of a player differ in nothing but their name.
Swapped == Permutations({c1, c2})
=============================================================================
