------------------------------- MODULE MCWallet -------------------------------
(***************************************************************************)
(* Instances of Wallet for TLC.                                            *)
(***************************************************************************)
EXTENDS Wallet, TLC

CONSTANTS u1, o1, o2, k1, k2

\* An administrator takes away more than the user has left.
TakeMuch == {-120}
=============================================================================
