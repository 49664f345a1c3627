------------------------------ MODULE StakeBook ------------------------------
(***************************************************************************)
(* What the betting core promises about money, without rounds phases,      *)
(* handlers, transactions or restarts: each user opens at most one stake   *)
(* per round out of her own funds, and each stake is resolved exactly one  *)
(* way, by one movement of funds: paid out, given back whole, or kept by   *)
(* the house.                                                              *)
(***************************************************************************)
EXTENDS Integers

CONSTANTS Users, Rounds, InitialBalance, MinBetCents, MaxBetCents, MaxWinCents

VARIABLES stage,    \* what became of the stake of a user in a round
          stake,    \* its size
          funds     \* what the user can spend

vars == <<stage, stake, funds>>

Init == /\ stage = [u \in Users |-> [r \in Rounds |-> "none"]]
        /\ stake = [u \in Users |-> [r \in Rounds |-> 0]]
        /\ funds = [u \in Users |-> InitialBalance]

Move(u, r, from, to) ==
    /\ stage[u][r] = from
    /\ stage' = [stage EXCEPT ![u][r] = to]

Credit(u, a) == funds' = [funds EXCEPT ![u] = @ + a]

Open(u, r) ==
    /\ Move(u, r, "none", "held")
    /\ \E a \in MinBetCents..MaxBetCents :
          /\ a <= funds[u]
          /\ stake' = [stake EXCEPT ![u][r] = a]
          /\ Credit(u, -a)

Pay(u, r) ==
    /\ Move(u, r, "held", "paid") /\ UNCHANGED stake
    /\ \E p \in 0..MaxWinCents : Credit(u, p)

Return(u, r) == Move(u, r, "held", "returned") /\ UNCHANGED stake /\ Credit(u, stake[u][r])

Keep(u, r)   == Move(u, r, "held", "kept") /\ UNCHANGED <<stake, funds>>

Next == \E u \in Users, r \in Rounds : Open(u, r) \/ Pay(u, r) \/ Return(u, r) \/ Keep(u, r)

Spec == Init /\ [][Next]_vars
=============================================================================
