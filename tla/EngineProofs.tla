---------------------------- MODULE EngineProofs ----------------------------
(***************************************************************************)
(* Proofs, for any number of players, connections, rounds, faults and      *)
(* restarts, of what the engine goroutine does with rounds, of what the    *)
(* recovery does with bets, and that ledgers chain.                        *)
(***************************************************************************)
EXTENDS CrashGameProofs, FoldTheorems

-----------------------------------------------------------------------------
(* Rounds *)

RoundInv == RoundsShaped /\ RoundsInOrder /\ CurrentSaved /\ RoundFlow

(* Saving a round, under a number none has, keeps the rounds in order and  *)
(* makes it the last.                                                      *)
LEMMA InsertedLast ==
    ASSUME RoundsShaped, RoundsInOrder, NEW r \in Rounds, NEW c, Insert(r, c)
    PROVE  /\ RoundsShaped' /\ RoundsInOrder'
           /\ rounds[r].status = "none" /\ rounds'[r].status = "waiting"
           /\ \A q \in Rounds \ {r} : rounds'[q] = rounds[q]
           /\ \A q \in Rounds : LastSaved(q)' => q = r
<1> DEFINE d == [Unsaved EXCEPT !.status = "waiting", !.crash = c]
<1>1. d.status = "waiting" /\ DOMAIN d = RoundFields
  BY DEF Unsaved, RoundFields
<1>2. /\ rounds' = [rounds EXCEPT ![r] = d]
      /\ rounds[r].status = "none" /\ \A q \in 1..(r - 1) : rounds[q].status # "none"
  BY DEF Insert
<1> HIDE DEF d
<1>3. DOMAIN rounds' = Rounds /\ \A q \in Rounds : rounds'[q] = IF q = r THEN d ELSE rounds[q]
  BY <1>2 DEF RoundsShaped
<1>4. \A q \in Rounds : q < r => rounds[q].status # "none"
  BY <1>2 DEF Rounds
<1>5. \A q \in Rounds : q > r => rounds[q].status = "none"
  BY <1>2 DEF RoundsInOrder
<1>6. RoundsShaped'
  BY <1>1, <1>3 DEF RoundsShaped
<1>7. RoundsInOrder'
  <2> SUFFICES ASSUME NEW p \in Rounds, NEW q \in Rounds, p < q, rounds'[q].status # "none"
               PROVE  rounds'[p].status # "none"
    BY DEF RoundsInOrder
  <2>1. p \in Int /\ q \in Int /\ r \in Int BY DEF Rounds
  <2>2. CASE q = r
    BY <1>3, <1>4, <2>1, <2>2
  <2>3. CASE q # r
    BY <1>1, <1>3, <2>3 DEF RoundsInOrder
  <2> QED BY <2>2, <2>3
<1>8. ASSUME NEW q \in Rounds, LastSaved(q)' PROVE q = r
  <2>1. q \in Int /\ r \in Int BY DEF Rounds
  <2>2. rounds'[q].status # "none" /\ \A p \in Rounds : p > q => rounds'[p].status = "none"
    BY <1>8 DEF LastSaved
  <2>3. ~(q > r) BY <1>3, <1>5, <2>1, <2>2
  <2>4. ~(q < r) BY <1>1, <1>3, <2>1, <2>2
  <2> QED BY <2>1, <2>3, <2>4
<1> QED BY <1>1, <1>2, <1>3, <1>6, <1>7, <1>8

(* Rewriting a saved round keeps the order.                                *)
LEMMA RewrittenInOrder ==
    ASSUME RoundsShaped, RoundsInOrder, NEW r \in Rounds, NEW d, d.status # "none",
           DOMAIN d = RoundFields, rounds[r].status # "none", rounds' = [rounds EXCEPT ![r] = d]
    PROVE  RoundsShaped' /\ RoundsInOrder'
<1>1. DOMAIN rounds' = Rounds /\ \A q \in Rounds : rounds'[q] = IF q = r THEN d ELSE rounds[q]
  BY DEF RoundsShaped
<1>2. RoundsShaped'
  BY <1>1 DEF RoundsShaped
<1>3. RoundsInOrder'
  <2> SUFFICES ASSUME NEW p \in Rounds, NEW q \in Rounds, p < q, rounds'[q].status # "none"
               PROVE  rounds'[p].status # "none"
    BY DEF RoundsInOrder
  <2>1. rounds[q].status # "none" BY <1>1
  <2>2. rounds[p].status # "none" BY <2>1 DEF RoundsInOrder
  <2> QED BY <1>1, <2>2
<1> QED BY <1>2, <1>3

(* What UpdateRunning and UpdateCrashed write.                             *)
LEMMA Written ==
    ASSUME NEW d, DOMAIN d = RoundFields, NEW s, NEW w
    PROVE  /\ [d EXCEPT !.status = s, !.wagered = w].status = s
           /\ DOMAIN [d EXCEPT !.status = s, !.wagered = w] = RoundFields
           /\ [d EXCEPT !.status = s, !.payout = w].status = s
           /\ DOMAIN [d EXCEPT !.status = s, !.payout = w] = RoundFields
BY DEF RoundFields

(* Steps that leave the rounds and the engine where they are.              *)
LEMMA QuietRounds ==
    ASSUME CoreTypeOK, RoundInv, UNCHANGED <<rounds, cur, pc, restarts>>, faults' \in {faults, faults + 1}
    PROVE  RoundInv'
<1>1. faults \in Nat BY BoundAssumption DEF CoreTypeOK
<1>2. faults' = 0 => faults = 0 BY <1>1
<1> QED BY <1>2 DEF RoundInv, RoundsShaped, RoundsInOrder, CurrentSaved, RoundFlow, LastSaved

(* Once a call has failed, only the order of the rounds matters.           *)
LEMMA AfterFault ==
    ASSUME CoreTypeOK, RoundsShaped', RoundsInOrder', CurrentSaved', Fault
    PROVE  RoundInv'
<1>1. faults' # 0 BY BoundAssumption DEF CoreTypeOK, Fault
<1> QED BY <1>1 DEF RoundInv, RoundFlow

(* The engine takes the round at hand along.                               *)
LEMMA SameRound ==
    ASSUME CoreTypeOK, RoundInv, UNCHANGED <<rounds, cur, faults, restarts>>,
           \/ pc \in {"clear", "waiting", "run", "stats"} /\ pc' \in {"clear", "waiting", "run", "stats"}
           \/ /\ pc \in {"tick0", "tick", "find", "bulk", "payout", "close"}
              /\ pc' \in {"tick0", "tick", "find", "bulk", "payout", "close"}
           \/ pc \in {"recover", "refund", "top"} /\ pc' \in {"refund", "top", "stopped"}
    PROVE  RoundInv'
<1>1. RoundsShaped' /\ RoundsInOrder' /\ CurrentSaved'
  BY DEF RoundInv, RoundsShaped, RoundsInOrder, CurrentSaved
<1>2. CASE pc \in {"clear", "waiting", "run", "stats", "tick0", "tick", "find", "bulk", "payout", "close"}
  BY <1>1, <1>2 DEF RoundInv, RoundFlow
<1>3. CASE pc \in {"recover", "refund", "top"}
  BY <1>1, <1>3 DEF RoundInv, RoundFlow
<1> QED BY <1>1, <1>2, <1>3

(* A round goes through its statuses in order, until a call fails.         *)
RoundsAdvance ==
    \A r \in Rounds :
        LET old == rounds[r].status  new == rounds'[r].status IN
        old # new => \/ <<old, new>> \in {<<"none", "waiting">>, <<"waiting", "running">>, <<"running", "crashed">>}
                     \/ faults' > 0

(* The waiting phase: a round is saved, made current and waited for.       *)
LEMMA WaitingRounds ==
    ASSUME CoreTypeOK, RoundInv, Waiting
    PROVE  RoundInv' /\ RoundsAdvance
<1> USE DEF Goto, bounds
<1>0. faults \in Nat BY BoundAssumption DEF CoreTypeOK
<1>1. ASSUME NEW r \in Rounds, NEW c \in CrashPoints, SaveRound(r, c)
      PROVE  RoundInv' /\ RoundsAdvance
  <2>1. /\ pc = "top" /\ pc' = "setRound" /\ Insert(r, c)
        /\ UNCHANGED <<cur, faults, restarts>>
    BY <1>1 DEF SaveRound
  <2>2. /\ RoundsShaped' /\ RoundsInOrder'
        /\ rounds[r].status = "none" /\ rounds'[r].status = "waiting"
        /\ \A q \in Rounds \ {r} : rounds'[q] = rounds[q]
        /\ \A q \in Rounds : LastSaved(q)' => q = r
    BY <2>1, InsertedLast DEF RoundInv
  <2>3. LastSaved(r)'
    <3>1. \A q \in Rounds : q > r => rounds[q].status = "none"
      BY <2>2 DEF RoundInv, RoundsInOrder
    <3>2. \A q \in Rounds : q > r => q # r BY DEF Rounds
    <3> QED BY <2>2, <3>1, <3>2 DEF LastSaved
  <2>4. RoundFlow'
    BY <2>1, <2>2, <2>3 DEF RoundInv, RoundFlow
  <2>5. CurrentSaved'
    BY <2>1, <2>2 DEF RoundInv, CurrentSaved, CoreTypeOK
  <2> QED BY <2>2, <2>4, <2>5 DEF RoundInv, RoundsAdvance
<1>2. CASE SaveRoundFails
  <2>1. Fault /\ (UNCHANGED rounds \/ \E r \in Rounds, c \in CrashPoints : Insert(r, c))
    BY <1>2 DEF SaveRoundFails
  <2>0. cur' = cur /\ pc' = IF cur = NoRound THEN "top" ELSE "run"
    BY <1>2 DEF SaveRoundFails, store
  <2>2. RoundsShaped' /\ RoundsInOrder' /\ CurrentSaved'
    <3>1. CASE UNCHANGED rounds
      BY <2>0, <3>1 DEF RoundInv, RoundsShaped, RoundsInOrder, CurrentSaved
    <3>2. ASSUME NEW r \in Rounds, NEW c \in CrashPoints, Insert(r, c)
          PROVE  RoundsShaped' /\ RoundsInOrder' /\ CurrentSaved'
      <4>1. RoundsShaped' /\ RoundsInOrder' /\ rounds[r].status = "none"
            /\ \A q \in Rounds \ {r} : rounds'[q] = rounds[q]
        BY <3>2, InsertedLast DEF RoundInv
      <4> QED BY <2>0, <4>1 DEF RoundInv, CurrentSaved, CoreTypeOK
    <3> QED BY <2>1, <3>1, <3>2
  <2>3. faults' > 0 BY <1>0, <2>1 DEF Fault
  <2> QED BY <2>1, <2>2, <2>3, AfterFault DEF RoundsAdvance
<1>3. CASE SetRound
  <2>1. /\ pc = "setRound" /\ pc' = "clear" /\ UNCHANGED <<rounds, faults, restarts>>
        /\ cur' \in Rounds /\ LastSaved(cur')
    BY <1>3 DEF SetRound, LastSaved
  <2>2. ASSUME NEW r \in Rounds, LastSaved(r) PROVE r = cur'
    <3>1. r \in Int /\ cur' \in Int BY <2>1 DEF Rounds
    <3> QED BY <2>1, <2>2, <3>1 DEF LastSaved
  <2>3. RoundFlow'
    BY <2>1, <2>2 DEF RoundInv, RoundFlow
  <2>4. CurrentSaved'
    BY <2>1 DEF CurrentSaved, LastSaved, Rounds, NoRound
  <2> QED BY <2>1, <2>3, <2>4 DEF RoundInv, RoundsShaped, RoundsInOrder, RoundsAdvance
<1>4. CASE StopSeen \/ ClearActiveBets \/ WaitOver
  <2>1. UNCHANGED <<rounds, cur, faults, restarts>>
    BY <1>4 DEF StopSeen, ClearActiveBets, WaitOver, store
  <2>2. \/ pc = "top" /\ pc' = "stopped"
        \/ pc = "clear" /\ pc' = "waiting"
        \/ pc = "waiting" /\ pc' = "run"
    BY <1>4 DEF StopSeen, ClearActiveBets, WaitOver
  <2>3. RoundInv' BY <2>1, <2>2, SameRound
  <2> QED BY <2>1, <2>3 DEF RoundsAdvance
<1> QED BY <1>1, <1>2, <1>3, <1>4 DEF Waiting

(* The running phase: the round is recorded as running and crashes in      *)
(* memory.                                                                 *)
LEMMA RunningRounds ==
    ASSUME CoreTypeOK, RoundInv, Running
    PROVE  RoundInv' /\ RoundsAdvance
<1> USE DEF Goto, bounds
<1>0. faults \in Nat BY BoundAssumption DEF CoreTypeOK
<1>1. CASE RunUpdate
  <2> DEFINE d == [rounds[cur] EXCEPT !.status = "running", !.wagered = Wagered]
  <2>1. /\ pc = "stats" /\ pc' = "tick0" /\ UNCHANGED <<cur, faults, restarts>>
        /\ rounds' = [rounds EXCEPT ![cur].status = "running", ![cur].wagered = Wagered]
    BY <1>1 DEF RunUpdate, store
  <2>2. cur \in Rounds /\ rounds[cur].status # "none"
    BY <2>1 DEF RoundInv, CurrentSaved, CoreTypeOK
  <2>3. DOMAIN rounds[cur] = RoundFields /\ DOMAIN rounds = Rounds
    BY <2>2 DEF RoundInv, RoundsShaped
  <2>4. d.status = "running" /\ DOMAIN d = RoundFields
    BY <2>3, Written
  <2>5. rounds' = [rounds EXCEPT ![cur] = d]
    BY <2>1, <2>2, <2>3, Zenon
  <2> HIDE DEF d
  <2>6. RoundsShaped' /\ RoundsInOrder'
    BY <2>2, <2>4, <2>5, RewrittenInOrder DEF RoundInv
  <2>7. \A r \in Rounds : rounds'[r] = IF r = cur THEN d ELSE rounds[r]
    BY <2>3, <2>5
  <2>8. faults = 0 => rounds[cur].status = "waiting"
    BY <2>1 DEF RoundInv, RoundFlow
  <2>9. RoundFlow' /\ CurrentSaved'
    BY <2>1, <2>2, <2>4, <2>7 DEF RoundInv, RoundFlow, CurrentSaved
  <2>10. faults' > 0 \/ <<rounds[cur].status, d.status>> = <<"waiting", "running">>
    BY <1>0, <2>1, <2>4, <2>8
  <2>11. RoundsAdvance
    BY <2>7, <2>10 DEF RoundsAdvance
  <2> QED BY <2>6, <2>9, <2>11 DEF RoundInv
<1>2. CASE RunUpdateFails
  <2>1. Fault /\ UNCHANGED <<rounds, cur>> /\ pc = "stats"
    BY <1>2 DEF RunUpdateFails, store
  <2>2. RoundsShaped' /\ RoundsInOrder' /\ CurrentSaved'
    BY <2>1 DEF RoundInv, RoundsShaped, RoundsInOrder, CurrentSaved
  <2> QED BY <2>1, <2>2, AfterFault DEF RoundsAdvance
<1>3. CASE RunBegin \/ \E m \in Ticks : Tick(m) \/ Crash(m)
  <2>1. UNCHANGED <<rounds, cur, faults, restarts>>
    BY <1>3 DEF RunBegin, Tick, Crash
  <2>2. \/ pc = "run" /\ pc' = "stats"
        \/ pc \in {"tick0", "tick"} /\ pc' \in {"tick", "find"}
    BY <1>3 DEF RunBegin, Tick, Crash
  <2>3. RoundInv' BY <2>1, <2>2, SameRound
  <2> QED BY <2>1, <2>3 DEF RoundsAdvance
<1> QED BY <1>1, <1>2, <1>3 DEF Running

(* The crashed phase: bets are settled and the round is recorded as        *)
(* crashed.                                                                *)
LEMMA SettlingRounds ==
    ASSUME CoreTypeOK, RoundInv, Settling
    PROVE  RoundInv' /\ RoundsAdvance
<1> USE DEF Goto, bounds
<1>0. faults \in Nat BY BoundAssumption DEF CoreTypeOK
<1>1. CASE CloseRound
  <2> DEFINE d == [rounds[cur] EXCEPT !.status = "crashed", !.payout = tally]
  <2>1. /\ pc = "close" /\ pc' = "top" /\ UNCHANGED <<cur, faults, restarts>>
        /\ rounds' = [rounds EXCEPT ![cur].status = "crashed", ![cur].payout = tally]
    BY <1>1 DEF CloseRound, RoundOver
  <2>2. cur \in Rounds /\ rounds[cur].status # "none"
    BY <2>1 DEF RoundInv, CurrentSaved, CoreTypeOK
  <2>3. DOMAIN rounds[cur] = RoundFields /\ DOMAIN rounds = Rounds
    BY <2>2 DEF RoundInv, RoundsShaped
  <2>4. d.status = "crashed" /\ DOMAIN d = RoundFields
    BY <2>3, Written
  <2>5. rounds' = [rounds EXCEPT ![cur] = d]
    BY <2>1, <2>2, <2>3, Zenon
  <2> HIDE DEF d
  <2>6. RoundsShaped' /\ RoundsInOrder'
    BY <2>2, <2>4, <2>5, RewrittenInOrder DEF RoundInv
  <2>7. \A r \in Rounds : rounds'[r] = IF r = cur THEN d ELSE rounds[r]
    BY <2>3, <2>5
  <2>8. faults = 0 => rounds[cur].status = "running"
    BY <2>1 DEF RoundInv, RoundFlow
  <2>9. RoundFlow' /\ CurrentSaved'
    BY <2>1, <2>2, <2>4, <2>7 DEF RoundInv, RoundFlow, CurrentSaved
  <2>10. faults' > 0 \/ <<rounds[cur].status, d.status>> = <<"running", "crashed">>
    BY <1>0, <2>1, <2>4, <2>8
  <2>11. RoundsAdvance
    BY <2>7, <2>10 DEF RoundsAdvance
  <2> QED BY <2>6, <2>9, <2>11 DEF RoundInv
<1>2. CASE SettleFindFails \/ SettleGivesUp \/ SettlePayoutFails \/ CloseRoundFails
  <2>1. Fault /\ UNCHANGED <<rounds, cur>> /\ pc \in {"find", "bulk", "payout", "close"}
    BY <1>2 DEF SettleFindFails, SettleGivesUp, SettlePayoutFails, CloseRoundFails, RoundOver, store
  <2>2. RoundsShaped' /\ RoundsInOrder' /\ CurrentSaved'
    BY <2>1 DEF RoundInv, RoundsShaped, RoundsInOrder, CurrentSaved
  <2> QED BY <2>1, <2>2, AfterFault DEF RoundsAdvance
<1>3. CASE SettleFind \/ (\E p \in Pairs : SettleOne(p)) \/ SettlePayout
  <2>1. UNCHANGED <<rounds, cur, faults, restarts>>
    BY <1>3 DEF SettleFind, SettleOne, SettlePayout, store
  <2>2. pc \in {"find", "bulk", "payout"} /\ pc' \in {"bulk", "payout", "close"}
    BY <1>3 DEF SettleFind, SettleOne, SettlePayout
  <2>3. RoundInv' BY <2>1, <2>2, SameRound
  <2> QED BY <2>1, <2>3 DEF RoundsAdvance
<1> QED BY <1>1, <1>2, <1>3 DEF Settling

(* Every step keeps the invariant and moves rounds forward.                *)
LEMMA NextRounds ==
    ASSUME CoreTypeOK, RoundInv, [Next]_vars
    PROVE  RoundInv' /\ RoundsAdvance
<1> USE DEF Goto, bounds
<1>0. restarts \in Nat BY BoundAssumption DEF CoreTypeOK
<1>1. CASE Exit
  <2>1. rounds' = rounds /\ cur' = NoRound /\ pc' = "down" /\ restarts' = restarts + 1
    BY <1>1 DEF Exit
  <2>2. restarts' # 0 BY <1>0, <2>1
  <2> QED BY <2>1, <2>2 DEF RoundInv, RoundsShaped, RoundsInOrder, CurrentSaved, RoundFlow, RoundsAdvance
<1>2. CASE Restart
  <2>1. UNCHANGED <<rounds, cur, faults, restarts>> /\ pc = "down" /\ pc' = "recover"
    BY <1>2 DEF Restart, store
  <2> QED BY <2>1 DEF RoundInv, RoundsShaped, RoundsInOrder, CurrentSaved, RoundFlow, RoundsAdvance
<1>3. CASE Recovery
  <2>1. UNCHANGED <<rounds, cur>> /\ pc \in {"recover", "refund"} /\ pc' \in {"refund", "top"}
    BY <1>3 DEF Recovery, RecoverFind, RecoverFindFails, RefundRead, RefundCommit, RefundRetry,
                RefundGivesUp, RefundDone, store
  <2>2. UNCHANGED <<faults, restarts>> \/ Fault
    BY <1>3 DEF Recovery, RecoverFind, RecoverFindFails, RefundRead, RefundCommit, RefundRetry, RefundGivesUp
  <2>3. CASE UNCHANGED <<faults, restarts>>
    BY <2>1, <2>3, SameRound DEF RoundsAdvance
  <2>4. CASE Fault
    <3>1. RoundsShaped' /\ RoundsInOrder' /\ CurrentSaved'
      BY <2>1 DEF RoundInv, RoundsShaped, RoundsInOrder, CurrentSaved
    <3> QED BY <2>1, <2>4, <3>1, AfterFault DEF RoundsAdvance
  <2> QED BY <2>2, <2>3, <2>4
<1>4. ASSUME NEW c \in Handlers, Betting(c) \/ CashingOut(c) \/ Disconnect(c)
      PROVE  RoundInv' /\ RoundsAdvance
  <2>1. UNCHANGED <<rounds, cur, pc, restarts>>
    BY <1>4 DEF Betting, CashingOut, BetCheck, BetCommit, BetCommitLost, BetAbort, AddActiveBet,
       CashBegin, CashRead, CashCommit, WriteCashout, CashRetry, CashAbort, Disconnect, HandlerFrame
  <2>2. faults' \in {faults, faults + 1}
    BY <1>4 DEF Betting, CashingOut, BetCheck, BetCommit, BetCommitLost, BetAbort, AddActiveBet,
       CashBegin, CashRead, CashCommit, WriteCashout, CashRetry, CashAbort, Disconnect, Fault
  <2> QED BY <2>1, <2>2, QuietRounds DEF RoundsAdvance
<1>5. CASE RequestStop \/ GraceExpires \/ UNCHANGED vars
  <2>1. UNCHANGED <<rounds, cur, pc, faults, restarts>>
    BY <1>5 DEF RequestStop, GraceExpires, vars, store
  <2> QED BY <2>1, QuietRounds DEF RoundsAdvance
<1> QED BY <1>1, <1>2, <1>3, <1>4, <1>5, WaitingRounds, RunningRounds, SettlingRounds DEF Next, Process

(* Before the first round the invariant holds.                             *)
LEMMA InitRounds == Init => RoundInv
<1> SUFFICES ASSUME Init PROVE RoundInv OBVIOUS
<1>1. rounds = [r \in Rounds |-> Unsaved] /\ pc = "recover" /\ cur = NoRound
  BY DEF Init
<1>2. Unsaved.status = "none" /\ DOMAIN Unsaved = RoundFields
  BY DEF Unsaved, RoundFields
<1> HIDE DEF Unsaved
<1> QED BY <1>1, <1>2 DEF RoundInv, RoundsShaped, RoundsInOrder, CurrentSaved, RoundFlow

(* The invariant of the rounds holds in every reachable state.             *)
LEMMA RoundInvariance == Spec => []RoundInv
<1>1. RoundInv /\ IInv /\ [Next]_vars => RoundInv'
  BY NextRounds DEF IInv
<1> QED BY <1>1, InitRounds, Invariance, PTL DEF Spec

(* RoundsOnlyAdvance: until a call fails every round goes from waiting to  *)
(* running to crashed, once, whatever is stopped, killed and restarted     *)
(* (waitingPhase, runningPhase, crashedPhase of game/phases.go).           *)
THEOREM RoundsOnlyAdvance == Spec => RoundStatusOrder
<1>1. IInv /\ RoundInv /\ [Next]_vars => [RoundsAdvance]_vars
  BY NextRounds DEF IInv
<1>2. Spec => [][RoundsAdvance]_vars
  BY <1>1, Invariance, RoundInvariance, PTL DEF Spec
<1> QED BY <1>2 DEF RoundStatusOrder, RoundsAdvance

(* StopsBetweenRounds: an engine that stopped, in a process that did not   *)
(* die and without a failed call, leaves no round open (engine.go's loop   *)
(* looks at stopChan between rounds only).                                 *)
THEOREM StopsBetweenRounds == Spec => []StopCompletesRound
<1>1. RoundInv => StopCompletesRound
  BY DEF RoundInv, RoundFlow, StopCompletesRound
<1> QED BY <1>1, RoundInvariance, PTL

-----------------------------------------------------------------------------
(* Recovery *)

(* Players are let in with nothing pending, until a call fails.            *)
Cleared == (~Serving /\ Serving' /\ faults = 0 /\ faults' = 0) => AllPending' = {}

(* A refund takes its own bet off the pending ones and no other.           *)
LEMMA RefundedGone ==
    ASSUME CoreTypeOK, NEW x \in Pairs, RefundCommit(x)
    PROVE  AllPending' = AllPending \ {x}
<1>1. PICK u \in Users, r \in Rounds : x = <<u, r>> BY DEF Pairs
<1>2. bets \in [Users -> [Rounds -> BetType]] BY DEF CoreTypeOK
<1>3. \E b : b.status = "refunded" /\ bets' = [bets EXCEPT ![u][r] = b]
  BY <1>1 DEF RefundCommit, SetStatus, Bet
<1>4. \A v \in Users, q \in Rounds : ~(v = u /\ q = r) => bets'[v][q] = bets[v][q]
  BY <1>2, <1>3
<1>5. bets'[u][r].status = "refunded"
  BY <1>2, <1>3
<1> QED BY <1>1, <1>4, <1>5 DEF AllPending, Pairs

(* Every step keeps the pending bets in the hands of the recovery.         *)
LEMMA NextRefunds ==
    ASSUME IInv, RefundsCover, [Next]_vars
    PROVE  RefundsCover' /\ Cleared
<1> USE DEF Goto, Serving
<1>0. CoreTypeOK /\ NobodyServedInRecovery /\ faults \in Nat
  BY BoundAssumption DEF IInv, ControlInv, CoreTypeOK
<1>1. CASE RecoverFind
  <2>1. todo' = AllPending /\ UNCHANGED <<bets, faults>> /\ pc' = IF AllPending = {} THEN "top" ELSE "refund"
    BY <1>1 DEF RecoverFind, money, bounds
  <2>2. AllPending' = AllPending BY <2>1 DEF AllPending
  <2> QED BY <2>1, <2>2 DEF RefundsCover, Cleared
<1>2. ASSUME NEW x \in Pairs, RefundCommit(x)
      PROVE  RefundsCover' /\ Cleared
  <2>1. AllPending' = AllPending \ {x} BY <1>0, <1>2, RefundedGone
  <2>2. /\ pc = "refund" /\ todo' = todo \ {x} /\ pc' = IF todo = {x} THEN "top" ELSE pc
        /\ faults' = faults
    BY <1>2 DEF RefundCommit, RefundDone, bounds
  <2> QED BY <2>1, <2>2 DEF RefundsCover, Cleared
<1>3. CASE Fault
  <2>1. faults' # 0 BY <1>0, <1>3 DEF Fault
  <2> QED BY <2>1 DEF RefundsCover, Cleared
<1>4. CASE UNCHANGED <<pc, todo, bets, faults>>
  BY <1>4 DEF RefundsCover, Cleared, AllPending
<1>5. CASE pc' # "refund" /\ (Serving \/ ~Serving')
  BY <1>5 DEF RefundsCover, Cleared
<1>6. Recovery => \/ RecoverFind \/ Fault \/ UNCHANGED <<pc, todo, bets, faults>>
                  \/ \E x \in Pairs : RefundCommit(x)
  BY DEF Recovery, RecoverFindFails, RefundRead, RefundRetry, RefundGivesUp, money, bounds
<1>7. Process => UNCHANGED <<pc, todo, bets, faults>> \/ (pc' # "refund" /\ (Serving \/ ~Serving'))
  BY DEF Process, Exit, Restart, RequestStop, money, bounds
<1>8. Waiting \/ Running \/ Settling => pc' # "refund" /\ (Serving \/ ~Serving')
  BY DEF Waiting, StopSeen, SaveRound, SaveRoundFails, SetRound, ClearActiveBets, WaitOver,
         Running, RunBegin, RunUpdate, RunUpdateFails, Tick, Crash, Settling, SettleFind,
         SettleFindFails, SettleGivesUp, SettleOne, SettlePayout, SettlePayoutFails, CloseRound,
         CloseRoundFails, RoundOver
<1>9. GraceExpires \/ UNCHANGED vars => UNCHANGED <<pc, todo, bets, faults>>
  BY DEF GraceExpires, vars, money, bounds
<1>10. ASSUME NEW c \in Handlers, Betting(c) \/ CashingOut(c) \/ Disconnect(c)
       PROVE  UNCHANGED <<pc, todo, bets, faults>> \/ (pc' # "refund" /\ (Serving \/ ~Serving'))
  <2>1. pc' = pc
    BY <1>10 DEF Betting, CashingOut, BetCheck, BetCommit, BetCommitLost, BetAbort, AddActiveBet,
       CashBegin, CashRead, CashCommit, WriteCashout, CashRetry, CashAbort, Disconnect, HandlerFrame
  <2>2. CASE ~Serving
    <3>1. h[c].pc = "idle" BY <1>0, <2>2 DEF NobodyServedInRecovery
    <3>2. UNCHANGED <<pc, todo, bets, faults>>
      BY <1>10, <2>2, <3>1 DEF Betting, CashingOut, BetCheck, BetCommit, BetCommitLost, BetAbort,
         AddActiveBet, CashBegin, CashRead, CashCommit, CashRetry, CashAbort, Disconnect, HandlerFrame, money
    <3> QED BY <3>2
  <2> QED BY <2>1, <2>2
<1> QED BY <1>1, <1>2, <1>3, <1>4, <1>5, <1>6, <1>7, <1>8, <1>9, <1>10 DEF Next

(* RecoveryRefundsAll: while no call fails, players are let in only after  *)
(* every bet the previous run left pending has been refunded, whatever     *)
(* order the refund goroutines finish in (runRecovery of recovery.go).     *)
THEOREM RecoveryRefundsAll == Spec => RecoveryClearsPending
<1>1. Init => RefundsCover
  BY DEF Init, RefundsCover
<1>2. Spec => []RefundsCover
  BY <1>1, NextRefunds, Invariance, PTL DEF Spec
<1>3. IInv /\ RefundsCover /\ [Next]_vars => [Cleared]_vars
  BY NextRefunds
<1>4. Spec => [][Cleared]_vars
  BY <1>2, <1>3, Invariance, PTL DEF Spec
<1> QED BY <1>4 DEF RecoveryClearsPending, Cleared

-----------------------------------------------------------------------------
(* Ledgers *)

(* A step posts one entry that moves the balance by what it says, and, if  *)
(* it is not a refund, starts from the balance; or it posts nothing.       *)
LEMMA NextPosts ==
    ASSUME IInv, [Next]_vars
    PROVE  \/ UNCHANGED <<balance, ledger>>
           \/ \E u \in Users, e \in EntryType :
                  /\ Post(u, e, Signed(e)) /\ Signed(e) \in Int
                  /\ e.type = "refund" \/ (e.before = balance[u] /\ e.after = balance[u] + Signed(e))
<1> DEFINE Posted1 == \E u \in Users, e \in EntryType :
                  /\ Post(u, e, Signed(e)) /\ Signed(e) \in Int
                  /\ e.type = "refund" \/ (e.before = balance[u] /\ e.after = balance[u] + Signed(e))
<1>0. /\ ledger \in [Users -> Seq(EntryType)] /\ balance \in [Users -> Nat]
      /\ bets \in [Users -> [Rounds -> BetType]] /\ h \in [Handlers -> HandlerType]
      /\ seen \in [Pairs -> Nat \union {-1}]
  BY DEF IInv, CoreTypeOK
<1>2. ASSUME NEW c \in Handlers, BetCommit(c) \/ BetCommitLost(c)
      PROVE  Posted1
  <2>1. PICK u \in Users, r \in Rounds, a \in Nat : PlaceBet(u, r, a)
    BY <1>2, BetCommitRequest
  <2>2. PICK e : e = Entry("bet", r, a, balance[u], balance[u] - a) OBVIOUS
  <2>3. e \in EntryType
    BY <1>0, <2>2 DEF Entry, EntryType
  <2>4. e.before = balance[u] /\ e.after = balance[u] + (-a) /\ Signed(e) = -a /\ -a \in Int
    BY <1>0, <2>2 DEF Entry, Signed
  <2>5. Post(u, e, Signed(e))
    BY <2>1, <2>2, <2>4 DEF PlaceBet
  <2> QED BY <2>3, <2>4, <2>5
<1>3. ASSUME NEW c \in Handlers, CashCommit(c)
      PROVE  Posted1
  <2>1. PICK u \in Users, r \in Rounds : u = Owner[c] /\ r = h[c].round
    <3>1. Owner[c] \in Users BY OwnerAssumption
    <3>2. h[c].round \in Rounds BY <1>3 DEF IInv, ControlInv, RequestsSound, CashCommit
    <3> QED BY <3>1, <3>2
  <2>2. PICK p \in Nat : p = Winnings(c)
    <3>1. bets[u][r].amount \in Nat /\ h[c].mult \in Nat
      BY <1>0 DEF BetType, HandlerType
    <3>2. Winnings(c) = Payout(bets[u][r].amount, h[c].mult) BY <2>1 DEF Winnings
    <3> QED BY <3>1, <3>2, PayoutBounded
  <2>3. PICK e : e = Entry("win", r, p, balance[u], balance[u] + p) OBVIOUS
  <2>4. e \in EntryType
    BY <1>0, <2>3 DEF Entry, EntryType
  <2>5. e.before = balance[u] /\ e.after = balance[u] + p /\ Signed(e) = p
    BY <2>3 DEF Entry, Signed
  <2>6. Post(u, e, Signed(e))
    BY <1>3, <2>1, <2>2, <2>3, <2>5 DEF CashCommit, WriteCashout
  <2> QED BY <2>4, <2>5, <2>6
<1>4. ASSUME NEW x \in Pairs, RefundCommit(x)
      PROVE  Posted1
  <2>1. PICK u \in Users, r \in Rounds : u = x[1] /\ r = x[2] BY DEF Pairs
  <2>2. PICK a \in Nat : a = bets[u][r].amount
    BY <1>0 DEF BetType
  <2>3. PICK e : e = Entry("refund", r, a, seen[x], seen[x] + a) OBVIOUS
  <2>4. e \in EntryType /\ e.type = "refund" /\ Signed(e) = a
    BY <1>0, <2>3 DEF Entry, EntryType, Signed
  <2>5. Post(u, e, Signed(e))
    BY <1>4, <2>1, <2>2, <2>3, <2>4 DEF RefundCommit
  <2> QED BY <2>4, <2>5
<1>5. ASSUME NEW x \in Pairs, SettleOne(x)
      PROVE  UNCHANGED <<balance, ledger>>
  BY <1>5 DEF SettleOne
<1>6. UNCHANGED money => UNCHANGED <<balance, ledger>> BY DEF money
<1>7. UNCHANGED vars => UNCHANGED money BY DEF vars
<1> QED BY <1>2, <1>3, <1>4, <1>5, <1>6, <1>7, OtherStepsKeepMoney DEF MoneyStep

\* The balance after the i-th entry of u's ledger.
AfterEntry(u, i) == IF i = 0 THEN InitialBalance ELSE ledger[u][i].after

Chained(u) ==
    (\A i \in DOMAIN ledger[u] : ledger[u][i].type # "refund") =>
        /\ \A i \in DOMAIN ledger[u] : /\ ledger[u][i].before = AfterEntry(u, i - 1)
                                       /\ AfterEntry(u, i) = AfterEntry(u, i - 1) + Signed(ledger[u][i])
        /\ balance[u] = AfterEntry(u, Len(ledger[u]))

(* The chain of a ledger, one user at a time.                              *)
LEMMA ChainsUnfolded == LedgerChains <=> \A u \in Users : Chained(u)
BY DEF LedgerChains, Chained, AfterEntry

(* An entry that starts from the balance, and is not a refund, goes on     *)
(* with the chain; a refund ends it.                                       *)
LEMMA PostChains ==
    ASSUME ledger \in [Users -> Seq(EntryType)], balance \in [Users -> Nat],
           NEW u \in Users, NEW e \in EntryType, NEW d \in Int, Post(u, e, d), LedgerChains,
           \/ e.type = "refund"
           \/ e.before = balance[u] /\ e.after = balance[u] + d /\ Signed(e) = d
    PROVE  LedgerChains'
<1>0. PICK n : n = Len(ledger[u]) OBVIOUS
<1>1. /\ n \in Nat /\ DOMAIN ledger[u] = 1..n /\ DOMAIN ledger'[u] = 1..(n + 1)
      /\ \A i \in 1..n : ledger'[u][i] = ledger[u][i]
      /\ ledger'[u][n + 1] = e /\ balance'[u] = balance[u] + d
      /\ \A v \in Users \ {u} : ledger'[v] = ledger[v] /\ balance'[v] = balance[v]
  BY <1>0, PostEffect
<1>2. ledger' \in [Users -> Seq(EntryType)]
  BY PostEffect
<1>3. Len(ledger'[u]) = n + 1
  BY <1>1, <1>2
<1>4. Chained(u)
  BY ChainsUnfolded
<1>5. Chained(u)'
  <2> SUFFICES ASSUME \A i \in DOMAIN ledger'[u] : ledger'[u][i].type # "refund"
      PROVE  /\ \A i \in DOMAIN ledger'[u] :
                    /\ ledger'[u][i].before = AfterEntry(u, i - 1)'
                    /\ AfterEntry(u, i)' = AfterEntry(u, i - 1)' + Signed(ledger'[u][i])
             /\ balance'[u] = AfterEntry(u, n + 1)'
    BY <1>3 DEF Chained, AfterEntry, Signed
  <2>1. e.type # "refund"
    <3>1. n + 1 \in DOMAIN ledger'[u] BY <1>1
    <3> QED BY <1>1, <3>1
  <2>2. e.before = balance[u] /\ e.after = balance[u] + d /\ Signed(e) = d
    BY <2>1
  <2>3. \A i \in DOMAIN ledger[u] : ledger[u][i].type # "refund"
    <3>1. \A i \in 1..n : i \in 1..(n + 1) BY <1>1
    <3> QED BY <1>1, <3>1
  <2>4. /\ \A i \in DOMAIN ledger[u] : /\ ledger[u][i].before = AfterEntry(u, i - 1)
                                       /\ AfterEntry(u, i) = AfterEntry(u, i - 1) + Signed(ledger[u][i])
        /\ balance[u] = AfterEntry(u, n)
    BY <1>0, <1>4, <2>3 DEF Chained
  <2>5. \A i \in 0..n : AfterEntry(u, i)' = AfterEntry(u, i)
    <3>1. \A i \in 0..n : i = 0 \/ i \in 1..n BY <1>1
    <3> QED BY <1>1, <3>1 DEF AfterEntry
  <2>6. AfterEntry(u, n + 1)' = e.after
    <3>1. n + 1 # 0 BY <1>1
    <3> QED BY <1>1, <3>1 DEF AfterEntry
  <2>7. balance'[u] = AfterEntry(u, n + 1)'
    BY <1>1, <2>2, <2>6
  <2>8. ASSUME NEW i \in DOMAIN ledger'[u]
        PROVE  /\ ledger'[u][i].before = AfterEntry(u, i - 1)'
               /\ AfterEntry(u, i)' = AfterEntry(u, i - 1)' + Signed(ledger'[u][i])
    <3>1. i \in 1..n \/ i = n + 1 BY <1>1
    <3>2. CASE i \in 1..n
      <4>1. i \in 0..n /\ i - 1 \in 0..n BY <1>1, <3>2
      <4>2. AfterEntry(u, i)' = AfterEntry(u, i) /\ AfterEntry(u, i - 1)' = AfterEntry(u, i - 1)
        BY <2>5, <4>1
      <4>3. i \in DOMAIN ledger[u] /\ ledger'[u][i] = ledger[u][i] BY <1>1, <3>2
      <4> QED BY <2>4, <4>2, <4>3
    <3>3. CASE i = n + 1
      <4>1. i - 1 = n /\ n \in 0..n BY <1>1, <3>3
      <4>2. AfterEntry(u, i - 1)' = balance[u] BY <2>4, <2>5, <4>1
      <4>3. ledger'[u][i] = e BY <1>1, <3>3
      <4>4. AfterEntry(u, i)' = balance[u] + d BY <2>2, <2>6, <3>3
      <4> QED BY <2>2, <4>2, <4>3, <4>4
    <3> QED BY <3>1, <3>2, <3>3
  <2> QED BY <2>7, <2>8
<1>6. ASSUME NEW v \in Users, v # u PROVE Chained(v)'
  <2>1. ledger'[v] = ledger[v] /\ balance'[v] = balance[v] BY <1>1, <1>6
  <2>2. Chained(v) BY ChainsUnfolded
  <2> QED BY <2>1, <2>2 DEF Chained, AfterEntry, Signed
<1>7. \A v \in Users : Chained(v)'
  BY <1>5, <1>6
<1> QED BY <1>7 DEF LedgerChains, Chained, AfterEntry, Signed

(* Every step keeps the chains.                                            *)
LEMMA NextChains ==
    ASSUME IInv, LedgerChains, [Next]_vars
    PROVE  LedgerChains'
<1>0. ledger \in [Users -> Seq(EntryType)] /\ balance \in [Users -> Nat]
  BY DEF IInv, CoreTypeOK
<1>1. CASE UNCHANGED <<balance, ledger>>
  BY <1>1 DEF LedgerChains, Signed
<1>2. ASSUME NEW u \in Users, NEW e \in EntryType, Post(u, e, Signed(e)), Signed(e) \in Int,
             e.type = "refund" \/ (e.before = balance[u] /\ e.after = balance[u] + Signed(e))
      PROVE  LedgerChains'
  BY <1>0, <1>2, PostChains
<1> QED BY <1>1, <1>2, NextPosts

(* LedgersChain: until something is refunded to a user, her ledger is an   *)
(* audit trail: every entry starts where the one before ended, whichever   *)
(* of her connections wrote it (PlaceBet and CashOut read the balance in   *)
(* the transaction that changes it).                                       *)
THEOREM LedgersChain == Spec => []LedgerChains
<1>1. Init => LedgerChains
  BY DEF Init, LedgerChains
<1> QED BY <1>1, NextChains, Invariance, PTL DEF Spec

-----------------------------------------------------------------------------
(* Sums *)

\* What an entry is worth to the balance, and to the wins of round r.
SignedOf == [e \in EntryType |-> Signed(e)]
WinsIn(r) == [e \in EntryType |-> WinOf(e, r)]

(* Both are numbers, the second one natural.                               *)
LEMMA EntryValues ==
    /\ SignedOf \in [EntryType -> Int]
    /\ \A r : WinsIn(r) \in [EntryType -> Nat] /\ WinsIn(r) \in [EntryType -> Int]
<1>1. \A e \in EntryType : e.amount \in Nat
  BY DEF EntryType
<1> QED BY <1>1 DEF SignedOf, WinsIn, Signed, WinOf

(* A posted entry adds its value to both sums of its user.                 *)
LEMMA PostAdds ==
    ASSUME ledger \in [Users -> Seq(EntryType)],
           NEW u \in Users, NEW e \in EntryType, NEW d, Post(u, e, d)
    PROVE  /\ LedgerSum(u) \in Int /\ LedgerSum(u)' = LedgerSum(u) + Signed(e)
           /\ \A r : WinsOf(u, r) \in Int /\ WinsOf(u, r)' = WinsOf(u, r) + WinOf(e, r)
           /\ \A v \in Users \ {u} : LedgerSum(v)' = LedgerSum(v) /\ \A r : WinsOf(v, r)' = WinsOf(v, r)
<1>1. ledger[u] \in Seq(EntryType) /\ ledger'[u] = Append(ledger[u], e) /\ ledger'[u] \in Seq(EntryType)
  BY DEF Post
<1>2. ASSUME NEW s \in Seq(EntryType)
      PROVE  Values(SignedOf, s) = [i \in DOMAIN s |-> Signed(s[i])]
  BY DEF Values, SignedOf
<1>3. ASSUME NEW s \in Seq(EntryType), NEW r
      PROVE  Values(WinsIn(r), s) = [i \in DOMAIN s |-> WinOf(s[i], r)]
  BY DEF Values, WinsIn
<1>4. /\ LedgerSum(u) = SumFunction(Values(SignedOf, ledger[u]))
      /\ LedgerSum(u)' = SumFunction(Values(SignedOf, ledger'[u]))
  BY <1>1, <1>2 DEF LedgerSum, Signed
<1>5. LedgerSum(u) \in Int /\ LedgerSum(u)' = LedgerSum(u) + Signed(e)
  <2>1. SignedOf[e] = Signed(e)
    BY DEF SignedOf
  <2>2. /\ SumFunction(Values(SignedOf, ledger[u])) \in Int
        /\ SumFunction(Values(SignedOf, Append(ledger[u], e)))
             = SumFunction(Values(SignedOf, ledger[u])) + SignedOf[e]
    BY <1>1, EntryValues, SumAppended
  <2> QED BY <1>1, <1>4, <2>1, <2>2
<1>6. ASSUME NEW r PROVE WinsOf(u, r) \in Int /\ WinsOf(u, r)' = WinsOf(u, r) + WinOf(e, r)
  <2>1. WinsIn(r)[e] = WinOf(e, r)
    BY DEF WinsIn
  <2>2. /\ SumFunction(Values(WinsIn(r), ledger[u])) \in Int
        /\ SumFunction(Values(WinsIn(r), Append(ledger[u], e)))
             = SumFunction(Values(WinsIn(r), ledger[u])) + WinsIn(r)[e]
    BY <1>1, EntryValues, SumAppended
  <2>3. /\ WinsOf(u, r) = SumFunction(Values(WinsIn(r), ledger[u]))
        /\ WinsOf(u, r)' = SumFunction(Values(WinsIn(r), ledger'[u]))
    BY <1>1, <1>3 DEF WinsOf, WinOf
  <2> QED BY <1>1, <2>1, <2>2, <2>3
<1>7. \A v \in Users \ {u} : ledger'[v] = ledger[v]
  BY DEF Post
<1>8. \A v \in Users \ {u} : LedgerSum(v)' = LedgerSum(v) /\ \A r : WinsOf(v, r)' = WinsOf(v, r)
  BY <1>7 DEF LedgerSum, WinsOf, WinOf, Signed
<1> QED BY <1>5, <1>6, <1>8

(* A step that writes no entry leaves the sums alone.                      *)
LEMMA QuietSums ==
    ASSUME UNCHANGED ledger
    PROVE  \A u : LedgerSum(u)' = LedgerSum(u) /\ \A r : WinsOf(u, r)' = WinsOf(u, r)
BY DEF LedgerSum, WinsOf, WinOf, Signed

(* BalancesAreLedgers: a balance is the initial credit plus everything the *)
(* user's ledger records (every balance update of PlaceBet, CashOut and    *)
(* refundBet is an $inc by the amount of the entry next to it).            *)
THEOREM BalancesAreLedgers == Spec => []BalanceIsLedger
<1>1. Init => BalanceIsLedger
  <2> SUFFICES ASSUME Init, NEW u \in Users PROVE balance[u] = InitialBalance + LedgerSum(u)
    BY DEF BalanceIsLedger
  <2>1. DOMAIN [i \in DOMAIN ledger[u] |-> Signed(ledger[u][i])] = {}
    BY DEF Init
  <2>2. LedgerSum(u) = 0
    BY <2>1, SumEmpty DEF LedgerSum, SumFunction
  <2> QED BY <2>2, MoneyAssumption DEF Init
<1>2. IInv /\ BalanceIsLedger /\ [Next]_vars => BalanceIsLedger'
  <2> SUFFICES ASSUME IInv, BalanceIsLedger, [Next]_vars, NEW v \in Users
               PROVE  balance'[v] = InitialBalance + LedgerSum(v)'
    BY DEF BalanceIsLedger
  <2>0. /\ ledger \in [Users -> Seq(EntryType)] /\ balance \in [Users -> Nat]
        /\ balance[v] = InitialBalance + LedgerSum(v)
    BY DEF IInv, CoreTypeOK, BalanceIsLedger
  <2>1. CASE UNCHANGED <<balance, ledger>>
    BY <2>0, <2>1, QuietSums
  <2>2. ASSUME NEW u \in Users, NEW e \in EntryType, Post(u, e, Signed(e)), Signed(e) \in Int
        PROVE  balance'[v] = InitialBalance + LedgerSum(v)'
    <3>1. balance'[v] = IF v = u THEN balance[v] + Signed(e) ELSE balance[v]
      BY <2>0, <2>2 DEF Post
    <3>2. CASE v = u
      <4>1. LedgerSum(v) \in Int /\ LedgerSum(v)' = LedgerSum(v) + Signed(e)
        BY <2>0, <2>2, <3>2, PostAdds
      <4> QED BY <2>0, <2>2, <3>1, <3>2, <4>1, MoneyAssumption
    <3>3. CASE v # u
      <4>1. LedgerSum(v)' = LedgerSum(v)
        BY <2>0, <2>2, <3>3, PostAdds
      <4> QED BY <2>0, <3>1, <3>3, <4>1
    <3> QED BY <3>2, <3>3
  <2> QED BY <2>1, <2>2, NextPosts
<1> QED BY <1>1, <1>2, Invariance, PTL DEF Spec

-----------------------------------------------------------------------------
(* Totals of a round *)

\* What the recorded totals rest on.
PaidInv == rounds \in [Rounds -> RoundType] /\ TallyPaid /\ RecordedPayoutWasPaid

(* What ledgers of the right type say was won is a natural number, at      *)
(* least any one win, and at most the total of the round.                  *)
LEMMA WinsTyped ==
    ASSUME ledger \in [Users -> Seq(EntryType)], NEW r
    PROVE  /\ [u \in Users |-> WinsOf(u, r)] \in [Users -> Nat]
           /\ PaidOut(r) \in Nat
           /\ \A u \in Users : \A i \in DOMAIN ledger[u] : WinOf(ledger[u][i], r) <= WinsOf(u, r)
<1>1. ASSUME NEW u \in Users
      PROVE  /\ WinsOf(u, r) \in Nat
             /\ \A i \in DOMAIN ledger[u] : WinOf(ledger[u][i], r) <= WinsOf(u, r)
  <2>1. ledger[u] \in Seq(EntryType)
    OBVIOUS
  <2>2. IsFiniteSet(DOMAIN ledger[u])
    <3>1. DOMAIN ledger[u] = 1..Len(ledger[u]) /\ Len(ledger[u]) \in Nat
      BY <2>1
    <3>2. IsFiniteSet(1..Len(ledger[u]))
      BY <3>1, FS_Interval
    <3> QED BY <3>1, <3>2
  <2> DEFINE f == [i \in DOMAIN ledger[u] |-> WinOf(ledger[u][i], r)]
  <2>3. f \in [DOMAIN ledger[u] -> Nat]
    <3>1. \A i \in DOMAIN ledger[u] : ledger[u][i] \in EntryType
      BY <2>1
    <3>2. \A i \in DOMAIN ledger[u] : WinOf(ledger[u][i], r) \in Nat
      BY <3>1 DEF EntryType, WinOf
    <3> QED BY <3>2
  <2>4. \A i \in DOMAIN ledger[u] : f[i] = WinOf(ledger[u][i], r)
    OBVIOUS
  <2>5. WinsOf(u, r) = SumFunction(f)
    BY DEF WinsOf
  <2> HIDE DEF f
  <2>6. SumFunction(f) \in Nat /\ \A i \in DOMAIN ledger[u] : f[i] <= SumFunction(f)
    BY <2>2, <2>3, SumElement
  <2> QED BY <2>4, <2>5, <2>6
<1>2. [u \in Users |-> WinsOf(u, r)] \in [Users -> Nat]
  BY <1>1
<1>3. PaidOut(r) \in Nat
  BY <1>2, SumElement, UsersAssumption DEF PaidOut
<1> QED BY <1>1, <1>2, <1>3

(* What has been paid out in a round never shrinks.                        *)
LEMMA PaidOutGrows ==
    ASSUME IInv, [Next]_vars, NEW r
    PROVE  PaidOut(r) \in Nat /\ PaidOut(r)' \in Nat /\ PaidOut(r) <= PaidOut(r)'
<1>0. ledger \in [Users -> Seq(EntryType)] /\ balance \in [Users -> Nat]
  BY DEF IInv, CoreTypeOK
<1>1. CASE UNCHANGED <<balance, ledger>>
  <2>1. PaidOut(r)' = PaidOut(r)
    BY <1>1 DEF PaidOut, WinsOf, WinOf
  <2>2. PaidOut(r) \in Nat
    BY <1>0, WinsTyped
  <2> QED BY <2>1, <2>2
<1>2. ASSUME NEW u \in Users, NEW e \in EntryType, Post(u, e, Signed(e)), Signed(e) \in Int
      PROVE  PaidOut(r) \in Nat /\ PaidOut(r)' \in Nat /\ PaidOut(r) <= PaidOut(r)'
  <2> DEFINE f == [v \in Users |-> WinsOf(v, r)]
             g == [v \in Users |-> WinsOf(v, r)']
  <2>1. f \in [Users -> Nat] /\ PaidOut(r) \in Nat
    BY <1>0, WinsTyped
  <2>2. WinOf(e, r) \in Nat
    BY DEF WinOf, EntryType
  <2>3. /\ WinsOf(u, r)' = WinsOf(u, r) + WinOf(e, r)
        /\ \A v \in Users \ {u} : WinsOf(v, r)' = WinsOf(v, r)
    BY <1>0, <1>2, PostAdds
  <2>4. \A v \in Users : WinsOf(v, r) \in Nat
    <3>1. \A v \in Users : f[v] \in Nat /\ f[v] = WinsOf(v, r)
      BY <2>1
    <3> HIDE DEF f
    <3> QED BY <3>1
  <2>5. \A v \in Users : WinsOf(v, r)' \in Nat /\ WinsOf(v, r) <= WinsOf(v, r)'
    <3>1. ASSUME NEW v \in Users PROVE WinsOf(v, r)' \in Nat /\ WinsOf(v, r) <= WinsOf(v, r)'
      <4>1. CASE v = u
        BY <2>2, <2>3, <2>4, <4>1
      <4>2. CASE v # u
        BY <2>3, <2>4, <4>2
      <4> QED BY <4>1, <4>2
    <3> QED BY <3>1
  <2>6. PaidOut(r) = SumFunction(f) /\ PaidOut(r)' = SumFunction(g)
    BY DEF PaidOut
  <2>7. g \in [Users -> Nat] /\ \A v \in Users : f[v] <= g[v]
    BY <2>5
  <2> HIDE DEF f, g
  <2>8. SumFunction(f) <= SumFunction(g) /\ SumFunction(g) \in Nat
    BY <2>1, <2>7, SumBelow, SumElement, UsersAssumption
  <2> QED BY <2>1, <2>6, <2>8
<1> QED BY <1>1, <1>2, NextPosts

(* The total of settleBets adds up bets that were paid.                    *)
LEMMA TotalWasPaid ==
    ASSUME CoreTypeOK, MoneyInv, cur \in Rounds
    PROVE  LET total == SumFunction([u \in WonIn(cur) |-> bets[u][cur].amount + bets[u][cur].profit])
           IN  total \in Nat /\ total <= PaidOut(cur)
<1> DEFINE f == [u \in WonIn(cur) |-> bets[u][cur].amount + bets[u][cur].profit]
           g == [u \in Users |-> WinsOf(u, cur)]
<1>0. ledger \in [Users -> Seq(EntryType)]
  BY DEF CoreTypeOK
<1>1. WonIn(cur) \in SUBSET Users /\ IsFiniteSet(WonIn(cur))
  BY UsersAssumption, FS_Subset DEF WonIn
<1>2. ASSUME NEW u \in WonIn(cur)
      PROVE  f[u] \in Nat /\ f[u] <= g[u]
  <2>1. u \in Users /\ bets[u][cur].status = "won"
    BY DEF WonIn
  <2>2. Posted(u, cur, {"win"}, f[u])
    BY <2>1 DEF MoneyInv, StatusMatchesMoney, BookMatches
  <2>3. PICK i \in DOMAIN ledger[u] :
            ledger[u][i].round = cur /\ ledger[u][i].type = "win" /\ ledger[u][i].amount = f[u]
    BY <2>2 DEF Posted, Entries
  <2>4. ledger[u][i] \in EntryType
    <3>1. ledger[u] \in Seq(EntryType)
      BY <1>0, <2>1
    <3> QED BY <3>1
  <2>5. WinOf(ledger[u][i], cur) = f[u]
    BY <2>3 DEF WinOf
  <2>6. WinOf(ledger[u][i], cur) <= WinsOf(u, cur)
    BY <1>0, <2>1, WinsTyped
  <2>7. f[u] \in Nat
    BY <2>3, <2>4 DEF EntryType
  <2> QED BY <2>1, <2>5, <2>6, <2>7
<1>3. f \in [WonIn(cur) -> Nat] /\ g \in [Users -> Nat]
  BY <1>0, <1>2, WinsTyped
<1>4. PaidOut(cur) = SumFunction(g)
  BY DEF PaidOut
<1> HIDE DEF f, g
<1>5. SumFunction(f) \in Nat /\ SumFunction(f) <= SumFunction(g)
  BY <1>1, <1>2, <1>3, SumElement, SumBelow, UsersAssumption
<1> QED BY <1>4, <1>5 DEF f

(* The wager of a round adds up stakes.                                    *)
LEMMA WageredNatural ==
    ASSUME CoreTypeOK
    PROVE  Wagered \in Nat
<1> DEFINE S == {v \in Users : active[v] # NoRound}
           f == [u \in S |-> bets[u][active[u]].amount]
<1>1. IsFiniteSet(S)
  BY UsersAssumption, FS_Subset
<1>2. ASSUME NEW u \in S PROVE f[u] \in Nat
  <2>1. u \in Users /\ active[u] \in Rounds
    BY DEF CoreTypeOK
  <2>2. bets[u][active[u]] \in BetType
    BY <2>1 DEF CoreTypeOK
  <2> QED BY <2>2 DEF BetType
<1>3. f \in [S -> Nat]
  BY <1>2
<1>4. Wagered = SumFunction(f)
  BY DEF Wagered
<1> HIDE DEF S, f
<1> QED BY <1>1, <1>3, <1>4, SumElement

(* The ways a round document is written.                                   *)
RoundWritten ==
    \/ UNCHANGED rounds
    \/ \E r \in Rounds, c \in CrashPoints : Insert(r, c)
    \/ cur \in Rounds /\ rounds' = [rounds EXCEPT ![cur].status = "running", ![cur].wagered = Wagered]
    \/ /\ pc = "close" /\ cur \in Rounds
       /\ rounds' = [rounds EXCEPT ![cur].status = "crashed", ![cur].payout = tally]

(* The ways the total of settleBets moves.                                 *)
TallyMoved ==
    \/ tally' = 0 /\ UNCHANGED <<balance, ledger>>
    \/ UNCHANGED <<tally, cur>> /\ (pc' = "close" <=> pc = "close")
    \/ UNCHANGED tally /\ pc # "close" /\ pc' # "close"
    \/ SettlePayout /\ cur \in Rounds

(* Every step writes the totals in one of these ways.                      *)
LEMMA NextTotals ==
    ASSUME CoreTypeOK, CurrentSaved, [Next]_vars
    PROVE  RoundWritten /\ TallyMoved
<1> USE DEF Goto, bounds, money, engine, store
<1>0. pc \in {"stats", "payout", "close"} => cur \in Rounds
  BY DEF CurrentSaved, CoreTypeOK
<1>1. CASE Process \/ GraceExpires \/ UNCHANGED vars
  BY <1>1 DEF Process, Exit, Restart, RequestStop, GraceExpires, vars, RoundWritten, TallyMoved
<1>2. CASE Recovery
  <2>1. UNCHANGED <<rounds, tally, cur>> /\ pc # "close" /\ pc' # "close"
    BY <1>2 DEF Recovery, RecoverFind, RecoverFindFails, RefundRead, RefundCommit, RefundRetry,
                RefundGivesUp, RefundDone
  <2> QED BY <2>1 DEF RoundWritten, TallyMoved
<1>3. CASE Waiting
  <2>1. UNCHANGED tally /\ pc # "close" /\ pc' # "close"
    BY <1>3 DEF Waiting, StopSeen, SaveRound, SaveRoundFails, SetRound, ClearActiveBets, WaitOver
  <2>2. UNCHANGED rounds \/ \E r \in Rounds, c \in CrashPoints : Insert(r, c)
    BY <1>3 DEF Waiting, StopSeen, SaveRound, SaveRoundFails, SetRound, ClearActiveBets, WaitOver
  <2> QED BY <2>1, <2>2 DEF RoundWritten, TallyMoved
<1>4. CASE Running
  <2>1. UNCHANGED tally /\ pc # "close" /\ pc' # "close"
    BY <1>4 DEF Running, RunBegin, RunUpdate, RunUpdateFails, Tick, Crash
  <2>2. UNCHANGED rounds \/ RunUpdate
    BY <1>4 DEF Running, RunBegin, RunUpdateFails, Tick, Crash
  <2>3. RunUpdate => RoundWritten
    BY <1>0 DEF RunUpdate, RoundWritten
  <2> QED BY <2>1, <2>2, <2>3 DEF RoundWritten, TallyMoved
<1>5. CASE SettleFind \/ SettleGivesUp \/ \E p \in Pairs : SettleOne(p)
  <2>1. UNCHANGED <<rounds, tally, cur>> /\ pc # "close" /\ pc' # "close"
    BY <1>5 DEF SettleFind, SettleGivesUp, SettleOne
  <2> QED BY <2>1 DEF RoundWritten, TallyMoved
<1>6. CASE SettleFindFails \/ SettlePayoutFails \/ SettlePayout
  BY <1>0, <1>6 DEF SettleFindFails, SettlePayoutFails, SettlePayout, RoundWritten, TallyMoved
<1>7. CASE CloseRound \/ CloseRoundFails
  BY <1>0, <1>7 DEF CloseRound, CloseRoundFails, RoundOver, RoundWritten, TallyMoved
<1>8. ASSUME NEW c \in Handlers, Betting(c) \/ CashingOut(c) \/ Disconnect(c)
      PROVE  RoundWritten /\ TallyMoved
  <2>1. UNCHANGED <<rounds, cur, pc, tally>>
    BY <1>8 DEF Betting, CashingOut, BetCheck, BetCommit, BetCommitLost, BetAbort, AddActiveBet,
       CashBegin, CashRead, CashCommit, WriteCashout, CashRetry, CashAbort, Disconnect, HandlerFrame
  <2> QED BY <2>1 DEF RoundWritten, TallyMoved
<1> QED BY <1>1, <1>2, <1>3, <1>4, <1>5, <1>6, <1>7, <1>8 DEF Next, Settling

(* Every step keeps the totals.                                            *)
LEMMA NextPaid ==
    ASSUME IInv, RoundInv, PaidInv, [Next]_vars
    PROVE  PaidInv'
<1>0. /\ rounds \in [Rounds -> RoundType] /\ tally \in Nat
      /\ \A r \in Rounds : rounds[r].payout <= PaidOut(r)
  BY DEF PaidInv, TallyPaid, RecordedPayoutWasPaid
<1>1. RoundWritten /\ TallyMoved
  BY NextTotals DEF IInv, RoundInv
<1>2. \A r : PaidOut(r) \in Nat /\ PaidOut(r)' \in Nat /\ PaidOut(r) <= PaidOut(r)'
  BY PaidOutGrows
<1>3. rounds' \in [Rounds -> RoundType]
  <2>1. CrashPoints \subseteq Nat /\ Wagered \in Nat
    BY MultiplierAssumption, WageredNatural DEF IInv
  <2>2. ASSUME NEW r \in Rounds, NEW c \in CrashPoints, Insert(r, c)
        PROVE  rounds' \in [Rounds -> RoundType]
    <3>1. [Unsaved EXCEPT !.status = "waiting", !.crash = c] \in RoundType
      BY <2>1 DEF Unsaved, RoundType, Phases
    <3> QED BY <1>0, <2>2, <3>1 DEF Insert
  <2>3. ASSUME NEW d \in RoundType, NEW w \in Nat
        PROVE  /\ [d EXCEPT !.status = "running", !.wagered = w] \in RoundType
               /\ [d EXCEPT !.status = "crashed", !.payout = w] \in RoundType
    BY DEF RoundType, Phases
  <2>4. CASE cur \in Rounds /\ rounds' = [rounds EXCEPT ![cur].status = "running", ![cur].wagered = Wagered]
    BY <1>0, <2>1, <2>3, <2>4
  <2>5. CASE cur \in Rounds /\ rounds' = [rounds EXCEPT ![cur].status = "crashed", ![cur].payout = tally]
    BY <1>0, <2>3, <2>5
  <2> QED BY <1>0, <1>1, <2>2, <2>4, <2>5 DEF RoundWritten
<1>4. ASSUME NEW r \in Rounds PROVE rounds'[r].payout <= PaidOut(r)'
  <2>0. rounds[r].payout \in Nat
    BY <1>0 DEF RoundType
  <2>1. CASE rounds'[r].payout = rounds[r].payout
    BY <1>0, <1>2, <2>0, <2>1
  <2>2. CASE rounds'[r].payout = 0
    BY <1>2, <2>2
  <2>3. CASE rounds'[r].payout = tally /\ pc = "close" /\ r = cur
    <3>1. tally <= PaidOut(r)
      BY <2>3 DEF PaidInv, TallyPaid
    <3> QED BY <1>0, <1>2, <2>3, <3>1
  <2>4. ASSUME NEW q \in Rounds, NEW c \in CrashPoints, Insert(q, c)
        PROVE  rounds'[r].payout \in {rounds[r].payout, 0}
    BY <1>0, <2>4 DEF Insert, Unsaved
  <2>5. CASE cur \in Rounds /\ rounds' = [rounds EXCEPT ![cur].status = "running", ![cur].wagered = Wagered]
    <3>1. rounds'[r].payout = rounds[r].payout
      BY <1>0, <2>5 DEF RoundType
    <3> QED BY <2>1, <3>1
  <2>6. CASE /\ pc = "close" /\ cur \in Rounds
             /\ rounds' = [rounds EXCEPT ![cur].status = "crashed", ![cur].payout = tally]
    <3>1. rounds'[r].payout = IF r = cur THEN tally ELSE rounds[r].payout
      BY <1>0, <2>6 DEF RoundType
    <3> QED BY <2>1, <2>3, <2>6, <3>1
  <2> QED BY <1>1, <2>1, <2>2, <2>4, <2>5, <2>6 DEF RoundWritten
<1>5. TallyPaid'
  <2>1. CASE tally' = 0
    BY <1>2, <2>1 DEF TallyPaid
  <2>2. CASE UNCHANGED <<tally, cur>> /\ (pc' = "close" <=> pc = "close")
    <3>1. pc = "close" => tally <= PaidOut(cur)
      BY DEF PaidInv, TallyPaid
    <3>2. pc = "close" => tally <= PaidOut(cur)'
      <4>1. \A c \in {cur} : PaidOut(c) \in Nat /\ PaidOut(c)' \in Nat /\ PaidOut(c) <= PaidOut(c)'
        BY <1>2
      <4>2. PICK c : c = cur /\ c = cur'
        BY <2>2
      <4> QED BY <1>0, <1>2, <3>1, <4>2
    <3> QED BY <1>0, <2>2, <3>1, <3>2 DEF PaidInv, TallyPaid
  <2>3. CASE UNCHANGED tally /\ pc # "close" /\ pc' # "close"
    BY <1>0, <2>3 DEF PaidInv, TallyPaid
  <2>4. CASE SettlePayout /\ cur \in Rounds
    <3>1. /\ pc' = "close" /\ cur' = cur /\ ledger' = ledger
          /\ tally' = SumFunction([u \in WonIn(cur) |-> bets[u][cur].amount + bets[u][cur].profit])
      BY <2>4 DEF SettlePayout, Goto, store, money
    <3>2. tally' \in Nat /\ tally' <= PaidOut(cur)
      BY <2>4, <3>1, TotalWasPaid DEF IInv
    <3>3. PaidOut(cur)' = PaidOut(cur)
      BY <3>1 DEF PaidOut, WinsOf, WinOf
    <3> QED BY <3>1, <3>2, <3>3 DEF TallyPaid
  <2> QED BY <1>1, <2>1, <2>2, <2>3, <2>4 DEF TallyMoved
<1> QED BY <1>3, <1>4, <1>5 DEF PaidInv, RecordedPayoutWasPaid

(* Nothing is recorded before the first round.                             *)
LEMMA InitPaid == Init => PaidInv
<1> SUFFICES ASSUME Init PROVE PaidInv OBVIOUS
<1>1. rounds = [r \in Rounds |-> Unsaved] /\ tally = 0 /\ pc = "recover"
  BY DEF Init
<1>2. Unsaved \in RoundType /\ Unsaved.payout = 0
  BY DEF Unsaved, RoundType
<1>3. \A r : PaidOut(r) \in Nat
  <2>1. CoreTypeOK
    BY InitIInv DEF IInv
  <2>2. ledger \in [Users -> Seq(EntryType)]
    BY <2>1 DEF CoreTypeOK
  <2> QED BY <2>2, WinsTyped
<1> HIDE DEF Unsaved
<1> QED BY <1>1, <1>2, <1>3 DEF PaidInv, TallyPaid, RecordedPayoutWasPaid

LEMMA PaidInvariance == Spec => []PaidInv
<1>1. IInv /\ RoundInv /\ PaidInv /\ [Next]_vars => PaidInv'
  BY NextPaid
<1> QED BY <1>1, InitPaid, Invariance, RoundInvariance, PTL DEF Spec

(* PayoutsWerePaid: the total payout that UpdateCrashed records for a      *)
(* round had left the house when settleBets added it up, whatever          *)
(* cash-outs, failures and restarts came in between.                       *)
THEOREM PayoutsWerePaid == Spec => []RecordedPayoutWasPaid
<1>1. PaidInv => RecordedPayoutWasPaid
  BY DEF PaidInv
<1> QED BY <1>1, PaidInvariance, PTL

(* Types: balances and totals included, every variable keeps its type.     *)
THEOREM Types == Spec => []TypeOK
<1>1. IInv /\ PaidInv => TypeOK
  BY DEF IInv, PaidInv, TallyPaid, TypeOK
<1> QED BY <1>1, Invariance, PaidInvariance, PTL

=============================================================================
