------------------------------ MODULE CrashGame ------------------------------
(***************************************************************************)
(* The money-carrying core of the crash game: the engine goroutine that    *)
(* drives a round through waiting, running and crashed (game/engine.go,    *)
(* phases.go), the start-up recovery (recovery.go), the in-memory game     *)
(* state they share with the WebSocket handlers (state.go), and the bet    *)
(* and cash-out handlers with their MongoDB transactions                   *)
(* (websocket/handlers.go, services/game_service.go).                      *)
(*                                                                         *)
(* A step is one access to shared state: one locked access of the game     *)
(* state, one write of a document, or the commit of a transaction.  A      *)
(* transaction is its snapshot read followed by an atomic commit that      *)
(* fails when a document it wrote has changed since the snapshot.          *)
(***************************************************************************)
EXTENDS Integers, Sequences, FiniteSets, Functions

CONSTANTS
    Users,          \* accounts
    Handlers,       \* WebSocket connections, one ReadPump goroutine each
    Owner,          \* the user a connection belongs to
    NoHandler,      \* a user mutex nobody holds
    MaxRounds,      \* bound: rounds that can be created
    CrashPoints,    \* crash points (x100) GenerateCrashPoint may draw
    Ticks,          \* multipliers (x100) the growth loop may compute
    LossyX100,      \* multipliers m whose double m/100.0 * 100 floors to m-1
    GraceX100,      \* highest multiplier reachable within BetGraceWindow
    Amounts,        \* amounts (cents) a client may ask to stake
    MinBetCents, MaxBetCents, MaxWinCents,
    InitialBalance, \* config.InitialBalance, credited at registration
    SigTerm,        \* whether the operator may ask for a graceful stop
    MaxRestarts,    \* bound: process crashes or exits
    MaxFaults       \* bound: failed database calls that change the outcome

Rounds  == 1..MaxRounds     \* round UUIDs, numbered in order of creation
NoRound == 0                \* currentRound == nil

ASSUME UsersAssumption == IsFiniteSet(Users)
ASSUME OwnerAssumption == Owner \in [Handlers -> Users] /\ NoHandler \notin Handlers
ASSUME BoundAssumption == MaxRounds \in Nat /\ MaxRestarts \in Nat /\ MaxFaults \in Nat
                          /\ SigTerm \in BOOLEAN
ASSUME MoneyAssumption ==
    /\ Amounts \subseteq Int /\ InitialBalance \in Nat
    /\ MinBetCents \in Nat \ {0} /\ MaxBetCents \in Nat /\ MaxWinCents \in Nat
ASSUME MultiplierAssumption ==
    /\ CrashPoints \subseteq Nat /\ Ticks \subseteq {m \in Nat : m >= 100}
    /\ LossyX100 \subseteq {m \in Nat : m > 100} /\ GraceX100 \in Nat
    /\ \A c \in CrashPoints : \E m \in Ticks : m >= c  \* the curve is unbounded

VARIABLES
    pc,       \* where the engine goroutine is
    stopReq,  \* stopChan is closed
    todo,     \* pendingBets still to be written by the bulk update, or refunded
    tally,    \* totalPayout of settleBets
    seen,     \* balanceBefore read by the refund goroutine of a bet, -1 if none
    phase, cur, grace, active, mult,           \* InMemoryGameState
    h, lock,                                   \* handlers and user mutexes
    rounds, bets, balance, ledger,             \* MongoDB collections
    restarts, faults                           \* bounds used up

engine == <<stopReq, tally, seen>>
store  == <<phase, cur, grace, active, mult>>
conns  == <<h, lock>>
money  == <<bets, balance, ledger>>
bounds == <<restarts, faults>>
vars   == <<pc, engine, todo, store, conns, rounds, money, bounds>>

-----------------------------------------------------------------------------
(* Types *)

EnginePc == {"down", "recover", "refund", "top", "setRound", "clear",
             "waiting", "run", "stats", "tick0", "tick", "find", "bulk",
             "payout", "close", "stopped"}
Phases    == {"waiting", "running", "crashed"}
BetStatus == {"none", "pending", "won", "lost", "refunded"}
BetType   == [status : BetStatus, amount : Nat, profit : Int, cashout : Nat]
RoundType == [status : {"none"} \union Phases, crash : Nat, wagered : Nat, payout : Nat]
EntryType == [type : {"bet", "win", "refund"}, round : Rounds, amount : Nat,
              before : Int, after : Int]
HandlerPc == {"idle", "bet", "add", "cash", "pay"}
HandlerType == [pc : HandlerPc, round : Rounds \union {NoRound}, amount : Nat, mult : Nat]
Pairs     == Users \X Rounds    \* bets are unique per user and round

Bet(s, a, p, m) == [status |-> s, amount |-> a, profit |-> p, cashout |-> m]
NoBet   == Bet("none", 0, 0, 0)
Unsaved == [status |-> "none", crash |-> 0, wagered |-> 0, payout |-> 0]
Request(l, r, a, m) == [pc |-> l, round |-> r, amount |-> a, mult |-> m]
Idle    == Request("idle", NoRound, 0, 0)

CoreTypeOK ==
    /\ pc \in EnginePc /\ stopReq \in BOOLEAN
    /\ todo \subseteq Pairs /\ seen \in [Pairs -> Nat \union {-1}]
    /\ phase \in Phases /\ cur \in Rounds \union {NoRound} /\ grace \in BOOLEAN
    /\ active \in [Users -> Rounds \union {NoRound}] /\ mult \in Nat
    /\ h \in [Handlers -> HandlerType] /\ lock \in [Users -> Handlers \union {NoHandler}]
    /\ bets \in [Users -> [Rounds -> BetType]]
    /\ balance \in [Users -> Nat] /\ ledger \in [Users -> Seq(EntryType)]
    /\ restarts \in 0..MaxRestarts /\ faults \in 0..MaxFaults

(* TypeOK: every variable stays in its type; in particular no balance is   *)
(* ever negative (DeductBalance's $gte filter) and no recorded total is.   *)
TypeOK == CoreTypeOK /\ tally \in Nat /\ rounds \in [Rounds -> RoundType]

-----------------------------------------------------------------------------
(* Arithmetic and database helpers *)

\* The fixed-point form of a published multiplier: floor(float64(m)/100.0*100).
ToX100(m) == IF m \in LossyX100 THEN m - 1 ELSE m

ValidAmount(a) == MinBetCents <= a /\ a <= MaxBetCents

\* CalculatePayout followed by ApplyMaxWinCap.
Payout(a, m) == LET p == (a * m) \div 100
                IN  IF p > MaxWinCents THEN MaxWinCents ELSE p

\* Mutant: settle the bets of the in-memory map instead of the collection.
PendingInMemory(r) ==
    {p \in Pairs : p[2] = r /\ bets[p[1]][r].status = "pending" /\ active[p[1]] = r}

PendingIn(r) == {p \in Pairs : p[2] = r /\ bets[p[1]][r].status = "pending"}

\* Mutants: recovery looks for the bets of rounds that were flying only, or
\* also takes lost bets for unsettled ones.
PendingInFlight  == {p \in Pairs : bets[p[1]][p[2]].status = "pending" /\ rounds[p[2]].status = "running"}
PendingOrLost    == {p \in Pairs : bets[p[1]][p[2]].status \in {"pending", "lost"}}

AllPending == {p \in Pairs : bets[p[1]][p[2]].status = "pending"}

\* Mutant: FindWonByRound without its status filter.
PlayedIn(r)  == {u \in Users : bets[u][r].status # "none"}

WonIn(r) == {u \in Users : bets[u][r].status = "won"}

\* The $set of UpdateStatus and BulkUpdateLost: whatever the bet's status is.
SetStatus(u, r, s, p) ==
    bets' = [bets EXCEPT ![u][r] = Bet(s, bets[u][r].amount, p, bets[u][r].cashout)]

Entry(type, r, a, before, after) ==
    [type |-> type, round |-> r, amount |-> a, before |-> before, after |-> after]

\* One ledger document; delta is what the entry does to the balance.
Post(u, e, delta) ==
    /\ ledger' = [ledger EXCEPT ![u] = Append(@, e)]
    /\ balance' = [balance EXCEPT ![u] = @ + delta]

\* A database call of the engine fails after its retries.
Fault == faults < MaxFaults /\ faults' = faults + 1 /\ UNCHANGED restarts

Goto(from, to) == pc = from /\ pc' = to

-----------------------------------------------------------------------------
(* Process start: NewInMemoryGameState, NewEngine, no connection. *)

NobodyActive == [u \in Users |-> NoRound]
AllIdle      == [c \in Handlers |-> Idle]
Unlocked     == [u \in Users |-> NoHandler]
NothingSeen  == [p \in Pairs |-> -1]

Init ==
    /\ pc = "recover" /\ stopReq = FALSE /\ todo = {} /\ tally = 0 /\ seen = NothingSeen
    /\ phase = "waiting" /\ cur = NoRound /\ grace = FALSE /\ mult = 0
    /\ active = NobodyActive /\ h = AllIdle /\ lock = Unlocked
    /\ rounds = [r \in Rounds |-> Unsaved]
    /\ bets = [u \in Users |-> [r \in Rounds |-> NoBet]]
    /\ balance = [u \in Users |-> InitialBalance]
    /\ ledger = [u \in Users |-> <<>>]
    /\ restarts = 0 /\ faults = 0

\* The process dies, or main returns after a graceful stop.  Everything in
\* memory is lost and transactions that have not committed are rolled back.
Exit ==
    /\ pc # "down" /\ restarts < MaxRestarts
    /\ pc' = "down" /\ restarts' = restarts + 1
    /\ stopReq' = FALSE /\ todo' = {} /\ tally' = 0 /\ seen' = NothingSeen
    /\ phase' = "waiting" /\ cur' = NoRound /\ grace' = FALSE /\ mult' = 0
    /\ active' = NobodyActive /\ h' = AllIdle /\ lock' = Unlocked
    /\ UNCHANGED <<rounds, money, faults>>

Restart == /\ Goto("down", "recover")
           /\ UNCHANGED <<engine, todo, store, conns, rounds, money, bounds>>

-----------------------------------------------------------------------------
(* runRecovery: connections are accepted only after it returns. *)

RecoverFind ==
    /\ pc = "recover"
    /\ todo' = AllPending
    /\ pc' = IF AllPending = {} THEN "top" ELSE "refund"
    /\ UNCHANGED <<engine, store, conns, rounds, money, bounds>>

\* FindAllPending failed three times: Start logs it and plays on.
RecoverFindFails ==
    /\ Goto("recover", "top") /\ Fault
    /\ UNCHANGED <<engine, todo, store, conns, rounds, money>>

\* refundBet reads the user before the transaction, in a goroutine per bet.
RefundRead(p) ==
    /\ pc = "refund" /\ p \in todo /\ seen[p] = -1
    /\ seen' = [seen EXCEPT ![p] = balance[p[1]]]
    /\ UNCHANGED <<pc, stopReq, todo, tally, store, conns, rounds, money, bounds>>

\* Mutant: refundPendingBets returns without waiting for its goroutines.
RefundDoneNoWait(p) ==
    /\ todo' = todo \ {p} /\ seen' = [seen EXCEPT ![p] = -1]
    /\ pc' = "top"
    /\ UNCHANGED <<stopReq, tally, store, conns, rounds>>

RefundDone(p) ==
    /\ todo' = todo \ {p} /\ seen' = [seen EXCEPT ![p] = -1]
    /\ pc' = IF todo = {p} THEN "top" ELSE pc       \* wg.Wait
    /\ UNCHANGED <<stopReq, tally, store, conns, rounds>>

\* Mutant: the balance is set to the value read before, not incremented.
RefundCommitBySet(p) ==
    LET u == p[1]  r == p[2]  a == bets[u][r].amount IN
    /\ pc = "refund" /\ p \in todo /\ seen[p] # -1
    /\ SetStatus(u, r, "refunded", 0)
    /\ Post(u, Entry("refund", r, a, seen[p], seen[p] + a), seen[p] + a - balance[u])
    /\ RefundDone(p)
    /\ UNCHANGED bounds

RefundCommit(p) ==
    LET u == p[1]  r == p[2]  a == bets[u][r].amount IN
    /\ pc = "refund" /\ p \in todo /\ seen[p] # -1
    /\ SetStatus(u, r, "refunded", 0)
    /\ Post(u, Entry("refund", r, a, seen[p], seen[p] + a), a)
    /\ RefundDone(p)
    /\ UNCHANGED bounds

\* An attempt fails and the next one reads the balance again.
RefundRetry(p) ==
    /\ pc = "refund" /\ p \in todo /\ seen[p] # -1 /\ Fault
    /\ seen' = [seen EXCEPT ![p] = -1]
    /\ UNCHANGED <<pc, stopReq, todo, tally, store, conns, rounds, money>>

\* Mutant: the status is written outside the transaction that then fails.
RefundGivesUpHalfway(p) ==
    /\ pc = "refund" /\ p \in todo /\ Fault
    /\ SetStatus(p[1], p[2], "refunded", 0)
    /\ RefundDone(p)
    /\ UNCHANGED <<balance, ledger>>

\* MaxRetries attempts failed: the bet is only counted in failCount.
RefundGivesUp(p) ==
    /\ pc = "refund" /\ p \in todo /\ Fault
    /\ RefundDone(p)
    /\ UNCHANGED money

-----------------------------------------------------------------------------
(* The engine loop: waitingPhase *)

\* Mutant: the stop channel is also polled during the waiting sleep.
StopSeenEarly == /\ pc \in {"top", "waiting"} /\ pc' = "stopped" /\ stopReq
                 /\ UNCHANGED <<engine, todo, store, conns, rounds, money, bounds>>

StopSeen == /\ Goto("top", "stopped") /\ stopReq
            /\ UNCHANGED <<engine, todo, store, conns, rounds, money, bounds>>

\* generateNewRound and its insert, under a round id never used before.
Insert(r, c) ==
    /\ rounds[r].status = "none" /\ \A q \in 1..(r - 1) : rounds[q].status # "none"
    /\ rounds' = [rounds EXCEPT ![r] = [Unsaved EXCEPT !.status = "waiting", !.crash = c]]

\* The round is saved; it is not current yet.
SaveRound(r, c) ==
    /\ Goto("top", "setRound") /\ ~stopReq
    /\ Insert(r, c) /\ phase' = "waiting"
    /\ UNCHANGED <<engine, todo, cur, grace, active, mult, conns, money, bounds>>

\* waitingPhase returns early, whether or not the insert was applied;
\* runGameLoop goes on to runningPhase with whatever round is current, or
\* around the loop when there is none.
SaveRoundFails ==
    /\ pc = "top" /\ ~stopReq /\ Fault
    /\ pc' = IF cur = NoRound THEN "top" ELSE "run"
    /\ UNCHANGED rounds \/ \E r \in Rounds, c \in CrashPoints : Insert(r, c)
    /\ UNCHANGED <<engine, todo, store, conns, money>>

\* Mutant: a round is only made current when there is none.
SetRoundOnce ==
    /\ Goto("setRound", "clear")
    /\ cur' = IF cur = NoRound THEN 1 ELSE cur
    /\ UNCHANGED <<engine, todo, phase, grace, active, mult, conns, rounds, money, bounds>>

\* The round saved last becomes current.
SetRound ==
    /\ Goto("setRound", "clear")
    /\ cur' \in {r \in Rounds : /\ rounds[r].status # "none"
                               /\ \A q \in Rounds : q > r => rounds[q].status = "none"}
    /\ UNCHANGED <<engine, todo, phase, grace, active, mult, conns, rounds, money, bounds>>

ClearActiveBets ==
    /\ Goto("clear", "waiting")
    /\ active' = [u \in Users |-> NoRound]
    /\ UNCHANGED <<engine, todo, phase, cur, grace, mult, conns, rounds, money, bounds>>

\* The waiting sleep ends; TransitionTime opens the 200 ms grace window.
WaitOver == /\ Goto("waiting", "run") /\ grace' = TRUE
            /\ UNCHANGED <<engine, todo, phase, cur, active, mult, conns, rounds, money, bounds>>

GraceExpires ==
    /\ grace /\ phase = "running" /\ grace' = FALSE
    /\ UNCHANGED <<pc, engine, todo, phase, cur, active, mult, conns, rounds, money, bounds>>

(* runningPhase and runMultiplierLoop *)

RunBegin == /\ Goto("run", "stats") /\ phase' = "running"
            /\ UNCHANGED <<engine, todo, cur, grace, active, mult, conns, rounds, money, bounds>>

Wagered == SumFunction([u \in {v \in Users : active[v] # NoRound} |-> bets[u][active[u]].amount])

RunUpdate ==
    /\ Goto("stats", "tick0")
    /\ rounds' = [rounds EXCEPT ![cur].status = "running", ![cur].wagered = Wagered]
    /\ UNCHANGED <<engine, todo, store, conns, money, bounds>>

\* UpdateRunning failed three times: the round still flies, not "running" in
\* the database.
RunUpdateFails ==
    /\ Goto("stats", "tick0") /\ Fault
    /\ UNCHANGED <<engine, todo, store, conns, rounds, money>>

\* Multipliers above GraceX100 are computed after the grace window is over.
Reached(m) == m > GraceX100 => ~grace

Tick(m) ==
    /\ pc \in {"tick0", "tick"} /\ m < rounds[cur].crash /\ Reached(m)
    /\ pc = "tick" => m > mult
    /\ pc' = "tick" /\ mult' = m
    /\ UNCHANGED <<engine, todo, phase, cur, grace, active, conns, rounds, money, bounds>>

Crash(m) ==
    /\ pc \in {"tick0", "tick"} /\ m >= rounds[cur].crash /\ Reached(m)
    /\ pc' = "find" /\ phase' = "crashed"
    /\ UNCHANGED <<engine, todo, cur, grace, active, mult, conns, rounds, money, bounds>>

(* crashedPhase and settleBets *)

SettleFind ==
    /\ pc = "find"
    /\ todo' = PendingIn(cur)
    /\ pc' = IF PendingIn(cur) = {} THEN "payout" ELSE "bulk"
    /\ UNCHANGED <<engine, store, conns, rounds, money, bounds>>

\* FindPendingByRound failed: settleBets returns 0.
SettleFindFails ==
    /\ Goto("find", "close") /\ Fault
    /\ tally' = 0
    /\ UNCHANGED <<stopReq, seen, todo, store, conns, rounds, money>>

\* One update of the unordered bulk write.  Its filter is the bet's _id only.
SettleOne(p) ==
    LET u == p[1]  r == p[2] IN
    /\ pc = "bulk" /\ p \in todo
    /\ SetStatus(u, r, "lost", -bets[u][r].amount)
    /\ todo' = todo \ {p}
    /\ pc' = IF todo = {p} THEN "payout" ELSE pc
    /\ UNCHANGED <<engine, store, conns, rounds, balance, ledger, bounds>>

\* The bulk write fails part way: the rest stays as it is, only logged.
SettleGivesUp ==
    /\ Goto("bulk", "payout") /\ Fault
    /\ todo' = {}
    /\ UNCHANGED <<engine, store, conns, rounds, money>>

SettlePayout ==
    /\ Goto("payout", "close")
    /\ tally' = SumFunction([u \in WonIn(cur) |-> bets[u][cur].amount + bets[u][cur].profit])
    /\ UNCHANGED <<stopReq, seen, todo, store, conns, rounds, money, bounds>>

SettlePayoutFails ==
    /\ Goto("payout", "close") /\ Fault
    /\ tally' = 0
    /\ UNCHANGED <<stopReq, seen, todo, store, conns, rounds, money>>

\* The end of crashedPhase: the crash sleep outlasts any grace window.
RoundOver == /\ Goto("close", "top") /\ tally' = 0 /\ grace' = FALSE
             /\ UNCHANGED <<stopReq, seen, todo, phase, cur, active, mult, conns, money>>

\* Mutant: rounds without a payout are not written back.
CloseRoundIfPaid ==
    /\ RoundOver
    /\ rounds' = IF tally = 0 THEN rounds
                 ELSE [rounds EXCEPT ![cur].status = "crashed", ![cur].payout = tally]
    /\ UNCHANGED bounds

CloseRound ==
    /\ RoundOver
    /\ rounds' = [rounds EXCEPT ![cur].status = "crashed", ![cur].payout = tally]
    /\ UNCHANGED bounds

CloseRoundFails == RoundOver /\ Fault /\ UNCHANGED rounds

RequestStop == /\ SigTerm /\ pc \notin {"down", "recover", "refund", "stopped"} /\ ~stopReq
               /\ stopReq' = TRUE
               /\ UNCHANGED <<pc, tally, seen, todo, store, conns, rounds, money, bounds>>

-----------------------------------------------------------------------------
(* WebSocket handlers.  A handler holds its user's mutex for the whole     *)
(* request; the mutex is a map entry that cleanupUserMutex deletes.        *)

Serving == pc \notin {"down", "recover", "refund"}

Acquire(c) == lock[Owner[c]] = NoHandler /\ lock' = [lock EXCEPT ![Owner[c]] = c]
Release(c) == lock' = [lock EXCEPT ![Owner[c]] = IF @ = c THEN NoHandler ELSE @]

HandlerFrame == UNCHANGED <<pc, engine, todo, phase, cur, grace, mult, rounds, restarts>>

\* handlePlaceBet up to the call of PlaceBet.
BetCheck(c, a) ==
    /\ Serving /\ h[c].pc = "idle" /\ Acquire(c)
    /\ ValidAmount(a) /\ cur # NoRound
    /\ phase = "waiting" \/ (phase = "running" /\ grace)
    /\ h' = [h EXCEPT ![c] = Request("bet", cur, a, 0)]
    /\ HandlerFrame /\ UNCHANGED <<active, money, faults>>

\* Mutant: DeductBalance without its $gte filter.
PlaceBetOnCredit(u, r, a) ==
    /\ bets[u][r].status = "none"
    /\ bets' = [bets EXCEPT ![u][r] = Bet("pending", a, 0, 0)]
    /\ Post(u, Entry("bet", r, a, balance[u], balance[u] - a), -a)

\* The transaction of PlaceBet commits.
PlaceBet(u, r, a) ==
    /\ bets[u][r].status = "none" /\ balance[u] >= a
    /\ bets' = [bets EXCEPT ![u][r] = Bet("pending", a, 0, 0)]
    /\ Post(u, Entry("bet", r, a, balance[u], balance[u] - a), -a)

BetCommit(c) ==
    /\ h[c].pc = "bet"
    /\ PlaceBet(Owner[c], h[c].round, h[c].amount)
    /\ h' = [h EXCEPT ![c] = Request("add", h[c].round, 0, 0)]
    /\ HandlerFrame /\ UNCHANGED <<active, lock, faults>>

\* The commit is applied and its reply lost: PlaceBet returns an error.
BetCommitLost(c) ==
    /\ h[c].pc = "bet" /\ Fault
    /\ PlaceBet(Owner[c], h[c].round, h[c].amount)
    /\ h' = [h EXCEPT ![c] = Idle] /\ Release(c)
    /\ HandlerFrame /\ UNCHANGED active

\* Duplicate bet, insufficient balance, banned user, timeout: rolled back.
BetAbort(c) ==
    /\ h[c].pc = "bet"
    /\ h' = [h EXCEPT ![c] = Idle] /\ Release(c)
    /\ HandlerFrame /\ UNCHANGED <<active, money, faults>>

AddActiveBet(c) ==
    /\ h[c].pc = "add"
    /\ active' = [active EXCEPT ![Owner[c]] = h[c].round]
    /\ h' = [h EXCEPT ![c] = Idle] /\ Release(c)
    /\ HandlerFrame /\ UNCHANGED <<money, faults>>

\* handleCashOut up to the call of CashOut: which bet to cash out.
CashBegin(c) ==
    /\ Serving /\ h[c].pc = "idle" /\ Acquire(c)
    /\ active[Owner[c]] # NoRound
    /\ h' = [h EXCEPT ![c] = Request("cash", active[Owner[c]], 0, 0)]
    /\ HandlerFrame /\ UNCHANGED <<active, money, faults>>

\* Steps 1 to 4 of CashOut.  The bet and the round come from the snapshot,
\* the multiplier from memory.
Cashable(u, r) ==
    /\ bets[u][r].status = "pending" /\ rounds[r].status = "running"
    /\ mult >= 100 /\ ToX100(mult) < rounds[r].crash

CashRead(c) ==
    /\ h[c].pc = "cash" /\ Cashable(Owner[c], h[c].round)
    /\ h' = [h EXCEPT ![c] = Request("pay", h[c].round, 0, ToX100(mult))]
    /\ HandlerFrame /\ UNCHANGED <<lock, active, money, faults>>

\* What a cash-out that passed its checks does, crediting `credit`.
WriteCashout(c, p, credit) ==
    LET u == Owner[c]  r == h[c].round  a == bets[u][r].amount IN
    /\ bets' = [bets EXCEPT ![u][r] = Bet("won", a, p - a, h[c].mult)]
    /\ Post(u, Entry("win", r, p, balance[u], balance[u] + p), credit)
    /\ h' = [h EXCEPT ![c] = Idle] /\ Release(c)
    /\ HandlerFrame /\ UNCHANGED <<active, faults>>

Winnings(c) == Payout(bets[Owner[c]][h[c].round].amount, h[c].mult)
StatusAt(c) == bets[Owner[c]][h[c].round].status

\* Mutants: UpdateCashout unconditional, UpdateCashout refusing won bets only,
\* the profit credited instead of the payout.
CashCommitAlways(c) == h[c].pc = "pay" /\ WriteCashout(c, Winnings(c), Winnings(c))
CashCommitUnlessWon(c) == /\ h[c].pc = "pay" /\ StatusAt(c) # "won"
                          /\ WriteCashout(c, Winnings(c), Winnings(c))
CashCommitProfit(c) ==
    /\ h[c].pc = "pay" /\ StatusAt(c) = "pending"
    /\ WriteCashout(c, Winnings(c), Winnings(c) - bets[Owner[c]][h[c].round].amount)

\* Steps 5 to 9 and the commit, which fails unless the bet is as it was read.
CashCommit(c) ==
    /\ h[c].pc = "pay" /\ StatusAt(c) = "pending"
    /\ WriteCashout(c, Winnings(c), Winnings(c))

\* A write conflict makes WithTransaction run the callback again.
CashRetry(c) ==
    /\ h[c].pc = "pay"
    /\ h' = [h EXCEPT ![c] = Request("cash", h[c].round, 0, 0)]
    /\ HandlerFrame /\ UNCHANGED <<lock, active, money, faults>>

\* Refused by a check, or the transaction failed for good.
CashAbort(c) ==
    /\ h[c].pc \in {"cash", "pay"}
    /\ h' = [h EXCEPT ![c] = Idle] /\ Release(c)
    /\ HandlerFrame /\ UNCHANGED <<active, money, faults>>

\* The connection closes between requests: hub.Run deletes the user's mutex
\* although another connection of the user may hold it.
Disconnect(c) ==
    /\ h[c].pc = "idle" /\ lock[Owner[c]] # NoHandler
    /\ lock' = [lock EXCEPT ![Owner[c]] = NoHandler]
    /\ HandlerFrame /\ UNCHANGED <<h, active, money, faults>>

-----------------------------------------------------------------------------
Process == Exit \/ Restart \/ RequestStop

Recovery == \/ RecoverFind \/ RecoverFindFails
            \/ \E p \in Pairs : RefundRead(p) \/ RefundCommit(p) \/ RefundRetry(p) \/ RefundGivesUp(p)

Waiting == \/ StopSeen \/ SaveRoundFails \/ SetRound \/ ClearActiveBets \/ WaitOver
           \/ \E r \in Rounds, c \in CrashPoints : SaveRound(r, c)

Running == \/ RunBegin \/ RunUpdate \/ RunUpdateFails
           \/ \E m \in Ticks : Tick(m) \/ Crash(m)

Settling == \/ SettleFind \/ SettleFindFails \/ SettleGivesUp
            \/ \E p \in Pairs : SettleOne(p)
            \/ SettlePayout \/ SettlePayoutFails \/ CloseRound \/ CloseRoundFails

Betting(c)    == \/ \E a \in Amounts : BetCheck(c, a)
                 \/ BetCommit(c) \/ BetCommitLost(c) \/ BetAbort(c) \/ AddActiveBet(c)
CashingOut(c) == CashBegin(c) \/ CashRead(c) \/ CashCommit(c) \/ CashRetry(c) \/ CashAbort(c)

Next == \/ Process \/ Recovery \/ Waiting \/ GraceExpires \/ Running \/ Settling
        \/ \E c \in Handlers : Betting(c) \/ CashingOut(c) \/ Disconnect(c)

Spec == Init /\ [][Next]_vars

\* The engine goroutine is never blocked for ever, wall-clock time passes,
\* and a supervisor starts the process again.
Fairness == /\ WF_vars(Recovery \/ Waiting \/ Running \/ Settling)
            /\ WF_vars(GraceExpires) /\ WF_vars(Restart)

FairSpec == Spec /\ Fairness

-----------------------------------------------------------------------------
(* Safety *)

Credit == {"win", "refund"}

\* Entries of u's ledger about round r with a type in T.
Entries(u, r, T) == {i \in DOMAIN ledger[u] : ledger[u][i].round = r /\ ledger[u][i].type \in T}

(* OneStakeOneCredit: whatever connections, retries, crashes and restarts  *)
(* do, a user is charged at most once for a round and credited at most     *)
(* once for that stake, by a win or by a recovery refund, never by both.   *)
OneStakeOneCredit ==
    \A u \in Users : \A i, j \in DOMAIN ledger[u] :
        /\ ledger[u][i].round = ledger[u][j].round
        /\ ledger[u][i].type \in Credit <=> ledger[u][j].type \in Credit
        => i = j

Posted(u, r, T, a) == \E i \in Entries(u, r, T) : ledger[u][i].amount = a

BookMatches(u, r) ==
    LET b == bets[u][r] IN
    /\ b.status = "none"     => Entries(u, r, Credit \union {"bet"}) = {}
    /\ b.status # "none"     => Posted(u, r, {"bet"}, b.amount)
    /\ b.status = "pending"  => Entries(u, r, Credit) = {}
    /\ b.status = "won"      => Posted(u, r, {"win"}, b.amount + b.profit)
    /\ b.status = "refunded" => Posted(u, r, {"refund"}, b.amount)
    /\ b.status = "lost" /\ b.cashout = 0 => Entries(u, r, Credit) = {}

(* StatusMatchesMoney: a bet document and the ledger tell the same story:  *)
(* a pending bet was charged and not credited, a won bet was credited its  *)
(* stake plus profit, a refunded bet its stake, a lost bet nothing unless  *)
(* it had been cashed out, and no bet means no charge.                     *)
StatusMatchesMoney == \A u \in Users, r \in Rounds : BookMatches(u, r)

Signed(e) == IF e.type = "bet" THEN -e.amount ELSE e.amount

LedgerSum(u) == SumFunction([i \in DOMAIN ledger[u] |-> Signed(ledger[u][i])])

(* BalanceIsLedger: a balance is the initial credit plus everything the    *)
(* user's ledger records, across rounds, refunds and restarts.             *)
BalanceIsLedger == \A u \in Users : balance[u] = InitialBalance + LedgerSum(u)

(* LedgerChains: until something is refunded to a user, her ledger is an   *)
(* audit trail, whichever connections wrote it: each entry starts from the *)
(* balance the previous one ended with, the last one ends with hers.       *)
LedgerChains ==
    \A u \in Users :
        LET After(i) == IF i = 0 THEN InitialBalance ELSE ledger[u][i].after
        IN  (\A i \in DOMAIN ledger[u] : ledger[u][i].type # "refund") =>
            /\ \A i \in DOMAIN ledger[u] : /\ ledger[u][i].before = After(i - 1)
                                           /\ After(i) = After(i - 1) + Signed(ledger[u][i])
            /\ balance[u] = After(Len(ledger[u]))

\* What the ledgers of u, or of all users, say was won in round r.
WinOf(e, r)   == IF e.type = "win" /\ e.round = r THEN e.amount ELSE 0
WinsOf(u, r)  == SumFunction([i \in DOMAIN ledger[u] |-> WinOf(ledger[u][i], r)])
PaidOut(r)    == SumFunction([u \in Users |-> WinsOf(u, r)])

(* RecordedPayoutWasPaid: the total_payout a closed round records never    *)
(* exceeds what its players were really paid (cash-outs may commit after   *)
(* the total was taken, so it can be less).                                *)
RecordedPayoutWasPaid == \A r \in Rounds : rounds[r].payout <= PaidOut(r)

(* StopCompletesRound: when the engine has stopped (and no database call   *)
(* failed on the way) no round is left open in the database.               *)
StopCompletesRound ==
    (pc = "stopped" /\ faults = 0 /\ restarts = 0) => \A r \in Rounds : rounds[r].status \in {"none", "crashed"}

(* BetStatusOrder: settlement, cash-out and recovery act on the same bet   *)
(* without locks, yet a bet never becomes pending again, a lost or         *)
(* refunded bet never changes, and a won bet is only ever overwritten by   *)
(* the bulk settlement of a round that already crashed.                    *)
BetStatusOrder ==
    [][\A u \in Users, r \in Rounds :
          LET old == bets[u][r].status  new == bets'[u][r].status IN
          old # new => \/ old = "none" /\ new = "pending"
                       \/ old = "pending" /\ new \in {"won", "lost", "refunded"}
                       \/ old = "won" /\ new = "lost" /\ phase = "crashed"]_vars

(* RecoveryClearsPending: players are let in only after every bet of the   *)
(* previous run has been refunded, unless a database call of the recovery  *)
(* failed for good.                                                        *)
RecoveryClearsPending ==
    [][(~Serving /\ Serving' /\ faults = 0 /\ faults' = 0) => AllPending' = {}]_vars

(* RoundStatusOrder: a round only goes from waiting to running to crashed, *)
(* across graceful stops, crashes and restarts, until a call fails: when a *)
(* round cannot be saved the engine flies the previous one again, although *)
(* it has crashed and its seed is known (phases.go:26).                    *)
RoundStatusOrder ==
    [][\A r \in Rounds :
          LET old == rounds[r].status  new == rounds'[r].status IN
          old # new => \/ <<old, new>> \in {<<"none", "waiting">>, <<"waiting", "running">>, <<"running", "crashed">>}
                       \/ faults' > 0]_vars

(* The inductive invariant behind the theorems of CrashGameProofs *)

\* Recovery refunds pending bets only, and settlement writes bets that were
\* pending when it read them and may have been cashed out since.
TodoOpen ==
    /\ pc = "refund" => \A p \in todo : bets[p[1]][p[2]].status = "pending"
    /\ pc = "bulk"   => \A p \in todo : bets[p[1]][p[2]].status \in {"pending", "won"}

NobodyServedInRecovery == ~Serving => \A c \in Handlers : h[c].pc = "idle"

\* What a handler carries from one of its steps to the next.
RequestsSound ==
    \A c \in Handlers :
        /\ h[c].pc # "idle" => h[c].round \in Rounds
        /\ h[c].pc = "bet"  => ValidAmount(h[c].amount)
        /\ h[c].pc = "pay"  => h[c].mult > 0

\* The cash-out multiplier is the lasting mark of a paid bet.
CashoutMarksPaid ==
    \A u \in Users, r \in Rounds :
        /\ bets[u][r].status = "won"     => bets[u][r].cashout # 0
        /\ bets[u][r].status = "pending" => bets[u][r].cashout = 0

\* Bets are settled only after the crash has been published in memory.
SettledAfterCrash == pc \in {"find", "bulk"} => phase = "crashed"

ControlInv == TodoOpen /\ NobodyServedInRecovery /\ RequestsSound /\ SettledAfterCrash
MoneyInv   == OneStakeOneCredit /\ StatusMatchesMoney /\ CashoutMarksPaid
IInv       == CoreTypeOK /\ ControlInv /\ MoneyInv

(* The inductive invariant behind the theorems of EngineProofs *)

RoundFields == {"status", "crash", "wagered", "payout"}
RoundsShaped == DOMAIN rounds = Rounds /\ \A r \in Rounds : DOMAIN rounds[r] = RoundFields

\* Rounds are saved in order.
RoundsInOrder ==
    \A q, r \in Rounds : q < r /\ rounds[r].status # "none" => rounds[q].status # "none"

LastSaved(r) == /\ rounds[r].status # "none"
                /\ \A q \in Rounds : q > r => rounds[q].status = "none"

\* The current round has been saved, and a round is only waited for, flown and
\* settled when there is one.
CurrentSaved ==
    /\ cur # NoRound => rounds[cur].status # "none"
    /\ pc \notin {"down", "recover", "refund", "top", "stopped", "setRound"} => cur # NoRound

\* Until a call fails, the round at hand is as far as the engine is, and
\* until the process has died no other round is open.
RoundFlow ==
    faults = 0 =>
        /\ pc = "setRound" => \A r \in Rounds : LastSaved(r) => rounds[r].status = "waiting"
        /\ pc \in {"clear", "waiting", "run", "stats"} => cur \in Rounds /\ rounds[cur].status = "waiting"
        /\ pc \in {"tick0", "tick", "find", "bulk", "payout", "close"} =>
               cur \in Rounds /\ rounds[cur].status = "running"
        /\ restarts = 0 =>
               \A r \in Rounds :
                   \/ rounds[r].status \in {"none", "crashed"}
                   \/ pc = "setRound" /\ LastSaved(r)
                   \/ pc \notin {"down", "recover", "refund", "setRound", "top", "stopped"} /\ r = cur

\* Until a call fails, recovery holds every bet it has to refund.
RefundsCover == pc = "refund" /\ faults = 0 => AllPending \subseteq todo

\* The total of settleBets exists between settleBets and the write of the round.
TallyPaid == /\ tally \in Nat
             /\ pc # "close" => tally = 0
             /\ pc = "close" => tally <= PaidOut(cur)

EngineInv == RoundsShaped /\ RoundsInOrder /\ CurrentSaved /\ RoundFlow /\ RefundsCover /\ TallyPaid

(* The money view of the bets: a bet that has been overwritten as lost     *)
(* still carries the cash-out it was paid at.                              *)
StageOf(b) == CASE b.status = "none" -> "none"
                [] b.status = "pending" -> "held"
                [] b.status = "refunded" -> "returned"
                [] b.status \in {"won", "lost"} -> IF b.cashout # 0 THEN "paid" ELSE "kept"

Stages == [u \in Users |-> [r \in Rounds |-> StageOf(bets[u][r])]]
Stakes == [u \in Users |-> [r \in Rounds |-> bets[u][r].amount]]

SB == INSTANCE StakeBook WITH stage <- Stages, stake <- Stakes, funds <- balance

(* RefinesStakeBook: seen as stakes and funds, everything the program does *)
(* is opening, paying, returning or keeping a stake, each at most once.    *)
RefinesStakeBook == SB!Spec

(* Liveness, under FairSpec *)

\* No further failure of a database call or of the process is to come.
Calm == faults = MaxFaults /\ restarts = MaxRestarts

(* RunningRoundCrashes: once failures stop, a round in flight is recorded  *)
(* as crashed in the database.                                             *)
RunningRoundCrashes ==
    \A r \in Rounds : (Calm /\ cur = r /\ pc = "tick0") ~> (rounds[r].status = "crashed")

(* CountedBetIsSettled: once failures stop, a bet that is in the database  *)
(* while its round flies does not stay pending.                            *)
CountedBetIsSettled ==
    \A u \in Users, r \in Rounds :
        (Calm /\ pc = "tick" /\ cur = r /\ bets[u][r].status = "pending") ~> (bets[u][r].status # "pending")

(* RestartResolvesBets: once no more database call fails, a bet pending    *)
(* when the process comes back is resolved.                                *)
RestartResolvesBets ==
    \A u \in Users, r \in Rounds :
        (pc = "recover" /\ faults = MaxFaults /\ bets[u][r].status = "pending") ~> (bets[u][r].status # "pending")

-----------------------------------------------------------------------------
(* What the code does not guarantee: each is refuted by a run. *)

(* PaidBetIsNotLost: a bet whose cash-out was paid is not recorded as lost. *)
PaidBetIsNotLost ==
    \A u \in Users, r \in Rounds :
        Entries(u, r, {"win"}) # {} => bets[u][r].status # "lost"
=============================================================================
