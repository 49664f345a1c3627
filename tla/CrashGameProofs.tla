--------------------------- MODULE CrashGameProofs ---------------------------
(***************************************************************************)
(* Proofs, for any number of players, connections, rounds, faults and      *)
(* restarts, that the betting core charges and credits every stake at most *)
(* once and that bet documents and ledger agree.                           *)
(***************************************************************************)
EXTENDS CrashGame, TLAPS

-----------------------------------------------------------------------------
(* Facts about the helpers *)

(* A published multiplier of at least 1.00 stays positive when it is       *)
(* converted back to x100 (utils.MultiplierToX100).                        *)
LEMMA ToX100Positive ==
    ASSUME NEW m \in Nat, m >= 100
    PROVE  ToX100(m) \in Nat /\ ToX100(m) > 0
BY MultiplierAssumption DEF ToX100

(* A payout is a natural number of cents within the cap (utils/money.go).  *)
LEMMA PayoutBounded ==
    ASSUME NEW a \in Nat, NEW m \in Nat
    PROVE  Payout(a, m) \in Nat /\ Payout(a, m) <= MaxWinCents
<1> DEFINE q == a * m
<1>1. q \in Nat OBVIOUS
<1>2. q \div 100 \in Nat BY <1>1
<1> QED BY <1>2, MoneyAssumption DEF Payout

(* Posting a ledger document appends it to one user's ledger and moves     *)
(* that user's balance, and nothing else.                                  *)
LEMMA PostEffect ==
    ASSUME ledger \in [Users -> Seq(EntryType)], balance \in [Users -> Nat],
           NEW u \in Users, NEW e \in EntryType, NEW d \in Int, Post(u, e, d)
    PROVE  /\ ledger' \in [Users -> Seq(EntryType)]
           /\ \A v \in Users \ {u} : ledger'[v] = ledger[v] /\ balance'[v] = balance[v]
           /\ DOMAIN ledger[u] = 1..Len(ledger[u])
           /\ DOMAIN ledger'[u] = 1..(Len(ledger[u]) + 1)
           /\ Len(ledger[u]) \in Nat
           /\ \A i \in DOMAIN ledger[u] : ledger'[u][i] = ledger[u][i]
           /\ ledger'[u][Len(ledger[u]) + 1] = e
           /\ balance'[u] = balance[u] + d
           /\ balance' \in [Users -> Int]
<1>1. ledger[u] \in Seq(EntryType) OBVIOUS
<1>2. ledger'[u] = Append(ledger[u], e) BY DEF Post
<1>3. Append(ledger[u], e) \in Seq(EntryType) BY <1>1
<1>4. ledger' \in [Users -> Seq(EntryType)] BY <1>3 DEF Post
<1>5. \A v \in Users \ {u} : ledger'[v] = ledger[v] /\ balance'[v] = balance[v] BY DEF Post
<1>6. balance'[u] = balance[u] + d /\ balance' \in [Users -> Int] BY DEF Post
<1> HIDE DEF Post
<1> QED BY <1>1, <1>2, <1>4, <1>5, <1>6

(* The entries of a user about a round after a document has been posted.   *)
LEMMA PostEntries ==
    ASSUME ledger \in [Users -> Seq(EntryType)], balance \in [Users -> Nat],
           NEW u \in Users, NEW e \in EntryType, NEW d \in Int, Post(u, e, d),
           NEW v \in Users, NEW r \in Rounds, NEW T
    PROVE  /\ \A i \in Entries(v, r, T) : i \in Entries(v, r, T)' /\ ledger'[v][i] = ledger[v][i]
           /\ v = u /\ r = e.round /\ e.type \in T
                 => \E i \in Entries(v, r, T)' : ledger'[v][i] = e
           /\ ~(v = u /\ r = e.round /\ e.type \in T) => Entries(v, r, T)' = Entries(v, r, T)
<1>1. CASE v # u
  BY <1>1, PostEffect DEF Entries
<1>2. CASE v = u
  <2> DEFINE n == Len(ledger[u])
  <2>1. /\ n \in Nat /\ DOMAIN ledger[u] = 1..n /\ DOMAIN ledger'[u] = 1..(n + 1)
        /\ \A i \in 1..n : ledger'[u][i] = ledger[u][i]
        /\ ledger'[u][n + 1] = e
    BY PostEffect
  <2> HIDE DEF n
  <2>2. \A i \in 1..(n + 1) : i \in 1..n \/ i = n + 1 BY <2>1
  <2>3. 1..n \subseteq 1..(n + 1) /\ n + 1 \in 1..(n + 1) /\ n + 1 \notin 1..n BY <2>1
  <2> QED BY <1>2, <2>1, <2>2, <2>3 DEF Entries
<1> QED BY <1>1, <1>2

(* What has just been posted is found in the ledger.                       *)
LEMMA PostedNow ==
    ASSUME ledger \in [Users -> Seq(EntryType)], balance \in [Users -> Nat],
           NEW u \in Users, NEW e \in EntryType, NEW d \in Int, Post(u, e, d),
           NEW r \in Rounds, NEW a, NEW T, e.type \in T, e.round = r, e.amount = a
    PROVE  Posted(u, r, T, a)'
<1>1. \E i \in Entries(u, r, T)' : ledger'[u][i] = e
  BY PostEntries
<1> QED BY <1>1 DEF Posted

(* The ledger only grows: what has been posted stays posted.               *)
LEMMA PostedStays ==
    ASSUME ledger \in [Users -> Seq(EntryType)], balance \in [Users -> Nat],
           NEW u \in Users, NEW e \in EntryType, NEW d \in Int, Post(u, e, d),
           NEW v \in Users, NEW r \in Rounds, NEW a, NEW T, Posted(v, r, T, a)
    PROVE  Posted(v, r, T, a)'
<1>1. \A i \in Entries(v, r, T) : i \in Entries(v, r, T)' /\ ledger'[v][i] = ledger[v][i]
  BY PostEntries
<1> QED BY <1>1 DEF Posted

(* Posting the first charge, or the first credit, of a round keeps every   *)
(* stake charged once and credited once.                                   *)
LEMMA PostOnce ==
    ASSUME ledger \in [Users -> Seq(EntryType)], balance \in [Users -> Nat],
           NEW u \in Users, NEW e \in EntryType, NEW d \in Int, Post(u, e, d),
           OneStakeOneCredit,
           \A i \in DOMAIN ledger[u] :
               ledger[u][i].round = e.round => ~(ledger[u][i].type \in Credit <=> e.type \in Credit)
    PROVE  OneStakeOneCredit'
<1> DEFINE n == Len(ledger[u])
<1>1. /\ n \in Nat /\ DOMAIN ledger[u] = 1..n /\ DOMAIN ledger'[u] = 1..(n + 1)
      /\ \A i \in 1..n : ledger'[u][i] = ledger[u][i]
      /\ ledger'[u][n + 1] = e
      /\ \A v \in Users \ {u} : ledger'[v] = ledger[v]
  BY PostEffect
<1> HIDE DEF n
<1>2. \A i \in 1..(n + 1) : i \in 1..n \/ i = n + 1 BY <1>1
<1> SUFFICES ASSUME NEW v \in Users, NEW i \in DOMAIN ledger'[v], NEW j \in DOMAIN ledger'[v],
                    ledger'[v][i].round = ledger'[v][j].round,
                    ledger'[v][i].type \in Credit <=> ledger'[v][j].type \in Credit
             PROVE  i = j
  BY DEF OneStakeOneCredit, Credit
<1>3. CASE v # u
  BY <1>1, <1>3 DEF OneStakeOneCredit
<1>4. CASE v = u /\ i \in 1..n /\ j \in 1..n
  <2>1. ledger'[v][i] = ledger[u][i] /\ ledger'[v][j] = ledger[u][j]
    BY <1>1, <1>4
  <2>2. ledger[u][i].round = ledger[u][j].round BY <2>1
  <2>3. ledger[u][i].type \in Credit <=> ledger[u][j].type \in Credit BY <2>1
  <2>4. i \in DOMAIN ledger[u] /\ j \in DOMAIN ledger[u] BY <1>1, <1>4
  <2> QED BY <2>2, <2>3, <2>4, Zenon DEF OneStakeOneCredit
<1>5. CASE v = u /\ i = n + 1 /\ j \in 1..n
  BY <1>1, <1>5
<1>6. CASE v = u /\ i \in 1..n /\ j = n + 1
  BY <1>1, <1>6
<1> QED BY <1>1, <1>2, <1>3, <1>4, <1>5, <1>6

(* A document about one stake says nothing about the others.               *)
LEMMA PostElsewhere ==
    ASSUME ledger \in [Users -> Seq(EntryType)], balance \in [Users -> Nat],
           NEW u \in Users, NEW e \in EntryType, NEW d \in Int, Post(u, e, d),
           NEW v \in Users, NEW r \in Rounds, ~(v = u /\ r = e.round),
           bets'[v][r] = bets[v][r], BookMatches(v, r)
    PROVE  BookMatches(v, r)'
<1>1. ASSUME NEW T
      PROVE  /\ Entries(v, r, T)' = Entries(v, r, T)
             /\ \A i \in Entries(v, r, T) : ledger'[v][i] = ledger[v][i]
  BY PostEntries
<1>2. ASSUME NEW T, NEW a
      PROVE  Posted(v, r, T, a)' <=> Posted(v, r, T, a)
  BY <1>1 DEF Posted
<1> QED BY <1>1, <1>2 DEF BookMatches

-----------------------------------------------------------------------------
(* The money invariant *)

(* Only five kinds of step touch bets, balances or the ledger.             *)
MoneyStep ==
    \/ \E c \in Handlers : BetCommit(c) \/ BetCommitLost(c) \/ CashCommit(c)
    \/ \E p \in Pairs : RefundCommit(p) \/ SettleOne(p)

(* Every other step leaves the bets, the balances and the ledger alone.     *)
LEMMA OtherStepsKeepMoney ==
    ASSUME Next, ~MoneyStep
    PROVE  UNCHANGED money
<1>1. CASE Process
  BY <1>1 DEF Process, Exit, Restart, RequestStop, money
<1>2. CASE Recovery
  BY <1>2 DEF Recovery, MoneyStep, RecoverFind, RecoverFindFails, RefundRead, RefundRetry,
              RefundGivesUp, money
<1>3. CASE Waiting
  BY <1>3 DEF Waiting, StopSeen, SaveRound, SaveRoundFails, SetRound, ClearActiveBets, WaitOver, money
<1>4. CASE GraceExpires
  BY <1>4 DEF GraceExpires, money
<1>5. CASE Running
  BY <1>5 DEF Running, RunBegin, RunUpdate, RunUpdateFails, Tick, Crash, money
<1>6. CASE Settling
  BY <1>6 DEF Settling, MoneyStep, SettleFind, SettleFindFails, SettleGivesUp, SettlePayout,
              SettlePayoutFails, CloseRound, CloseRoundFails, RoundOver, money
<1>7. ASSUME NEW c \in Handlers, Betting(c) \/ CashingOut(c) \/ Disconnect(c)
      PROVE  UNCHANGED money
  BY <1>7 DEF Betting, CashingOut, MoneyStep, BetCheck, BetAbort, AddActiveBet, CashBegin,
              CashRead, CashRetry, CashAbort, Disconnect, money
<1> QED BY <1>1, <1>2, <1>3, <1>4, <1>5, <1>6, <1>7 DEF Next

(* Steps that leave the collections alone keep the invariant about them.   *)
LEMMA QuietMoney ==
    ASSUME MoneyInv, UNCHANGED money
    PROVE  MoneyInv'
BY DEF MoneyInv, money, OneStakeOneCredit, StatusMatchesMoney, BookMatches, Posted, Entries,
       CashoutMarksPaid

(* The commit of PlaceBet opens a stake nobody was charged for.            *)
LEMMA PlaceBetMoney ==
    ASSUME CoreTypeOK, MoneyInv, NEW u \in Users, NEW r \in Rounds, NEW a \in Nat,
           PlaceBet(u, r, a)
    PROVE  MoneyInv'
<1>1. /\ ledger \in [Users -> Seq(EntryType)] /\ balance \in [Users -> Nat]
      /\ bets \in [Users -> [Rounds -> BetType]]
  BY DEF CoreTypeOK
<1>2. PICK e \in EntryType : e = Entry("bet", r, a, balance[u], balance[u] - a)
  <2>1. Entry("bet", r, a, balance[u], balance[u] - a) \in EntryType
    BY <1>1 DEF Entry, EntryType
  <2> QED BY <2>1
<1>3. /\ Post(u, e, -a) /\ bets[u][r].status = "none"
      /\ -a \in Int /\ e.round = r /\ e.type = "bet" /\ e.amount = a
  BY <1>2 DEF PlaceBet, Entry
<1>4. /\ bets'[u][r].status = "pending" /\ bets'[u][r].amount = a /\ bets'[u][r].cashout = 0
      /\ \A v \in Users, q \in Rounds : ~(v = u /\ q = r) => bets'[v][q] = bets[v][q]
  BY <1>1 DEF PlaceBet, Bet
<1>5. Entries(u, r, Credit \union {"bet"}) = {}
  BY <1>3 DEF MoneyInv, StatusMatchesMoney, BookMatches
<1>6. OneStakeOneCredit'
  <2>1. \A i \in DOMAIN ledger[u] : ledger[u][i].round = r =>
            ledger[u][i].type # "bet" /\ ledger[u][i].type \notin Credit
    BY <1>5 DEF Entries
  <2>2. \A i \in DOMAIN ledger[u] : ledger[u][i].type \in {"bet"} \union Credit
    <3>1. ledger[u] \in Seq(EntryType) BY <1>1
    <3>2. \A i \in DOMAIN ledger[u] : ledger[u][i] \in EntryType BY <3>1
    <3> QED BY <3>2 DEF EntryType, Credit
  <2> QED BY <1>1, <1>2, <1>3, <2>1, <2>2, PostOnce DEF MoneyInv
<1>7. StatusMatchesMoney'
  <2>1. BookMatches(u, r)'
    <3>1. Entries(u, r, Credit)' = {}
      <4>1. "bet" \notin Credit BY DEF Credit
      <4>2. Entries(u, r, Credit)' = Entries(u, r, Credit)
        BY <1>1, <1>2, <1>3, <4>1, PostEntries
      <4>3. Entries(u, r, Credit) = {} BY <1>5 DEF Entries
      <4> QED BY <4>2, <4>3
    <3>2. Posted(u, r, {"bet"}, a)'
      <4>1. e.type \in {"bet"} BY <1>3
      <4> QED BY <1>1, <1>2, <1>3, <4>1, PostedNow
    <3> QED BY <1>4, <3>1, <3>2 DEF BookMatches
  <2>2. ASSUME NEW v \in Users, NEW q \in Rounds, ~(v = u /\ q = r)
        PROVE  BookMatches(v, q)'
    BY <1>1, <1>2, <1>3, <1>4, <2>2, PostElsewhere DEF MoneyInv, StatusMatchesMoney
  <2> QED BY <2>1, <2>2 DEF StatusMatchesMoney
<1>8. CashoutMarksPaid'
  BY <1>4 DEF MoneyInv, CashoutMarksPaid
<1> QED BY <1>6, <1>7, <1>8 DEF MoneyInv

(* A pending bet that is resolved together with its one credit.            *)
LEMMA CreditMoney ==
    ASSUME CoreTypeOK, MoneyInv, NEW u \in Users, NEW r \in Rounds,
           NEW e \in EntryType, NEW d \in Int, Post(u, e, d), e.round = r,
           bets[u][r].status = "pending", bets'[u][r].amount = bets[u][r].amount,
           \A v \in Users, q \in Rounds : ~(v = u /\ q = r) => bets'[v][q] = bets[v][q],
           \/ /\ bets'[u][r].status = "won" /\ e.type = "win" /\ bets'[u][r].cashout # 0
              /\ e.amount = bets'[u][r].amount + bets'[u][r].profit
           \/ /\ bets'[u][r].status = "refunded" /\ e.type = "refund"
              /\ e.amount = bets'[u][r].amount
    PROVE  MoneyInv'
<1>1. ledger \in [Users -> Seq(EntryType)] /\ balance \in [Users -> Nat]
  BY DEF CoreTypeOK
<1>2. e.type \in Credit BY DEF Credit
<1>3. BookMatches(u, r) BY DEF MoneyInv, StatusMatchesMoney
<1>4. OneStakeOneCredit'
  <2>1. Entries(u, r, Credit) = {} BY <1>3 DEF BookMatches
  <2>2. \A i \in DOMAIN ledger[u] : ledger[u][i].round = r => ledger[u][i].type \notin Credit
    BY <2>1 DEF Entries
  <2> QED BY <1>1, <1>2, <2>2, PostOnce DEF MoneyInv
<1>5. StatusMatchesMoney'
  <2>1. BookMatches(u, r)'
    <3>1. PICK a : a = bets[u][r].amount OBVIOUS
    <3>2. Posted(u, r, {"bet"}, a) BY <1>3, <3>1 DEF BookMatches
    <3>3. Posted(u, r, {"bet"}, a)' BY <1>1, <3>2, PostedStays
    <3>4. PICK x : x = e.amount OBVIOUS
    <3>5. ASSUME NEW T, e.type \in T
          PROVE  Posted(u, r, T, x)'
      BY <1>1, <3>4, <3>5, PostedNow
    <3>6. CASE bets'[u][r].status = "won"
      <4>1. e.type \in {"win"} BY <3>6
      <4>2. Posted(u, r, {"win"}, x)' BY <3>5, <4>1
      <4> QED BY <3>1, <3>3, <3>4, <3>6, <4>2 DEF BookMatches
    <3>7. CASE bets'[u][r].status = "refunded"
      <4>1. e.type \in {"refund"} BY <3>7
      <4>2. Posted(u, r, {"refund"}, x)' BY <3>5, <4>1
      <4> QED BY <3>1, <3>3, <3>4, <3>7, <4>2 DEF BookMatches
    <3> QED BY <3>6, <3>7
  <2>2. ASSUME NEW v \in Users, NEW q \in Rounds, ~(v = u /\ q = r)
        PROVE  BookMatches(v, q)'
    BY <1>1, <2>2, PostElsewhere DEF MoneyInv, StatusMatchesMoney
  <2> QED BY <2>1, <2>2 DEF StatusMatchesMoney
<1>6. CashoutMarksPaid'
  BY DEF MoneyInv, CashoutMarksPaid
<1> QED BY <1>4, <1>5, <1>6 DEF MoneyInv

(* The commit of CashOut pays a bet that is still pending.                 *)
LEMMA CashCommitMoney ==
    ASSUME IInv, NEW c \in Handlers, CashCommit(c)
    PROVE  MoneyInv'
<1>1. /\ ledger \in [Users -> Seq(EntryType)] /\ balance \in [Users -> Nat]
      /\ bets \in [Users -> [Rounds -> BetType]] /\ h \in [Handlers -> HandlerType]
  BY DEF IInv, CoreTypeOK
<1>2. PICK u \in Users, r \in Rounds, m \in Nat : u = Owner[c] /\ r = h[c].round /\ m = h[c].mult
  <2>1. Owner[c] \in Users BY OwnerAssumption
  <2>2. h[c].round \in Rounds BY DEF IInv, ControlInv, RequestsSound, CashCommit
  <2>3. h[c].mult \in Nat BY <1>1 DEF HandlerType
  <2> QED BY <2>1, <2>2, <2>3
<1>3. PICK a \in Nat : a = bets[u][r].amount
  BY <1>1 DEF BetType
<1>4. PICK p \in Nat : p = Payout(a, m)
  BY PayoutBounded
<1>5. Winnings(c) = p BY <1>2, <1>3, <1>4 DEF Winnings
<1>6. bets[u][r].status = "pending" /\ m # 0
  BY <1>2 DEF IInv, ControlInv, RequestsSound, CashCommit, StatusAt
<1>7. PICK e \in EntryType : e = Entry("win", r, p, balance[u], balance[u] + p)
  <2>1. Entry("win", r, p, balance[u], balance[u] + p) \in EntryType
    BY <1>1 DEF Entry, EntryType
  <2> QED BY <2>1
<1>8. Post(u, e, p) /\ e.round = r /\ e.type = "win" /\ e.amount = p
  BY <1>2, <1>5, <1>7 DEF CashCommit, WriteCashout, Entry
<1>9. /\ bets'[u][r] = Bet("won", a, p - a, m)
      /\ \A v \in Users, q \in Rounds : ~(v = u /\ q = r) => bets'[v][q] = bets[v][q]
  BY <1>1, <1>2, <1>3, <1>5 DEF CashCommit, WriteCashout
<1>10. e.amount = bets'[u][r].amount + bets'[u][r].profit
  BY <1>8, <1>9 DEF Bet
<1> QED BY <1>3, <1>6, <1>8, <1>9, <1>10, CreditMoney DEF IInv, Bet

(* The commit of refundBet refunds a bet that is still pending.            *)
LEMMA RefundCommitMoney ==
    ASSUME IInv, NEW x \in Pairs, RefundCommit(x)
    PROVE  MoneyInv'
<1>1. /\ ledger \in [Users -> Seq(EntryType)] /\ balance \in [Users -> Nat]
      /\ bets \in [Users -> [Rounds -> BetType]] /\ seen \in [Pairs -> Nat \union {-1}]
  BY DEF IInv, CoreTypeOK
<1>2. PICK u \in Users, r \in Rounds : u = x[1] /\ r = x[2]
  BY DEF Pairs
<1>3. PICK a \in Nat : a = bets[u][r].amount
  BY <1>1 DEF BetType
<1>4. bets[u][r].status = "pending"
  BY <1>2 DEF IInv, ControlInv, TodoOpen, RefundCommit
<1>5. PICK e \in EntryType : e = Entry("refund", r, a, seen[x], seen[x] + a)
  <2>1. seen[x] \in Int BY <1>1
  <2>2. Entry("refund", r, a, seen[x], seen[x] + a) \in EntryType
    BY <2>1 DEF Entry, EntryType
  <2> QED BY <2>2
<1>6. Post(u, e, a) /\ e.round = r /\ e.type = "refund" /\ e.amount = a
  BY <1>2, <1>3, <1>5 DEF RefundCommit, Entry
<1>7. /\ bets'[u][r].status = "refunded" /\ bets'[u][r].amount = a
      /\ \A v \in Users, q \in Rounds : ~(v = u /\ q = r) => bets'[v][q] = bets[v][q]
  BY <1>1, <1>2, <1>3 DEF RefundCommit, SetStatus, Bet
<1> QED BY <1>3, <1>4, <1>6, <1>7, CreditMoney DEF IInv

(* The bulk settlement moves no money, and a bet it overwrites after a     *)
(* cash-out keeps the mark of it.                                          *)
LEMMA SettleOneMoney ==
    ASSUME IInv, NEW x \in Pairs, SettleOne(x)
    PROVE  MoneyInv'
<1>1. bets \in [Users -> [Rounds -> BetType]] BY DEF IInv, CoreTypeOK
<1>2. PICK u \in Users, r \in Rounds : u = x[1] /\ r = x[2]
  BY DEF Pairs
<1>3. bets[u][r].status \in {"pending", "won"}
  BY <1>2 DEF IInv, ControlInv, TodoOpen, SettleOne
<1>4. /\ bets'[u][r].status = "lost" /\ bets'[u][r].amount = bets[u][r].amount
      /\ bets'[u][r].cashout = bets[u][r].cashout
      /\ \A v \in Users, q \in Rounds : ~(v = u /\ q = r) => bets'[v][q] = bets[v][q]
  BY <1>1, <1>2 DEF SettleOne, SetStatus, Bet
<1>5. UNCHANGED ledger BY DEF SettleOne
<1>6. OneStakeOneCredit'
  BY <1>5 DEF IInv, MoneyInv, OneStakeOneCredit
<1>7. ASSUME NEW v \in Users, NEW q \in Rounds PROVE BookMatches(v, q)'
  <2>1. \A T : Entries(v, q, T)' = Entries(v, q, T) BY <1>5 DEF Entries
  <2>2. \A T, a : Posted(v, q, T, a)' <=> Posted(v, q, T, a) BY <1>5 DEF Posted, Entries
  <2>3. BookMatches(v, q) BY DEF IInv, MoneyInv, StatusMatchesMoney
  <2>4. CASE v = u /\ q = r
    <3>1. bets[u][r].cashout = 0 => bets[u][r].status = "pending"
      BY <1>3 DEF IInv, MoneyInv, CashoutMarksPaid
    <3> QED BY <1>3, <1>4, <2>1, <2>2, <2>3, <2>4, <3>1 DEF BookMatches
  <2>5. CASE ~(v = u /\ q = r)
    BY <1>4, <2>1, <2>2, <2>3, <2>5 DEF BookMatches
  <2> QED BY <2>4, <2>5
<1>8. CashoutMarksPaid'
  BY <1>4 DEF IInv, MoneyInv, CashoutMarksPaid
<1> QED BY <1>6, <1>7, <1>8 DEF MoneyInv, StatusMatchesMoney

(* A bet that commits was checked before: a real round and a valid,        *)
(* positive amount (handlePlaceBet runs before PlaceBet).                  *)
LEMMA BetCommitRequest ==
    ASSUME IInv, NEW c \in Handlers, BetCommit(c) \/ BetCommitLost(c)
    PROVE  \E u \in Users, r \in Rounds, a \in Nat :
               /\ u = Owner[c] /\ r = h[c].round /\ a = h[c].amount
               /\ ValidAmount(a) /\ PlaceBet(u, r, a)
<1>1. Owner[c] \in Users BY OwnerAssumption
<1>2. h[c] \in HandlerType BY DEF IInv, CoreTypeOK
<1>3. h[c].amount \in Nat BY <1>2 DEF HandlerType
<1>4. h[c].pc = "bet" /\ PlaceBet(Owner[c], h[c].round, h[c].amount)
  BY DEF BetCommit, BetCommitLost
<1>5. h[c].round \in Rounds /\ ValidAmount(h[c].amount)
  BY <1>4 DEF IInv, ControlInv, RequestsSound
<1> QED BY <1>1, <1>3, <1>4, <1>5

(* Every step keeps the money invariant.                                   *)
LEMMA NextMoney ==
    ASSUME IInv, [Next]_vars
    PROVE  MoneyInv'
<1>1. CASE UNCHANGED money
  BY <1>1, QuietMoney DEF IInv
<1>2. ASSUME NEW c \in Handlers, BetCommit(c) \/ BetCommitLost(c)
      PROVE  MoneyInv'
  BY <1>2, BetCommitRequest, PlaceBetMoney DEF IInv
<1>3. ASSUME NEW c \in Handlers, CashCommit(c)
      PROVE  MoneyInv'
  BY <1>3, CashCommitMoney
<1>4. ASSUME NEW x \in Pairs, RefundCommit(x) \/ SettleOne(x)
      PROVE  MoneyInv'
  BY <1>4, RefundCommitMoney, SettleOneMoney
<1>5. UNCHANGED vars => UNCHANGED money BY DEF vars
<1> QED BY <1>1, <1>2, <1>3, <1>4, <1>5, OtherStepsKeepMoney DEF MoneyStep

-----------------------------------------------------------------------------
(* The control invariant *)

(* Recovery and settlement hold only the bets they may write.              *)
LEMMA NextTodo ==
    ASSUME IInv, [Next]_vars
    PROVE  TodoOpen'
<1> USE DEF IInv, CoreTypeOK, ControlInv, TodoOpen
<1>1. CASE UNCHANGED vars
  BY <1>1 DEF vars, money
<1>2. CASE Process
  BY <1>2 DEF Process, Exit, Restart, RequestStop, Goto, money
<1>3. CASE RecoverFind \/ RecoverFindFails
  BY <1>3 DEF RecoverFind, RecoverFindFails, AllPending, Goto, money
<1>4. ASSUME NEW x \in Pairs, RefundRead(x) \/ RefundRetry(x) \/ RefundGivesUp(x)
      PROVE  TodoOpen'
  BY <1>4 DEF RefundRead, RefundRetry, RefundGivesUp, RefundDone, money
<1>5. ASSUME NEW x \in Pairs, RefundCommit(x)
      PROVE  TodoOpen'
  <2>1. pc = "refund" /\ pc' \in {"refund", "top"} /\ todo' = todo \ {x}
    BY <1>5 DEF RefundCommit, RefundDone
  <2>2. \A p \in Pairs : p # x => bets'[p[1]][p[2]] = bets[p[1]][p[2]]
    <3>1. PICK u \in Users, r \in Rounds : x = <<u, r>> BY DEF Pairs
    <3>2. \A v \in Users, q \in Rounds : ~(v = u /\ q = r) => bets'[v][q] = bets[v][q]
      BY <1>5, <3>1 DEF RefundCommit, SetStatus
    <3> QED BY <3>1, <3>2 DEF Pairs
  <2> QED BY <2>1, <2>2
<1>6. CASE Waiting \/ GraceExpires \/ Running
  <2>1. UNCHANGED bets
    BY <1>6 DEF Waiting, StopSeen, SaveRound, SaveRoundFails, SetRound, ClearActiveBets, WaitOver,
                GraceExpires, Running, RunBegin, RunUpdate, RunUpdateFails, Tick, Crash, money
  <2>2. UNCHANGED todo /\ (pc' = pc \/ pc' \notin {"refund", "bulk"})
    BY <1>6 DEF Waiting, StopSeen, SaveRound, SaveRoundFails, SetRound, ClearActiveBets, WaitOver,
                GraceExpires, Running, RunBegin, RunUpdate, RunUpdateFails, Tick, Crash, Goto
  <2> QED BY <2>1, <2>2
<1>7. ASSUME NEW x \in Pairs, SettleOne(x)
      PROVE  TodoOpen'
  <2>1. pc = "bulk" /\ pc' \in {"bulk", "payout"} /\ todo' = todo \ {x}
    BY <1>7 DEF SettleOne
  <2>2. \A p \in Pairs : p # x => bets'[p[1]][p[2]] = bets[p[1]][p[2]]
    <3>1. PICK u \in Users, r \in Rounds : x = <<u, r>> BY DEF Pairs
    <3>2. \A v \in Users, q \in Rounds : ~(v = u /\ q = r) => bets'[v][q] = bets[v][q]
      BY <1>7, <3>1 DEF SettleOne, SetStatus
    <3> QED BY <3>1, <3>2 DEF Pairs
  <2> QED BY <2>1, <2>2
<1>8. CASE SettleFind \/ SettleFindFails \/ SettleGivesUp \/ SettlePayout \/ SettlePayoutFails
           \/ CloseRound \/ CloseRoundFails
  BY <1>8 DEF SettleFind, SettleFindFails, SettleGivesUp, SettlePayout, SettlePayoutFails,
              CloseRound, CloseRoundFails, RoundOver, PendingIn, Goto, money
<1>9. ASSUME NEW c \in Handlers,
             BetAbort(c) \/ AddActiveBet(c) \/ CashBegin(c) \/ CashRead(c)
             \/ CashRetry(c) \/ CashAbort(c) \/ Disconnect(c) \/ \E a \in Amounts : BetCheck(c, a)
      PROVE  TodoOpen'
  BY <1>9 DEF BetCheck, BetAbort, AddActiveBet, CashBegin, CashRead, CashRetry, CashAbort,
              Disconnect, HandlerFrame, money
<1>10. ASSUME NEW c \in Handlers, BetCommit(c) \/ BetCommitLost(c)
       PROVE  TodoOpen'
  <2>1. UNCHANGED <<pc, todo>> BY <1>10 DEF BetCommit, BetCommitLost, HandlerFrame
  <2>2. PICK u \in Users, r \in Rounds, a \in Nat : PlaceBet(u, r, a)
    BY <1>10, BetCommitRequest
  <2>3. \A p \in Pairs : bets[p[1]][p[2]].status # "none" => bets'[p[1]][p[2]] = bets[p[1]][p[2]]
    <3>1. bets[u][r].status = "none"
          /\ \A v \in Users, q \in Rounds : ~(v = u /\ q = r) => bets'[v][q] = bets[v][q]
      BY <2>2 DEF PlaceBet
    <3> QED BY <3>1 DEF Pairs
  <2> QED BY <2>1, <2>3
<1>11. ASSUME NEW c \in Handlers, CashCommit(c)
       PROVE  TodoOpen'
  <2>1. UNCHANGED <<pc, todo>> BY <1>11 DEF CashCommit, WriteCashout, HandlerFrame
  <2>2. pc # "refund"
    BY <1>11 DEF CashCommit, NobodyServedInRecovery, Serving
  <2>3. \A p \in Pairs : \/ bets'[p[1]][p[2]] = bets[p[1]][p[2]]
                        \/ bets'[p[1]][p[2]].status = "won"
    BY <1>11 DEF CashCommit, WriteCashout, Bet, Pairs
  <2> QED BY <2>1, <2>2, <2>3
<1> QED BY <1>1, <1>2, <1>3, <1>4, <1>5, <1>6, <1>7, <1>8, <1>9, <1>10, <1>11
        DEF Next, Recovery, Settling, Betting, CashingOut

(* No handler runs while the process is down or recovering.                *)
LEMMA NextNobodyServed ==
    ASSUME IInv, [Next]_vars
    PROVE  NobodyServedInRecovery'
<1> USE DEF NobodyServedInRecovery, Serving, Goto
<1>0. h \in [Handlers -> HandlerType] /\ NobodyServedInRecovery
  BY DEF IInv, CoreTypeOK, ControlInv
<1>1. CASE UNCHANGED vars
  BY <1>0, <1>1 DEF vars, conns
<1>2. CASE Process
  BY <1>0, <1>2 DEF Process, Exit, Restart, RequestStop, conns, AllIdle, Idle, Request
<1>3. CASE Recovery
  <2>1. UNCHANGED h /\ ~Serving
    BY <1>3 DEF Recovery, RecoverFind, RecoverFindFails, RefundRead, RefundCommit, RefundRetry,
                RefundGivesUp, RefundDone, conns
  <2> QED BY <1>0, <2>1
<1>4. CASE Waiting \/ GraceExpires \/ Running
  <2>1. UNCHANGED h
    BY <1>4 DEF Waiting, StopSeen, SaveRound, SaveRoundFails, SetRound, ClearActiveBets, WaitOver,
                GraceExpires, Running, RunBegin, RunUpdate, RunUpdateFails, Tick, Crash, conns
  <2>2. pc' = pc \/ Serving'
    BY <1>4 DEF Waiting, StopSeen, SaveRound, SaveRoundFails, SetRound, ClearActiveBets, WaitOver,
                GraceExpires, Running, RunBegin, RunUpdate, RunUpdateFails, Tick, Crash
  <2> QED BY <1>0, <2>1, <2>2
<1>5. CASE Settling
  <2>1. UNCHANGED h /\ Serving'
    BY <1>5 DEF Settling, SettleFind, SettleFindFails, SettleGivesUp, SettleOne, SettlePayout,
                SettlePayoutFails, CloseRound, CloseRoundFails, RoundOver, conns
  <2> QED BY <2>1
<1>6. ASSUME NEW c \in Handlers, Betting(c) \/ CashingOut(c) \/ Disconnect(c)
      PROVE  NobodyServedInRecovery'
  <2>1. pc' = pc BY <1>6 DEF Betting, CashingOut, BetCheck, BetCommit, BetCommitLost, BetAbort,
                  AddActiveBet, CashBegin, CashRead, CashCommit, WriteCashout, CashRetry, CashAbort,
                  Disconnect, HandlerFrame
  <2>2. CASE ~Serving
    <3>1. h[c].pc = "idle" BY <1>0, <2>2
    <3>2. UNCHANGED h
      BY <1>6, <2>2, <3>1 DEF Betting, CashingOut, BetCheck, BetCommit, BetCommitLost, BetAbort,
                  AddActiveBet, CashBegin, CashRead, CashCommit, CashRetry, CashAbort, Disconnect
    <3> QED BY <1>0, <2>1, <3>2
  <2> QED BY <2>1, <2>2
<1> QED BY <1>1, <1>2, <1>3, <1>4, <1>5, <1>6 DEF Next

(* A request that is past its first step refers to a real round, a valid   *)
(* amount and a positive multiplier.                                       *)
LEMMA NextRequests ==
    ASSUME IInv, [Next]_vars
    PROVE  RequestsSound'
<1>0. h \in [Handlers -> HandlerType] /\ RequestsSound /\ cur \in Rounds \union {NoRound}
      /\ active \in [Users -> Rounds \union {NoRound}] /\ mult \in Nat
  BY DEF IInv, CoreTypeOK, ControlInv
<1>1. CASE UNCHANGED h
  BY <1>0, <1>1 DEF RequestsSound, ValidAmount
<1>2. CASE h' = AllIdle
  BY <1>2 DEF RequestsSound, AllIdle, Idle, Request
<1>3. ASSUME NEW c \in Handlers, Betting(c) \/ CashingOut(c) \/ Disconnect(c)
      PROVE  RequestsSound'
  <2> SUFFICES ASSUME NEW d \in Handlers
               PROVE  /\ h'[d].pc # "idle" => h'[d].round \in Rounds
                      /\ h'[d].pc = "bet"  => ValidAmount(h'[d].amount)
                      /\ h'[d].pc = "pay"  => h'[d].mult > 0
    BY DEF RequestsSound, ValidAmount
  <2>1. \/ UNCHANGED h \/ h' = [h EXCEPT ![c] = Idle]
        \/ BetCommit(c) \/ CashRetry(c)
        \/ \E a \in Amounts : BetCheck(c, a)
        \/ CashBegin(c) \/ CashRead(c)
    BY <1>3 DEF Betting, CashingOut, BetCommitLost, BetAbort, AddActiveBet, CashCommit,
                WriteCashout, CashRetry, CashAbort, Disconnect
  <2> DEFINE old == h[d]
             new == h'[d]
  <2>2. old \in HandlerType /\ h[c] \in HandlerType BY <1>0
  <2>3. /\ old.pc # "idle" => old.round \in Rounds
        /\ old.pc = "bet" => ValidAmount(old.amount)
        /\ old.pc = "pay" => old.mult > 0
        /\ h[c].pc # "idle" => h[c].round \in Rounds
    BY <1>0 DEF RequestsSound
  <2>4. CASE new = old
    BY <2>3, <2>4
  <2>5. CASE d = c /\ h' = [h EXCEPT ![c] = Idle]
    BY <1>0, <2>5 DEF Idle, Request
  <2>6. CASE d = c /\ BetCommit(c)
    BY <1>0, <2>2, <2>3, <2>6 DEF BetCommit, Request
  <2>7. CASE d = c /\ CashRetry(c)
    BY <1>0, <2>2, <2>3, <2>7 DEF CashRetry, Request
  <2>8. ASSUME d = c, NEW a \in Amounts, BetCheck(c, a)
        PROVE  new.pc = "bet" /\ new.round \in Rounds /\ ValidAmount(new.amount)
    BY <1>0, <2>8 DEF BetCheck, Request
  <2>9. CASE d = c /\ CashBegin(c)
    <3>1. Owner[c] \in Users BY OwnerAssumption
    <3> QED BY <1>0, <2>9, <3>1 DEF CashBegin, Request
  <2>10. CASE d = c /\ CashRead(c)
    <3>1. ToX100(mult) > 0 BY <1>0, <2>10, ToX100Positive DEF CashRead, Cashable
    <3>2. new.pc = "pay" /\ new.mult = ToX100(mult) /\ new.round = h[c].round
      BY <1>0, <2>2, <2>10 DEF CashRead, Request
    <3>3. h[c].pc = "cash" BY <2>10 DEF CashRead
    <3> QED BY <2>3, <3>1, <3>2, <3>3
  <2>11. d # c => new = old
    BY <1>0, <2>1 DEF BetCommit, CashRetry, BetCheck, CashBegin, CashRead
  <2> QED BY <1>0, <2>1, <2>3, <2>4, <2>5, <2>6, <2>7, <2>8, <2>9, <2>10, <2>11
<1>4. \/ UNCHANGED h \/ h' = AllIdle
      \/ \E c \in Handlers : Betting(c) \/ CashingOut(c) \/ Disconnect(c)
  BY DEF Next, Process, Exit, Restart, RequestStop, Recovery, RecoverFind, RecoverFindFails, RefundRead,
         RefundCommit, RefundRetry, RefundGivesUp, RefundDone, Waiting, StopSeen, SaveRound,
         SaveRoundFails, SetRound, ClearActiveBets, WaitOver, GraceExpires, Running, RunBegin,
         RunUpdate, RunUpdateFails, Tick, Crash, Settling, SettleFind, SettleFindFails,
         SettleGivesUp, SettleOne, SettlePayout, SettlePayoutFails, CloseRound, CloseRoundFails,
         RoundOver, vars, conns
<1> QED BY <1>1, <1>2, <1>3, <1>4

(* The engine settles in the crashed phase and leaves it only afterwards.  *)
LEMMA NextSettled ==
    ASSUME IInv, [Next]_vars
    PROVE  SettledAfterCrash'
<1> USE DEF SettledAfterCrash, Goto
<1>0. SettledAfterCrash BY DEF IInv, ControlInv
<1>1. CASE UNCHANGED <<pc, phase>>
  BY <1>0, <1>1
<1>2. CASE pc' \notin {"find", "bulk"}
  BY <1>2
<1>3. UNCHANGED vars \/ GraceExpires => UNCHANGED <<pc, phase>>
  BY DEF vars, store, GraceExpires
<1>4. CASE Process \/ Recovery
  BY <1>1, <1>2, <1>4 DEF Process, Exit, Restart, RequestStop, Recovery, RecoverFind, RecoverFindFails,
     RefundRead, RefundCommit, RefundRetry, RefundGivesUp, RefundDone, store
<1>5. CASE Waiting
  BY <1>2, <1>5 DEF Waiting, StopSeen, SaveRound, SaveRoundFails, SetRound, ClearActiveBets, WaitOver
<1>6. CASE Running
  BY <1>2, <1>6 DEF Running, RunBegin, RunUpdate, RunUpdateFails, Tick, Crash
<1>7. CASE Settling
  BY <1>0, <1>2, <1>7 DEF Settling, SettleFind, SettleFindFails, SettleGivesUp, SettleOne,
     SettlePayout, SettlePayoutFails, CloseRound, CloseRoundFails, RoundOver, store
<1>8. ASSUME NEW c \in Handlers, Betting(c) \/ CashingOut(c) \/ Disconnect(c)
      PROVE  UNCHANGED <<pc, phase>>
  BY <1>8 DEF Betting, CashingOut, BetCheck, BetCommit, BetCommitLost, BetAbort, AddActiveBet,
     CashBegin, CashRead, CashCommit, WriteCashout, CashRetry, CashAbort, Disconnect, HandlerFrame
<1> QED BY <1>1, <1>3, <1>4, <1>5, <1>6, <1>7, <1>8 DEF Next

-----------------------------------------------------------------------------
(* Types *)

MoneyTypeOK == /\ bets \in [Users -> [Rounds -> BetType]]
               /\ balance \in [Users -> Nat] /\ ledger \in [Users -> Seq(EntryType)]

(* One document written, one entry posted, no overdraft: types are kept.   *)
LEMMA PostType ==
    ASSUME MoneyTypeOK, NEW u \in Users, NEW r \in Rounds, NEW b \in BetType,
           NEW e \in EntryType, NEW d \in Int, balance[u] + d >= 0,
           bets' = [bets EXCEPT ![u][r] = b], Post(u, e, d)
    PROVE  MoneyTypeOK'
<1>1. ledger' \in [Users -> Seq(EntryType)] BY PostEffect DEF MoneyTypeOK
<1>2. balance[u] + d \in Nat BY DEF MoneyTypeOK
<1>3. balance' \in [Users -> Nat] BY <1>2 DEF MoneyTypeOK, Post
<1>4. bets' \in [Users -> [Rounds -> BetType]] BY DEF MoneyTypeOK
<1> QED BY <1>1, <1>3, <1>4 DEF MoneyTypeOK

(* The collections and the ledger keep their types; no balance goes below  *)
(* zero.                                                                   *)
LEMMA NextMoneyType ==
    ASSUME IInv, [Next]_vars
    PROVE  MoneyTypeOK'
<1>0. MoneyTypeOK BY DEF IInv, CoreTypeOK, MoneyTypeOK
<1>1. CASE UNCHANGED money
  BY <1>0, <1>1 DEF money, MoneyTypeOK
<1>2. ASSUME NEW c \in Handlers, BetCommit(c) \/ BetCommitLost(c)
      PROVE  MoneyTypeOK'
  <2>1. PICK u \in Users, r \in Rounds, a \in Nat : PlaceBet(u, r, a)
    BY <1>2, BetCommitRequest
  <2>2. balance[u] \in Nat BY <1>0 DEF MoneyTypeOK
  <2>3. Entry("bet", r, a, balance[u], balance[u] - a) \in EntryType
    BY <2>2 DEF Entry, EntryType
  <2>4. Bet("pending", a, 0, 0) \in BetType BY DEF Bet, BetType, BetStatus
  <2>5. balance[u] + (-a) >= 0 /\ -a \in Int BY <2>1, <2>2 DEF PlaceBet
  <2>6. PICK e \in EntryType : e = Entry("bet", r, a, balance[u], balance[u] - a) BY <2>3
  <2>7. PICK b \in BetType : b = Bet("pending", a, 0, 0) BY <2>4
  <2>8. PICK d \in Int : d = -a BY <2>5
  <2>9. bets' = [bets EXCEPT ![u][r] = b] /\ Post(u, e, d)
    BY <2>1, <2>6, <2>7, <2>8 DEF PlaceBet
  <2>10. balance[u] + d >= 0 BY <2>5, <2>8
  <2> QED BY <1>0, <2>9, <2>10, PostType
<1>3. ASSUME NEW c \in Handlers, CashCommit(c)
      PROVE  MoneyTypeOK'
  <2>1. PICK u \in Users, r \in Rounds, m \in Nat : u = Owner[c] /\ r = h[c].round /\ m = h[c].mult
    <3>1. Owner[c] \in Users BY OwnerAssumption
    <3>2. h[c].round \in Rounds BY <1>3 DEF IInv, ControlInv, RequestsSound, CashCommit
    <3>3. h[c] \in HandlerType BY DEF IInv, CoreTypeOK
    <3>4. h[c].mult \in Nat BY <3>3 DEF HandlerType
    <3> QED BY <3>1, <3>2, <3>4
  <2>2. balance[u] \in Nat /\ bets[u][r] \in BetType BY <1>0 DEF MoneyTypeOK
  <2>3. PICK a \in Nat : a = bets[u][r].amount BY <2>2 DEF BetType
  <2>4. PICK p \in Nat : p = Payout(a, m) BY PayoutBounded
  <2>5. Winnings(c) = p BY <2>1, <2>3, <2>4 DEF Winnings
  <2>6. Entry("win", r, p, balance[u], balance[u] + p) \in EntryType
    BY <2>2 DEF Entry, EntryType
  <2>7. Bet("won", a, p - a, m) \in BetType BY DEF Bet, BetType, BetStatus
  <2>8. /\ bets' = [bets EXCEPT ![u][r] = Bet("won", a, p - a, m)]
        /\ Post(u, Entry("win", r, p, balance[u], balance[u] + p), p)
    BY <1>3, <2>1, <2>3, <2>5 DEF CashCommit, WriteCashout
  <2>9. p \in Int /\ balance[u] + p >= 0 BY <2>2
  <2> QED BY <1>0, <2>6, <2>7, <2>8, <2>9, PostType
<1>4. ASSUME NEW x \in Pairs, RefundCommit(x)
      PROVE  MoneyTypeOK'
  <2>1. PICK u \in Users, r \in Rounds : u = x[1] /\ r = x[2] BY DEF Pairs
  <2>2. balance[u] \in Nat /\ bets[u][r] \in BetType BY <1>0 DEF MoneyTypeOK
  <2>3. PICK a \in Nat : a = bets[u][r].amount BY <2>2 DEF BetType
  <2>4. seen[x] \in Int BY DEF IInv, CoreTypeOK
  <2>5. Entry("refund", r, a, seen[x], seen[x] + a) \in EntryType
    BY <2>4 DEF Entry, EntryType
  <2>6. Bet("refunded", a, 0, bets[u][r].cashout) \in BetType
    BY <2>2 DEF Bet, BetType, BetStatus
  <2>7. /\ bets' = [bets EXCEPT ![u][r] = Bet("refunded", a, 0, bets[u][r].cashout)]
        /\ Post(u, Entry("refund", r, a, seen[x], seen[x] + a), a)
    BY <1>4, <2>1, <2>3 DEF RefundCommit, SetStatus
  <2>8. a \in Int /\ balance[u] + a >= 0 BY <2>2
  <2> QED BY <1>0, <2>5, <2>6, <2>7, <2>8, PostType
<1>5. ASSUME NEW x \in Pairs, SettleOne(x)
      PROVE  MoneyTypeOK'
  <2>1. PICK u \in Users, r \in Rounds : u = x[1] /\ r = x[2] BY DEF Pairs
  <2>2. bets[u][r] \in BetType BY <1>0 DEF MoneyTypeOK
  <2>3. Bet("lost", bets[u][r].amount, -bets[u][r].amount, bets[u][r].cashout) \in BetType
    BY <2>2 DEF Bet, BetType, BetStatus
  <2>4. bets' = [bets EXCEPT ![u][r] = Bet("lost", bets[u][r].amount, -bets[u][r].amount, bets[u][r].cashout)]
    BY <1>5, <2>1 DEF SettleOne, SetStatus
  <2> QED BY <1>0, <1>5, <2>3, <2>4 DEF SettleOne, MoneyTypeOK
<1>6. UNCHANGED vars => UNCHANGED money BY DEF vars
<1> QED BY <1>1, <1>2, <1>3, <1>4, <1>5, <1>6, OtherStepsKeepMoney DEF MoneyStep

HandlerTypeOK == h \in [Handlers -> HandlerType] /\ lock \in [Users -> Handlers \union {NoHandler}]

(* Handlers carry requests, mutexes are held by handlers.                  *)
LEMMA NextHandlerType ==
    ASSUME IInv, [Next]_vars
    PROVE  HandlerTypeOK'
<1>0. HandlerTypeOK /\ cur \in Rounds \union {NoRound} /\ mult \in Nat
      /\ active \in [Users -> Rounds \union {NoRound}]
  BY DEF IInv, CoreTypeOK, HandlerTypeOK
<1>1. CASE UNCHANGED conns
  BY <1>0, <1>1 DEF conns, HandlerTypeOK
<1>2. CASE h' = AllIdle /\ lock' = Unlocked
  BY <1>2 DEF HandlerTypeOK, AllIdle, Unlocked, Idle, Request, HandlerType, HandlerPc
<1>3. ASSUME NEW c \in Handlers, Betting(c) \/ CashingOut(c) \/ Disconnect(c)
      PROVE  HandlerTypeOK'
  <2>1. lock' \in [Users -> Handlers \union {NoHandler}]
    BY <1>0, <1>3, OwnerAssumption DEF Betting, CashingOut, BetCheck, BetCommit, BetCommitLost, BetAbort,
       AddActiveBet, CashBegin, CashRead, CashCommit, WriteCashout, CashRetry, CashAbort,
       Disconnect, Acquire, Release, HandlerTypeOK
  <2>2. h[c].round \in Rounds \union {NoRound} /\ h[c].amount \in Nat /\ h[c].mult \in Nat
    BY <1>0 DEF HandlerTypeOK, HandlerType
  <2>3. \A l \in HandlerPc, r \in Rounds \union {NoRound}, a \in Nat, m \in Nat :
            Request(l, r, a, m) \in HandlerType
    BY DEF Request, HandlerType
  <2>4. UNCHANGED h \/ \E q \in HandlerType : h' = [h EXCEPT ![c] = q]
    <3>1. CASE UNCHANGED h BY <3>1
    <3>2. CASE h' = [h EXCEPT ![c] = Idle]
      BY <2>3, <3>2 DEF Idle, HandlerPc
    <3>3. ASSUME NEW a \in Amounts, BetCheck(c, a)
          PROVE  \E q \in HandlerType : h' = [h EXCEPT ![c] = q]
      <4>1. a \in Nat BY <3>3, MoneyAssumption DEF BetCheck, ValidAmount
      <4>2. Request("bet", cur, a, 0) \in HandlerType BY <1>0, <2>3, <4>1 DEF HandlerPc
      <4> QED BY <3>3, <4>2 DEF BetCheck
    <3>4. CASE BetCommit(c)
      <4>1. Request("add", h[c].round, 0, 0) \in HandlerType BY <2>2, <2>3 DEF HandlerPc
      <4> QED BY <3>4, <4>1 DEF BetCommit
    <3>5. CASE CashBegin(c)
      <4>1. active[Owner[c]] \in Rounds \union {NoRound} BY <1>0, OwnerAssumption
      <4>2. Request("cash", active[Owner[c]], 0, 0) \in HandlerType BY <2>3, <4>1 DEF HandlerPc
      <4> QED BY <3>5, <4>2 DEF CashBegin
    <3>6. CASE CashRead(c)
      <4>1. ToX100(mult) \in Nat BY <1>0, <3>6, ToX100Positive DEF CashRead, Cashable
      <4>2. Request("pay", h[c].round, 0, ToX100(mult)) \in HandlerType
        BY <2>2, <2>3, <4>1 DEF HandlerPc
      <4> QED BY <3>6, <4>2 DEF CashRead
    <3>7. CASE CashRetry(c)
      <4>1. Request("cash", h[c].round, 0, 0) \in HandlerType BY <2>2, <2>3 DEF HandlerPc
      <4> QED BY <3>7, <4>1 DEF CashRetry
    <3> QED BY <1>3, <3>1, <3>2, <3>3, <3>4, <3>5, <3>6, <3>7
            DEF Betting, CashingOut, BetCommitLost, BetAbort, AddActiveBet, CashCommit,
                WriteCashout, CashAbort, Disconnect
  <2> QED BY <1>0, <2>1, <2>4 DEF HandlerTypeOK
<1>4. \/ UNCHANGED conns
      \/ (h' = AllIdle /\ lock' = Unlocked)
      \/ \E c \in Handlers : Betting(c) \/ CashingOut(c) \/ Disconnect(c)
  BY DEF Next, Process, Exit, Restart, RequestStop, Recovery, RecoverFind, RecoverFindFails, RefundRead,
         RefundCommit, RefundRetry, RefundGivesUp, RefundDone, Waiting, StopSeen, SaveRound,
         SaveRoundFails, SetRound, ClearActiveBets, WaitOver, GraceExpires, Running, RunBegin,
         RunUpdate, RunUpdateFails, Tick, Crash, Settling, SettleFind, SettleFindFails,
         SettleGivesUp, SettleOne, SettlePayout, SettlePayoutFails, CloseRound, CloseRoundFails,
         RoundOver, vars
<1> QED BY <1>1, <1>2, <1>3, <1>4

EngineTypeOK ==
    /\ pc \in EnginePc /\ stopReq \in BOOLEAN
    /\ todo \subseteq Pairs /\ seen \in [Pairs -> Nat \union {-1}]
    /\ restarts \in 0..MaxRestarts /\ faults \in 0..MaxFaults

(* A failed database call stays within the bound on faults.                *)
LEMMA FaultType ==
    ASSUME EngineTypeOK, Fault
    PROVE  faults' \in 0..MaxFaults /\ restarts' \in 0..MaxRestarts
BY BoundAssumption DEF EngineTypeOK, Fault

(* The engine goroutine's own variables keep their types.                  *)
LEMMA NextEngineType ==
    ASSUME IInv, [Next]_vars
    PROVE  EngineTypeOK'
<1> USE DEF Goto, EnginePc, bounds, engine
<1>0. EngineTypeOK /\ balance \in [Users -> Nat] BY DEF IInv, CoreTypeOK, EngineTypeOK
<1>1. CASE UNCHANGED vars
  BY <1>0, <1>1 DEF vars, EngineTypeOK
<1>2. CASE Process
  <2>1. CASE Exit
    <3>1. pc' \in EnginePc /\ todo' \subseteq Pairs BY <2>1 DEF Exit
    <3>2. stopReq' \in BOOLEAN
      <4>1. stopReq' = FALSE BY <2>1 DEF Exit
      <4> QED BY <4>1, Zenon
    <3>3. seen' \in [Pairs -> Nat \union {-1}]
      <4>1. seen' = [p \in Pairs |-> -1] BY <2>1 DEF Exit, NothingSeen
      <4> QED BY <4>1
    <3>4. restarts' \in 0..MaxRestarts /\ faults' \in 0..MaxFaults
      <4>1. restarts < MaxRestarts /\ restarts' = restarts + 1 /\ faults' = faults
        BY <2>1 DEF Exit
      <4> QED BY <1>0, <4>1, BoundAssumption DEF EngineTypeOK
    <3> QED BY <3>1, <3>2, <3>3, <3>4 DEF EngineTypeOK
  <2>2. CASE Restart
    BY <1>0, <2>2 DEF Restart, EngineTypeOK
  <2>3. CASE RequestStop
    <3>1. stopReq' \in BOOLEAN
      <4>1. stopReq' = TRUE BY <2>3 DEF RequestStop
      <4> QED BY <4>1, Zenon
    <3>2. UNCHANGED <<pc, todo, seen, restarts, faults>> BY <2>3 DEF RequestStop
    <3> QED BY <1>0, <3>1, <3>2 DEF EngineTypeOK
  <2> QED BY <1>2, <2>1, <2>2, <2>3 DEF Process
<1>3. CASE RecoverFind \/ RecoverFindFails
  BY <1>0, <1>3, FaultType DEF RecoverFind, RecoverFindFails, AllPending, EngineTypeOK
<1>4. ASSUME NEW x \in Pairs, RefundRead(x) \/ RefundCommit(x) \/ RefundRetry(x) \/ RefundGivesUp(x)
      PROVE  EngineTypeOK'
  <2>1. balance[x[1]] \in Nat BY <1>0 DEF Pairs
  <2>2. seen' = [seen EXCEPT ![x] = -1] \/ seen' = [seen EXCEPT ![x] = balance[x[1]]]
    BY <1>4 DEF RefundRead, RefundCommit, RefundRetry, RefundGivesUp, RefundDone
  <2>3. seen' \in [Pairs -> Nat \union {-1}] BY <1>0, <2>1, <2>2 DEF EngineTypeOK
  <2>4. todo' \subseteq Pairs /\ pc' \in EnginePc /\ stopReq' \in BOOLEAN
    BY <1>0, <1>4 DEF RefundRead, RefundCommit, RefundRetry, RefundGivesUp, RefundDone, EngineTypeOK
  <2>5. faults' \in 0..MaxFaults /\ restarts' \in 0..MaxRestarts
    BY <1>0, <1>4, FaultType DEF RefundRead, RefundCommit, RefundRetry, RefundGivesUp, EngineTypeOK
  <2> QED BY <2>3, <2>4, <2>5 DEF EngineTypeOK
<1>5. CASE Waiting \/ GraceExpires
  BY <1>0, <1>5, FaultType DEF Waiting, StopSeen, SaveRound, SaveRoundFails, SetRound,
     ClearActiveBets, WaitOver, GraceExpires, EngineTypeOK
<1>6. CASE Running
  BY <1>0, <1>6, FaultType DEF Running, RunBegin, RunUpdate, RunUpdateFails, Tick, Crash, EngineTypeOK
<1>7. CASE Settling
  BY <1>0, <1>7, FaultType DEF Settling, SettleFind, SettleFindFails, SettleGivesUp, SettleOne,
     SettlePayout, SettlePayoutFails, CloseRound, CloseRoundFails, RoundOver, PendingIn, EngineTypeOK
<1>8. ASSUME NEW c \in Handlers, Betting(c) \/ CashingOut(c) \/ Disconnect(c)
      PROVE  EngineTypeOK'
  <2>1. UNCHANGED <<pc, stopReq, todo, seen, restarts>>
    BY <1>8 DEF Betting, CashingOut, BetCheck, BetCommit, BetCommitLost, BetAbort, AddActiveBet,
       CashBegin, CashRead, CashCommit, WriteCashout, CashRetry, CashAbort, Disconnect, HandlerFrame
  <2>2. UNCHANGED faults \/ Fault
    BY <1>8 DEF Betting, CashingOut, BetCheck, BetCommit, BetCommitLost, BetAbort, AddActiveBet,
       CashBegin, CashRead, CashCommit, WriteCashout, CashRetry, CashAbort, Disconnect
  <2> QED BY <1>0, <2>1, <2>2, FaultType DEF EngineTypeOK
<1> QED BY <1>1, <1>2, <1>3, <1>4, <1>5, <1>6, <1>7, <1>8 DEF Next, Recovery

StoreTypeOK ==
    /\ phase \in Phases /\ cur \in Rounds \union {NoRound} /\ grace \in BOOLEAN
    /\ active \in [Users -> Rounds \union {NoRound}] /\ mult \in Nat

(* The in-memory game state keeps its types.                               *)
LEMMA NextStoreType ==
    ASSUME IInv, [Next]_vars
    PROVE  StoreTypeOK'
<1> USE DEF Phases, store
<1>0. StoreTypeOK BY DEF IInv, CoreTypeOK, StoreTypeOK
<1>1. CASE UNCHANGED store
  BY <1>0, <1>1 DEF StoreTypeOK
<1>2. CASE Process
  <2>1. CASE Exit
    <3>1. phase' \in Phases /\ mult' \in Nat BY <2>1 DEF Exit
    <3>2. grace' = FALSE /\ cur' = NoRound /\ active' = NobodyActive BY <2>1 DEF Exit
    <3>3. grace' \in BOOLEAN BY <3>2, Zenon
    <3> QED BY <3>1, <3>2, <3>3 DEF StoreTypeOK, NobodyActive
  <2>2. CASE Restart \/ RequestStop
    BY <1>1, <2>2 DEF Restart, RequestStop
  <2> QED BY <1>2, <2>1, <2>2 DEF Process
<1>3. CASE Waiting \/ GraceExpires
  BY <1>0, <1>3 DEF Waiting, StopSeen, SaveRound, SaveRoundFails, SetRound,
     ClearActiveBets, WaitOver, GraceExpires, StoreTypeOK
<1>4. CASE Running
  <2>1. \A m \in Ticks : m \in Nat BY MultiplierAssumption
  <2> QED BY <1>0, <1>4, <2>1 DEF Running, RunBegin, RunUpdate, RunUpdateFails, Tick, Crash, StoreTypeOK
<1>5. CASE Settling
  BY <1>0, <1>5 DEF Settling, SettleFind, SettleFindFails, SettleGivesUp, SettleOne,
     SettlePayout, SettlePayoutFails, CloseRound, CloseRoundFails, RoundOver, StoreTypeOK
<1>6. ASSUME NEW c \in Handlers, Betting(c) \/ CashingOut(c) \/ Disconnect(c)
      PROVE  StoreTypeOK'
  <2>1. UNCHANGED <<phase, cur, grace, mult>>
    BY <1>6 DEF Betting, CashingOut, BetCheck, BetCommit, BetCommitLost, BetAbort, AddActiveBet,
       CashBegin, CashRead, CashCommit, WriteCashout, CashRetry, CashAbort, Disconnect, HandlerFrame
  <2>2. UNCHANGED active \/ AddActiveBet(c)
    BY <1>6 DEF Betting, CashingOut, BetCheck, BetCommit, BetCommitLost, BetAbort,
       CashBegin, CashRead, CashCommit, WriteCashout, CashRetry, CashAbort, Disconnect
  <2>3. h[c].round \in Rounds \union {NoRound}
    <3>1. h[c] \in HandlerType BY DEF IInv, CoreTypeOK
    <3> QED BY <3>1 DEF HandlerType
  <2> QED BY <1>0, <2>1, <2>2, <2>3 DEF AddActiveBet, StoreTypeOK
<1>7. Recovery => UNCHANGED store
  BY DEF Recovery, RecoverFind, RecoverFindFails, RefundRead, RefundCommit, RefundRetry,
         RefundGivesUp, RefundDone
<1>8. UNCHANGED vars => UNCHANGED store BY DEF vars
<1> QED BY <1>1, <1>2, <1>3, <1>4, <1>5, <1>6, <1>7, <1>8 DEF Next

-----------------------------------------------------------------------------
(* The inductive invariant *)

(* A process that starts on empty collections satisfies the inductive      *)
(* invariant.                                                              *)
LEMMA InitIInv == Init => IInv
<1> SUFFICES ASSUME Init PROVE IInv OBVIOUS
<1> USE DEF Init
<1>1. \A u \in Users : DOMAIN ledger[u] = {} OBVIOUS
<1>2. CoreTypeOK
  <2>1. /\ pc \in EnginePc /\ stopReq \in BOOLEAN /\ todo \subseteq Pairs
        /\ phase \in Phases /\ cur \in Rounds \union {NoRound} /\ grace \in BOOLEAN /\ mult \in Nat
        /\ restarts \in 0..MaxRestarts /\ faults \in 0..MaxFaults
    <3>1. stopReq = FALSE /\ grace = FALSE OBVIOUS
    <3>2. stopReq \in BOOLEAN /\ grace \in BOOLEAN BY <3>1, Zenon
    <3>3. restarts \in 0..MaxRestarts /\ faults \in 0..MaxFaults BY BoundAssumption
    <3> QED BY <3>2, <3>3 DEF EnginePc, Phases
  <2>2. seen \in [Pairs -> Nat \union {-1}] BY DEF NothingSeen
  <2>3. active \in [Users -> Rounds \union {NoRound}] BY DEF NobodyActive
  <2>4. h \in [Handlers -> HandlerType] /\ lock \in [Users -> Handlers \union {NoHandler}]
    BY DEF AllIdle, Unlocked, Idle, Request, HandlerType, HandlerPc
  <2>5. bets \in [Users -> [Rounds -> BetType]] BY DEF NoBet, Bet, BetType, BetStatus
  <2>6. ledger \in [Users -> Seq(EntryType)]
    <3>1. <<>> \in Seq(EntryType) OBVIOUS
    <3> QED BY <3>1
  <2>7. balance \in [Users -> Nat] BY MoneyAssumption
  <2> QED BY <2>1, <2>2, <2>3, <2>4, <2>5, <2>6, <2>7 DEF CoreTypeOK
<1>3. ControlInv
  BY DEF ControlInv, TodoOpen, NobodyServedInRecovery, RequestsSound, SettledAfterCrash, AllIdle,
         Idle, Request
<1>4. MoneyInv
  <2>1. OneStakeOneCredit BY <1>1 DEF OneStakeOneCredit
  <2>2. \A u \in Users, r \in Rounds : bets[u][r].status = "none" BY DEF NoBet, Bet
  <2>3. ASSUME NEW u \in Users, NEW r \in Rounds
        PROVE  BookMatches(u, r)
    <3>1. Entries(u, r, Credit \union {"bet"}) = {} BY <1>1 DEF Entries
    <3> QED BY <2>2, <3>1 DEF BookMatches
  <2> QED BY <2>1, <2>2, <2>3 DEF MoneyInv, StatusMatchesMoney, CashoutMarksPaid
<1> QED BY <1>2, <1>3, <1>4 DEF IInv

(* Every step, and stuttering, keeps the inductive invariant.              *)
LEMMA NextIInv == IInv /\ [Next]_vars => IInv'
<1> SUFFICES ASSUME IInv, [Next]_vars PROVE IInv' OBVIOUS
<1>1. CoreTypeOK'
  BY NextEngineType, NextStoreType, NextHandlerType, NextMoneyType
     DEF EngineTypeOK, StoreTypeOK, HandlerTypeOK, MoneyTypeOK, CoreTypeOK
<1>2. ControlInv' BY NextTodo, NextNobodyServed, NextRequests, NextSettled DEF ControlInv
<1>3. MoneyInv' BY NextMoney
<1> QED BY <1>1, <1>2, <1>3 DEF IInv

(* The strengthened invariant holds in every reachable state.              *)
THEOREM Invariance == Spec => []IInv
BY InitIInv, NextIInv, PTL DEF Spec

(* CoreTypes: in every reachable state the engine, the in-memory game      *)
(* state, the handlers and the collections hold values of their types; in  *)
(* particular no balance is ever negative (DeductBalance's $gte filter).   *)
THEOREM CoreTypes == Spec => []CoreTypeOK
<1>1. IInv => CoreTypeOK BY DEF IInv
<1> QED BY <1>1, Invariance, PTL

(* StakesAreCreditedOnce: whatever connections, retries, failed commits,   *)
(* crashes and recoveries do, a user is charged at most once for a round   *)
(* and credited at most once for that stake (PlaceBet, CashOut, refundBet).*)
THEOREM StakesAreCreditedOnce == Spec => []OneStakeOneCredit
<1>1. IInv => OneStakeOneCredit BY DEF IInv, MoneyInv
<1> QED BY <1>1, Invariance, PTL

(* BetsMatchLedger: a bet document and the user's ledger always tell the   *)
(* same story (the transactions of PlaceBet, CashOut and refundBet).       *)
THEOREM BetsMatchLedger == Spec => []StatusMatchesMoney
<1>1. IInv => StatusMatchesMoney BY DEF IInv, MoneyInv
<1> QED BY <1>1, Invariance, PTL

(* A single write to the bets follows the order of their statuses.         *)
BetsInOrder ==
    \A u \in Users, r \in Rounds :
        LET old == bets[u][r].status  new == bets'[u][r].status IN
        old # new => \/ old = "none" /\ new = "pending"
                     \/ old = "pending" /\ new \in {"won", "lost", "refunded"}
                     \/ old = "won" /\ new = "lost" /\ phase = "crashed"

(* One step of the program moves a bet's status only forward (the          *)
(* conditions of UpdateCashout, BulkUpdateLost and UpdateStatus).          *)
LEMMA NextInOrder ==
    ASSUME IInv, [Next]_vars
    PROVE  BetsInOrder
<1>0. bets \in [Users -> [Rounds -> BetType]] BY DEF IInv, CoreTypeOK
<1>1. CASE UNCHANGED money
  BY <1>1 DEF money, BetsInOrder
<1>2. ASSUME NEW c \in Handlers, BetCommit(c) \/ BetCommitLost(c)
      PROVE  BetsInOrder
  <2>1. PICK u \in Users, r \in Rounds, a \in Nat : PlaceBet(u, r, a)
    BY <1>2, BetCommitRequest
  <2> QED BY <1>0, <2>1 DEF PlaceBet, Bet, BetsInOrder
<1>3. ASSUME NEW c \in Handlers, CashCommit(c)
      PROVE  BetsInOrder
  <2>1. PICK u \in Users, r \in Rounds : u = Owner[c] /\ r = h[c].round
    <3>1. Owner[c] \in Users BY OwnerAssumption
    <3>2. h[c].round \in Rounds BY <1>3 DEF IInv, ControlInv, RequestsSound, CashCommit
    <3> QED BY <3>1, <3>2
  <2>2. bets[u][r].status = "pending" BY <1>3, <2>1 DEF CashCommit, StatusAt
  <2>3. \E b : b.status = "won" /\ bets' = [bets EXCEPT ![u][r] = b]
    BY <1>3, <2>1 DEF CashCommit, WriteCashout, Bet
  <2> QED BY <1>0, <2>2, <2>3 DEF BetsInOrder
<1>4. ASSUME NEW x \in Pairs, RefundCommit(x)
      PROVE  BetsInOrder
  <2>1. PICK u \in Users, r \in Rounds : u = x[1] /\ r = x[2] BY DEF Pairs
  <2>2. bets[u][r].status = "pending"
    BY <1>4, <2>1 DEF IInv, ControlInv, TodoOpen, RefundCommit
  <2>3. \E b : b.status = "refunded" /\ bets' = [bets EXCEPT ![u][r] = b]
    BY <1>4, <2>1 DEF RefundCommit, SetStatus, Bet
  <2> QED BY <1>0, <2>2, <2>3 DEF BetsInOrder
<1>5. ASSUME NEW x \in Pairs, SettleOne(x)
      PROVE  BetsInOrder
  <2>1. PICK u \in Users, r \in Rounds : u = x[1] /\ r = x[2] BY DEF Pairs
  <2>2. bets[u][r].status \in {"pending", "won"} /\ phase = "crashed"
    BY <1>5, <2>1 DEF IInv, ControlInv, TodoOpen, SettledAfterCrash, SettleOne
  <2>3. \E b : b.status = "lost" /\ bets' = [bets EXCEPT ![u][r] = b]
    BY <1>5, <2>1 DEF SettleOne, SetStatus, Bet
  <2> QED BY <1>0, <2>2, <2>3 DEF BetsInOrder
<1>6. UNCHANGED vars => UNCHANGED money BY DEF vars
<1> QED BY <1>1, <1>2, <1>3, <1>4, <1>5, <1>6, OtherStepsKeepMoney DEF MoneyStep

(* StatusesOnlyAdvance: settlement, cash-out and recovery write the same   *)
(* bet without a common lock, yet no bet becomes pending again, lost and   *)
(* refunded are final, and only the settlement of a crashed round ever     *)
(* overwrites a won bet (UpdateCashout, BulkUpdateLost, UpdateStatus).     *)
THEOREM StatusesOnlyAdvance == Spec => BetStatusOrder
<1>1. IInv /\ [Next]_vars => [BetsInOrder]_vars
  BY NextInOrder
<1>2. Spec => [][BetsInOrder]_vars
  BY <1>1, Invariance, PTL DEF Spec
<1> QED BY <1>2 DEF BetStatusOrder, BetsInOrder

-----------------------------------------------------------------------------
(* Refinement: seen as stages, stakes and funds, each step of the core     *)
(* opens, pays, returns or keeps one stake, or leaves the book alone.      *)

\* The table f with the entry of u and r replaced.
With(f, u, r, x) == [f EXCEPT ![u][r] = x]

(* The stage a status stands for.                                          *)
LEMMA StageOfStatus ==
    ASSUME NEW b \in BetType
    PROVE  /\ b.status = "none" => StageOf(b) = "none"
           /\ b.status = "pending" => StageOf(b) = "held"
           /\ b.status = "refunded" => StageOf(b) = "returned"
           /\ b.status \in {"won", "lost"} /\ b.cashout # 0 => StageOf(b) = "paid"
           /\ b.status \in {"won", "lost"} /\ b.cashout = 0 => StageOf(b) = "kept"
BY DEF StageOf

(* One document written is one stage, and one stake, changed.              *)
LEMMA BookStep ==
    ASSUME bets \in [Users -> [Rounds -> BetType]],
           NEW u \in Users, NEW r \in Rounds, NEW b \in BetType,
           bets' = [bets EXCEPT ![u][r] = b]
    PROVE  /\ Stages' = With(Stages, u, r, StageOf(b))
           /\ Stakes' = With(Stakes, u, r, b.amount)
           /\ Stages[u][r] = StageOf(bets[u][r]) /\ Stakes[u][r] = bets[u][r].amount
<1>1. bets' \in [Users -> [Rounds -> BetType]] OBVIOUS
<1>2. \A v \in Users, q \in Rounds :
          bets'[v][q] = IF v = u /\ q = r THEN b ELSE bets[v][q]
  OBVIOUS
<1>3. \A v \in Users, q \in Rounds :
          StageOf(bets'[v][q]) = IF v = u /\ q = r THEN StageOf(b) ELSE StageOf(bets[v][q])
  BY <1>2
<1> DEFINE st == With(Stages, u, r, StageOf(b))
           sk == With(Stakes, u, r, b.amount)
<1>4. Stages' = [v \in Users |-> [q \in Rounds |-> StageOf(bets'[v][q])]] BY DEF Stages
<1>5. st = [v \in Users |-> [q \in Rounds |->
              IF v = u /\ q = r THEN StageOf(b) ELSE StageOf(bets[v][q])]]
  BY DEF Stages, With
<1>6. Stages' = st BY <1>3, <1>4, <1>5
<1>7. Stakes' = sk BY <1>2 DEF Stakes, With
<1>8. Stages[u][r] = StageOf(bets[u][r]) /\ Stakes[u][r] = bets[u][r].amount
  BY DEF Stages, Stakes
<1> QED BY <1>6, <1>7, <1>8

(* A write that keeps the size of the stake keeps the whole column.        *)
LEMMA SameStakes ==
    ASSUME bets \in [Users -> [Rounds -> BetType]],
           NEW u \in Users, NEW r \in Rounds, NEW b \in BetType,
           bets' = [bets EXCEPT ![u][r] = b], b.amount = bets[u][r].amount
    PROVE  Stakes' = Stakes
BY BookStep DEF Stakes, With

(* The commit of PlaceBet opens a stake of a legal size the user can pay.  *)
LEMMA OpenStep ==
    ASSUME IInv, NEW c \in Handlers, BetCommit(c) \/ BetCommitLost(c)
    PROVE  SB!Next
<1>1. bets \in [Users -> [Rounds -> BetType]] /\ balance \in [Users -> Nat]
  BY DEF IInv, CoreTypeOK
<1>2. PICK u \in Users, r \in Rounds, a \in Nat : ValidAmount(a) /\ PlaceBet(u, r, a)
  BY BetCommitRequest
<1>3. PICK b \in BetType : b = Bet("pending", a, 0, 0)
  <2>1. Bet("pending", a, 0, 0) \in BetType BY DEF Bet, BetType, BetStatus
  <2> QED BY <2>1
<1>4. bets' = [bets EXCEPT ![u][r] = b] /\ bets[u][r].status = "none"
      /\ bets[u][r] \in BetType /\ b.status = "pending" /\ b.amount = a
  BY <1>1, <1>2, <1>3 DEF PlaceBet, Bet
<1>5. /\ Stages[u][r] = "none" /\ Stages' = With(Stages, u, r, "held")
      /\ Stakes' = With(Stakes, u, r, a)
  <2>1. PICK o \in BetType : o = bets[u][r] BY <1>4
  <2>2. StageOf(o) = "none" /\ StageOf(b) = "held" BY <1>4, <2>1, StageOfStatus
  <2>3. Stages[u][r] = "none" /\ Stages' = With(Stages, u, r, "held")
    <3>1. Stages' = With(Stages, u, r, StageOf(b)) /\ Stages[u][r] = StageOf(bets[u][r])
      BY <1>1, <1>4, BookStep
    <3> QED BY <2>1, <2>2, <3>1
  <2>4. Stakes' = With(Stakes, u, r, b.amount) BY <1>1, <1>4, BookStep
  <2> QED BY <1>4, <2>3, <2>4
<1>6. a \in MinBetCents..MaxBetCents
  BY <1>2, MoneyAssumption DEF ValidAmount
<1>7. a <= balance[u] /\ balance' = [balance EXCEPT ![u] = @ + (-a)]
  BY <1>2 DEF PlaceBet, Post
<1>8. SB!Open(u, r)
  BY <1>5, <1>6, <1>7 DEF With, SB!Open, SB!Move, SB!Credit
<1> QED BY <1>8 DEF SB!Next

(* The commit of CashOut pays the stake out, within the cap.               *)
LEMMA PayStep ==
    ASSUME IInv, NEW c \in Handlers, CashCommit(c)
    PROVE  SB!Next
<1>1. /\ bets \in [Users -> [Rounds -> BetType]] /\ balance \in [Users -> Nat]
      /\ h \in [Handlers -> HandlerType]
  BY DEF IInv, CoreTypeOK
<1>2. PICK u \in Users, r \in Rounds, m \in Nat : u = Owner[c] /\ r = h[c].round /\ m = h[c].mult
  <2>1. Owner[c] \in Users BY OwnerAssumption
  <2>2. h[c].round \in Rounds BY DEF IInv, ControlInv, RequestsSound, CashCommit
  <2>3. h[c].mult \in Nat BY <1>1 DEF HandlerType
  <2> QED BY <2>1, <2>2, <2>3
<1>3. PICK a \in Nat : a = bets[u][r].amount
  BY <1>1 DEF BetType
<1>4. PICK p \in Nat : p = Payout(a, m) /\ p <= MaxWinCents
  BY PayoutBounded
<1>5. bets[u][r].status = "pending" /\ m # 0
  BY <1>2 DEF IInv, ControlInv, RequestsSound, CashCommit, StatusAt
<1>6. PICK b \in BetType : b = Bet("won", a, p - a, m)
  <2>1. Bet("won", a, p - a, m) \in BetType BY DEF Bet, BetType, BetStatus
  <2> QED BY <2>1
<1>7. Winnings(c) = p BY <1>2, <1>3, <1>4 DEF Winnings
<1>8. bets' = [bets EXCEPT ![u][r] = b] /\ balance' = [balance EXCEPT ![u] = @ + p]
  BY <1>2, <1>3, <1>6, <1>7 DEF CashCommit, WriteCashout, Post
<1>9. b.status = "won" /\ b.cashout # 0 /\ b.amount = a /\ bets[u][r] \in BetType
  BY <1>1, <1>5, <1>6 DEF Bet
<1>10. /\ Stages[u][r] = "held" /\ Stages' = With(Stages, u, r, "paid")
       /\ Stakes' = Stakes
  <2>1. PICK o \in BetType : o = bets[u][r] BY <1>9
  <2>2. StageOf(o) = "held" /\ StageOf(b) = "paid" BY <1>5, <1>9, <2>1, StageOfStatus
  <2>3. Stages[u][r] = "held" /\ Stages' = With(Stages, u, r, "paid")
    <3>1. Stages' = With(Stages, u, r, StageOf(b)) /\ Stages[u][r] = StageOf(bets[u][r])
      BY <1>1, <1>8, BookStep
    <3> QED BY <2>1, <2>2, <3>1
  <2>4. Stakes' = Stakes BY <1>1, <1>3, <1>8, <1>9, SameStakes
  <2> QED BY <2>3, <2>4
<1>11. p \in 0..MaxWinCents BY <1>4, MoneyAssumption
<1>12. SB!Pay(u, r)
  BY <1>8, <1>10, <1>11 DEF With, SB!Pay, SB!Move, SB!Credit
<1> QED BY <1>12 DEF SB!Next

(* The commit of refundBet gives the stake back whole.                     *)
LEMMA ReturnStep ==
    ASSUME IInv, NEW x \in Pairs, RefundCommit(x)
    PROVE  SB!Next
<1>1. bets \in [Users -> [Rounds -> BetType]] /\ balance \in [Users -> Nat]
  BY DEF IInv, CoreTypeOK
<1>2. PICK u \in Users, r \in Rounds : u = x[1] /\ r = x[2]
  BY DEF Pairs
<1>3. PICK a \in Nat : a = bets[u][r].amount
  BY <1>1 DEF BetType
<1>4. bets[u][r].status = "pending" /\ bets[u][r] \in BetType
  BY <1>1, <1>2 DEF IInv, ControlInv, TodoOpen, RefundCommit
<1>5. PICK b \in BetType : b = Bet("refunded", a, 0, bets[u][r].cashout)
  <2>1. Bet("refunded", a, 0, bets[u][r].cashout) \in BetType
    BY <1>4 DEF Bet, BetType, BetStatus
  <2> QED BY <2>1
<1>6. bets' = [bets EXCEPT ![u][r] = b] /\ balance' = [balance EXCEPT ![u] = @ + a]
  BY <1>2, <1>3, <1>5 DEF RefundCommit, SetStatus, Post
<1>7. b.status = "refunded" /\ b.amount = a BY <1>5 DEF Bet
<1>8. /\ Stages[u][r] = "held" /\ Stages' = With(Stages, u, r, "returned")
      /\ Stakes' = Stakes /\ Stakes[u][r] = a
  <2>1. PICK o \in BetType : o = bets[u][r] BY <1>4
  <2>2. StageOf(o) = "held" /\ StageOf(b) = "returned" BY <1>4, <1>7, <2>1, StageOfStatus
  <2>3. Stages[u][r] = "held" /\ Stages' = With(Stages, u, r, "returned")
    <3>1. Stages' = With(Stages, u, r, StageOf(b)) /\ Stages[u][r] = StageOf(bets[u][r])
      BY <1>1, <1>6, BookStep
    <3> QED BY <2>1, <2>2, <3>1
  <2>4. Stakes' = Stakes BY <1>1, <1>3, <1>6, <1>7, SameStakes
  <2>5. Stakes[u][r] = a BY <1>1, <1>3, <1>6, BookStep
  <2> QED BY <2>3, <2>4, <2>5
<1>9. SB!Return(u, r)
  BY <1>6, <1>8 DEF With, SB!Return, SB!Move, SB!Credit
<1> QED BY <1>9 DEF SB!Next

(* The bulk settlement keeps a pending stake, and changes nothing in the   *)
(* book for a bet that was paid in the meantime.                           *)
LEMMA KeepStep ==
    ASSUME IInv, NEW x \in Pairs, SettleOne(x)
    PROVE  SB!Next \/ UNCHANGED SB!vars
<1>1. bets \in [Users -> [Rounds -> BetType]] /\ UNCHANGED balance
  BY DEF IInv, CoreTypeOK, SettleOne
<1>2. PICK u \in Users, r \in Rounds : u = x[1] /\ r = x[2]
  BY DEF Pairs
<1>3. /\ bets[u][r].status \in {"pending", "won"} /\ bets[u][r] \in BetType
      /\ bets[u][r].status = "won"     => bets[u][r].cashout # 0
      /\ bets[u][r].status = "pending" => bets[u][r].cashout = 0
  BY <1>1, <1>2 DEF IInv, ControlInv, TodoOpen, MoneyInv, CashoutMarksPaid, SettleOne
<1>4. PICK b \in BetType : b = Bet("lost", bets[u][r].amount, -bets[u][r].amount, bets[u][r].cashout)
  <2>1. Bet("lost", bets[u][r].amount, -bets[u][r].amount, bets[u][r].cashout) \in BetType
    BY <1>3 DEF Bet, BetType, BetStatus
  <2> QED BY <2>1
<1>5. bets' = [bets EXCEPT ![u][r] = b]
  BY <1>2, <1>4 DEF SettleOne, SetStatus
<1>6. b.status = "lost" /\ b.amount = bets[u][r].amount /\ b.cashout = bets[u][r].cashout
  BY <1>4 DEF Bet
<1>7. Stakes' = Stakes BY <1>1, <1>5, <1>6, SameStakes
<1>8. PICK o \in BetType : o = bets[u][r] BY <1>3
<1>9. CASE o.status = "pending"
  <2>0. StageOf(o) = "held" /\ StageOf(b) = "kept" BY <1>3, <1>6, <1>8, <1>9, StageOfStatus
  <2>1. Stages[u][r] = "held" /\ Stages' = With(Stages, u, r, "kept")
    <3>1. Stages' = With(Stages, u, r, StageOf(b)) /\ Stages[u][r] = StageOf(bets[u][r])
      BY <1>1, <1>5, BookStep
    <3> QED BY <1>8, <2>0, <3>1
  <2>2. SB!Keep(u, r)
    BY <1>1, <1>7, <2>1 DEF With, SB!Keep, SB!Move
  <2> QED BY <2>2 DEF SB!Next
<1>10. CASE o.status = "won"
  <2>0. StageOf(o) = "paid" /\ StageOf(b) = "paid" BY <1>3, <1>6, <1>8, <1>10, StageOfStatus
  <2>1. Stages[u][r] = "paid" /\ Stages' = With(Stages, u, r, "paid")
    <3>1. Stages' = With(Stages, u, r, StageOf(b)) /\ Stages[u][r] = StageOf(bets[u][r])
      BY <1>1, <1>5, BookStep
    <3> QED BY <1>8, <2>0, <3>1
  <2>2. With(Stages, u, r, Stages[u][r]) = Stages BY DEF Stages, With
  <2>3. Stages' = Stages BY <2>1, <2>2
  <2> QED BY <1>1, <1>7, <2>3 DEF SB!vars
<1> QED BY <1>3, <1>8, <1>9, <1>10

(* The program starts with an empty book.                                  *)
LEMMA BookInit == Init => SB!Init
<1> SUFFICES ASSUME Init PROVE SB!Init OBVIOUS
<1>1. NoBet \in BetType BY DEF NoBet, Bet, BetType, BetStatus
<1>2. StageOf(NoBet) = "none" /\ NoBet.amount = 0 BY <1>1, StageOfStatus DEF NoBet, Bet
<1>3. Stages = [u \in Users |-> [r \in Rounds |-> "none"]] BY <1>2 DEF Init, Stages
<1>4. Stakes = [u \in Users |-> [r \in Rounds |-> 0]] BY <1>2 DEF Init, Stakes
<1> QED BY <1>3, <1>4 DEF SB!Init, Init

(* Every step is a step of the book or leaves it alone.                    *)
LEMMA BookNext == IInv /\ [Next]_vars => [SB!Next]_(SB!vars)
<1> SUFFICES ASSUME IInv, [Next]_vars PROVE SB!Next \/ UNCHANGED SB!vars OBVIOUS
<1>1. CASE UNCHANGED money
  BY <1>1 DEF money, SB!vars, Stages, Stakes
<1>2. UNCHANGED vars => UNCHANGED money BY DEF vars
<1> QED BY <1>1, <1>2, OtherStepsKeepMoney, OpenStep, PayStep, ReturnStep, KeepStep DEF MoneyStep

(* CoreImplementsStakeBook: seen as stakes and funds, everything the       *)
(* program does is opening, paying, returning or keeping a stake, each at  *)
(* most once, whatever the interleaving of players, settlement, crashes    *)
(* and recovery.                                                           *)
THEOREM CoreImplementsStakeBook == Spec => RefinesStakeBook
<1>1. Spec => SB!Spec
  BY BookInit, BookNext, Invariance, PTL DEF Spec, SB!Spec
<1> QED BY <1>1 DEF RefinesStakeBook
=============================================================================
