----------------------------- MODULE WalletProofs -----------------------------
(***************************************************************************)
(* A payment that its owner sees as finished has been credited, whatever   *)
(* the provider repeats or reorders, however many request goroutines run,  *)
(* and wherever requests fail or the process dies.                         *)
(***************************************************************************)
EXTENDS Wallet, FoldTheorems, TLAPS

\* A deposit document of order o about a cents, in its owner's ledger.
Credited(o, a) ==
    \E i \in DOMAIN ledger[pay[o].owner] :
        LET e == ledger[pay[o].owner][i] IN e.order = o /\ e.amount = a /\ e.amount > 0

Posts == {"read", "inc", "record"}

\* What a request goroutine carries from one database call to the next.
RequestInv ==
    \A k \in Workers :
        /\ w[k].report = NoReport \/ w[k].report \in sent
        /\ w[k].pc \in {"check", "store"} => w[k].report \in sent
        /\ w[k].pc \in Posts => w[k].user \in Users
        /\ w[k].report # NoReport =>
              /\ w[k].delta >= 0
              /\ w[k].pc \in Posts =>
                    /\ w[k].delta > 0 /\ w[k].report.status = "finished"
                    /\ w[k].user = pay[w[k].report.order].owner
              /\ w[k].pc = "store" /\ w[k].report.status = "finished" =>
                    Credited(w[k].report.order, w[k].delta)

PaymentInv ==
    /\ \A o \in Orders : pay[o].status # "none" => pay[o].owner \in Users
    /\ \A r \in sent : pay[r.order].status # "none"

FinishedInv == \A o \in Orders : pay[o].status = "finished" => Credited(o, pay[o].credited)

IInv == TypeOK /\ RequestInv /\ PaymentInv /\ FinishedInv

-----------------------------------------------------------------------------
\* What the provider sends is a report.
LEMMA ReportsAreReports == Reports \subseteq Report
<1> SUFFICES ASSUME NEW r \in Reports PROVE r \in Report
  OBVIOUS
<1>1. r \in [order : Orders, status : {"confirming"} \union Final, paid : Paid \union {0}]
  BY DEF Reports
<1>2. Paid \union {0} \subseteq Nat
  BY WalletAssumption
<1> QED BY <1>1, <1>2 DEF Report

\* A free goroutine is well typed.
LEMMA IdleTyped == Idle \in WorkerType
  BY DEF Idle, WorkerType, WorkerPc

\* The invariant holds before the first request.
LEMMA InitIInv == Init => IInv
<1> SUFFICES ASSUME Init PROVE IInv
  OBVIOUS
<1>1. TypeOK
  <2>1. NoPayment \in PayType
    BY DEF NoPayment, PayType
  <2> QED BY <2>1, IdleTyped, WalletAssumption DEF Init, TypeOK
<1>2. RequestInv
  BY DEF Init, RequestInv, Idle, Posts
<1>3. PaymentInv /\ FinishedInv
  BY DEF Init, PaymentInv, FinishedInv, NoPayment
<1> QED BY <1>1, <1>2, <1>3 DEF IInv

-----------------------------------------------------------------------------
(* Steps that leave the payments and the books alone *)

\* A goroutine that is free, or picks up a report, breaks nothing.
LEMMA RequestStep ==
  ASSUME IInv, NEW k \in Workers, NEW q \in WorkerType, Set(k, q),
         UNCHANGED <<pay, sent, balance, ledger>>, unacked' \subseteq sent,
         extras' \in 0..MaxExtras, faults' \in 0..MaxFaults,
         q.report = NoReport \/ q.report \in sent,
         q.pc \in {"check", "store"} => q.report \in sent,
         q.pc \in Posts => q.user \in Users,
         q.report # NoReport =>
              /\ q.delta >= 0
              /\ q.pc \in Posts => /\ q.delta > 0 /\ q.report.status = "finished"
                                   /\ q.user = pay[q.report.order].owner
              /\ q.pc # "store" \/ q.report.status # "finished"
  PROVE  IInv'
<1>1. w' = [w EXCEPT ![k] = q] /\ w'[k] = q /\ \A j \in Workers \ {k} : w'[j] = w[j]
  BY DEF Set, IInv, TypeOK
<1>2. TypeOK'
  BY <1>1 DEF IInv, TypeOK
<1>3. \A o, a : Credited(o, a)' <=> Credited(o, a)
  BY DEF Credited
<1>4. PaymentInv' /\ FinishedInv'
  BY <1>3 DEF IInv, PaymentInv, FinishedInv
<1>5. RequestInv'
  BY <1>1, <1>3 DEF IInv, RequestInv
<1> QED BY <1>2, <1>4, <1>5 DEF IInv

\* The goroutine goes on with another pc, or is done.
LEMMA GoIdle ==
  ASSUME IInv, NEW k \in Workers, Set(k, Idle), UNCHANGED <<pay, sent, balance, ledger>>,
         unacked' \subseteq sent, extras' \in 0..MaxExtras, faults' \in 0..MaxFaults
  PROVE  IInv'
  BY RequestStep, IdleTyped DEF Idle, Posts

\* A ledger only grows, so what was credited stays credited.
LEMMA CreditedStays ==
  ASSUME TypeOK, NEW u \in Users, NEW d \in EntryType, UNCHANGED pay,
         ledger' = [ledger EXCEPT ![u] = Append(@, d)]
  PROVE  \A o, a : Credited(o, a) => Credited(o, a)'
<1> SUFFICES ASSUME NEW o, NEW a, Credited(o, a) PROVE Credited(o, a)'
  OBVIOUS
<1> DEFINE v == pay[o].owner
<1>1. CASE v = u
  <2>1. ledger[u] \in Seq(EntryType) /\ ledger'[u] = Append(ledger[u], d)
    BY DEF TypeOK
  <2>2. \A i \in DOMAIN ledger[u] : i \in DOMAIN ledger'[u] /\ ledger'[u][i] = ledger[u][i]
    BY <2>1
  <2> QED BY <1>1, <2>2 DEF Credited
<1>2. CASE v # u
  <2>1. ledger'[v] = ledger[v]
    BY <1>2 DEF TypeOK
  <2> QED BY <1>2, <2>1 DEF Credited
<1> QED BY <1>1, <1>2

-----------------------------------------------------------------------------
\* One case for each action.
LEMMA StepIInv == IInv /\ [Next]_vars => IInv'
<1> SUFFICES ASSUME IInv, [Next]_vars PROVE IInv'
  OBVIOUS
<1> USE WalletAssumption
<1>e. Extra \/ Fault \/ UNCHANGED bounds => extras' \in 0..MaxExtras /\ faults' \in 0..MaxFaults
  BY DEF Extra, Fault, bounds, IInv, TypeOK
<1>s. unacked \subseteq sent /\ \A k \in Workers : unacked \ {Reported(k)} \subseteq sent
  BY DEF IInv, TypeOK
<1>t. \A k \in Workers : w[k] \in WorkerType
  BY DEF IInv, TypeOK
<1>0. CASE UNCHANGED vars
  BY <1>0 DEF vars, IInv, TypeOK, RequestInv, PaymentInv, FinishedInv, Credited
<1>1. ASSUME NEW o \in Orders, NEW u \in Users, NEW price \in Prices, CreateDeposit(o, u, price) PROVE IInv'
  <2> DEFINE p == [status |-> "waiting", owner |-> u, price |-> price, credited |-> 0]
  <2>1. p \in PayType /\ p.status = "waiting" /\ p.owner = u
    BY DEF PayType, Interim
  <2>2. pay[o].status = "none" /\ pay' = [pay EXCEPT ![o] = p] /\ UNCHANGED <<sent, unacked, w, balance, ledger, extras, faults>>
    BY <1>1 DEF CreateDeposit, books, bounds
  <2> HIDE DEF p
  <2>3. pay'[o] = p /\ \A q \in Orders \ {o} : pay'[q] = pay[q]
    BY <2>2 DEF IInv, TypeOK
  <2>4. TypeOK'
    BY <2>1, <2>2 DEF IInv, TypeOK
  <2>5. \A q \in Orders \ {o} : \A a : Credited(q, a)' <=> Credited(q, a)
    BY <2>2, <2>3 DEF Credited
  <2>6. \A r \in sent : r.order \in Orders \ {o}
    BY <2>2 DEF IInv, TypeOK, PaymentInv, Report
  <2>7. RequestInv'
    BY <2>2, <2>3, <2>5, <2>6 DEF IInv, RequestInv
  <2>8. PaymentInv' /\ FinishedInv'
    BY <2>1, <2>2, <2>3, <2>5, <2>6 DEF IInv, PaymentInv, FinishedInv
  <2> QED BY <2>4, <2>7, <2>8 DEF IInv
<1>2. ASSUME NEW r \in Reports, Issue(r) PROVE IInv'
  <2>1. r \in Report
    BY ReportsAreReports
  <2>2. /\ pay[r.order].status # "none" /\ sent' = sent \union {r} /\ unacked' = unacked \union {r}
        /\ UNCHANGED <<pay, w, balance, ledger, extras, faults>>
    BY <1>2 DEF Issue, books, bounds
  <2>3. TypeOK' /\ PaymentInv'
    BY <2>1, <2>2 DEF IInv, TypeOK, PaymentInv
  <2>4. RequestInv' /\ FinishedInv'
    BY <2>2 DEF IInv, RequestInv, FinishedInv, Credited
  <2> QED BY <2>3, <2>4 DEF IInv
<1>3. ASSUME NEW r \in Reports, NEW k \in Workers, Deliver(k, r) \/ DeliverAgain(k, r) PROVE IInv'
  <2> DEFINE q == [Idle EXCEPT !.pc = "check", !.report = r]
  <2>1. r \in sent /\ r \in Report
    BY <1>3, <1>s, ReportsAreReports DEF Deliver, DeliverAgain
  <2>2. q \in WorkerType /\ q.pc = "check" /\ q.report = r /\ q.delta = 0
    <3>1. Idle \in WorkerType /\ Idle.delta = 0
      BY IdleTyped DEF Idle
    <3> QED BY <2>1, <3>1 DEF WorkerType, WorkerPc
  <2>3. Set(k, q) /\ UNCHANGED <<pay, sent, unacked, balance, ledger>> /\ (Extra \/ UNCHANGED bounds)
    BY <1>3 DEF Deliver, DeliverAgain, Start, books
  <2> HIDE DEF q
  <2> QED BY <1>e, <1>s, <2>1, <2>2, <2>3, RequestStep DEF Posts
<1>4. ASSUME NEW k \in Workers, HookSkip(k) \/ HookRefused(k) \/ RequestFails(k) PROVE IInv'
  <2>1. /\ Set(k, Idle) /\ UNCHANGED <<pay, sent, balance, ledger>> /\ (Fault \/ UNCHANGED bounds)
        /\ unacked' = unacked \/ unacked' = unacked \ {Reported(k)}
    BY <1>4 DEF HookSkip, HookRefused, RequestFails, Answered, books
  <2> QED BY <1>e, <1>s, <2>1, GoIdle
<1>5. ASSUME NEW k \in Workers, HookStatusOnly(k) PROVE IInv'
  <2> DEFINE q == [w[k] EXCEPT !.pc = "store"]
  <2>1. q \in WorkerType /\ q.pc = "store" /\ q.report = w[k].report /\ q.delta = w[k].delta
    BY <1>t DEF WorkerType, WorkerPc
  <2>2. /\ Set(k, q) /\ UNCHANGED <<pay, sent, unacked, balance, ledger>> /\ UNCHANGED bounds
        /\ w[k].pc = "check" /\ w[k].report.status # "finished"
    BY <1>5 DEF HookStatusOnly, At, Reported, books
  <2>3. w[k].report \in sent /\ (w[k].report # NoReport => w[k].delta >= 0)
    BY <2>2 DEF IInv, RequestInv
  <2> HIDE DEF q
  <2> QED BY <1>e, <1>s, <2>1, <2>2, <2>3, RequestStep DEF Posts
<1>6. ASSUME NEW k \in Workers, HookCredit(k) PROVE IInv'
  <2> DEFINE q == [w[k] EXCEPT !.pc = "read", !.user = Payment(k).owner, !.delta = CreditOf(k)]
  <2>1. /\ Set(k, q) /\ UNCHANGED <<pay, sent, unacked, balance, ledger>> /\ UNCHANGED bounds
        /\ w[k].pc = "check" /\ w[k].report.status = "finished" /\ CreditOf(k) > 0 /\ Payment(k).status # "none"
    BY <1>6 DEF HookCredit, At, Reported, Closed, books
  <2>2. w[k].report \in sent /\ w[k].report \in Report
    BY <2>1 DEF IInv, RequestInv, TypeOK
  <2>3. Payment(k) = pay[w[k].report.order] /\ Payment(k) \in PayType /\ Payment(k).owner \in Users
    BY <2>1, <2>2 DEF Payment, Reported, Report, IInv, TypeOK, PaymentInv
  <2>4. CreditOf(k) \in Int
    BY <2>2, <2>3 DEF CreditOf, ToCents, Reported, Report, PayType
  <2>5. q \in WorkerType /\ q.pc = "read" /\ q.report = w[k].report /\ q.delta = CreditOf(k) /\ q.user = Payment(k).owner
    BY <1>t, <2>3, <2>4 DEF WorkerType, WorkerPc
  <2> HIDE DEF q
  <2> QED BY <1>e, <1>s, <2>1, <2>2, <2>3, <2>4, <2>5, RequestStep DEF Posts
<1>7. ASSUME NEW k \in Workers, NEW u \in Users, NEW a \in Adjustments, AdjustBalance(k, u, a) PROVE IInv'
  <2> DEFINE q == [Idle EXCEPT !.pc = "read", !.user = u, !.delta = a]
  <2>1. q \in WorkerType /\ q.pc = "read" /\ q.report = NoReport /\ q.user = u
    <3>1. Idle \in WorkerType /\ Idle.report = NoReport
      BY IdleTyped DEF Idle
    <3>2. a \in Int
      OBVIOUS
    <3> QED BY <3>1, <3>2 DEF WorkerType, WorkerPc
  <2>2. Set(k, q) /\ UNCHANGED <<pay, sent, unacked, balance, ledger>> /\ Extra
    BY <1>7 DEF AdjustBalance, books
  <2> HIDE DEF q
  <2> QED BY <1>e, <1>s, <2>1, <2>2, RequestStep
<1>8. ASSUME NEW k \in Workers, BalanceRead(k) PROVE IInv'
  <2> DEFINE q == [w[k] EXCEPT !.pc = "inc", !.before = balance[w[k].user]]
  <2>1. Set(k, q) /\ UNCHANGED <<pay, sent, unacked, balance, ledger>> /\ UNCHANGED bounds /\ w[k].pc = "read"
    BY <1>8 DEF BalanceRead, At, books
  <2>2. w[k].user \in Users /\ balance[w[k].user] \in Int
    BY <2>1 DEF IInv, RequestInv, TypeOK, Posts
  <2>3. q \in WorkerType /\ q.pc = "inc" /\ q.report = w[k].report /\ q.delta = w[k].delta /\ q.user = w[k].user
    BY <1>t, <2>2 DEF WorkerType, WorkerPc
  <2> HIDE DEF q
  <2> QED BY <1>e, <1>s, <2>1, <2>2, <2>3, RequestStep DEF IInv, RequestInv, Posts
<1>9. ASSUME NEW k \in Workers, BalanceInc(k) PROVE IInv'
  <2> DEFINE b == balance[w[k].user] + w[k].delta
             q == [w[k] EXCEPT !.pc = "record", !.after = b]
  <2>1. /\ Set(k, q) /\ balance' = [balance EXCEPT ![w[k].user] = b] /\ w[k].pc = "inc"
        /\ UNCHANGED <<pay, sent, unacked, ledger, extras, faults>>
    BY <1>9 DEF BalanceInc, MoveTo, At, bounds
  <2>2. w[k].user \in Users /\ b \in Int
    BY <2>1, <1>t DEF IInv, RequestInv, TypeOK, Posts, WorkerType
  <2>3. q \in WorkerType /\ q.pc = "record" /\ q.report = w[k].report /\ q.delta = w[k].delta /\ q.user = w[k].user
    BY <1>t, <2>2 DEF WorkerType, WorkerPc
  <2> HIDE DEF b, q
  <2>4. w' = [w EXCEPT ![k] = q] /\ w'[k] = q /\ \A j \in Workers \ {k} : w'[j] = w[j]
    BY <2>1 DEF Set, IInv, TypeOK
  <2>5. TypeOK'
    BY <2>1, <2>2, <2>3, <2>4 DEF IInv, TypeOK
  <2>6. PaymentInv' /\ FinishedInv' /\ \A o, a : Credited(o, a)' <=> Credited(o, a)
    BY <2>1 DEF IInv, PaymentInv, FinishedInv, Credited
  <2>7. RequestInv'
    BY <2>1, <2>3, <2>4, <2>6 DEF IInv, RequestInv, Posts
  <2> QED BY <2>5, <2>6, <2>7 DEF IInv
<1>10. ASSUME NEW k \in Workers, Record(k) PROVE IInv'
  <2> DEFINE amount == IF w[k].delta < 0 THEN -w[k].delta ELSE w[k].delta
             hook == w[k].report # NoReport
             d == Document(IF hook THEN "deposit" ELSE "adjustment", amount,
                           w[k].before, w[k].after, w[k].report.order, w[k].delta)
             q == IF hook THEN [w[k] EXCEPT !.pc = "store"] ELSE Idle
  <2>1. /\ Set(k, q) /\ ledger' = [ledger EXCEPT ![w[k].user] = Append(@, d)] /\ w[k].pc = "record"
        /\ UNCHANGED <<pay, sent, unacked, balance, extras, faults>>
    BY <1>10 DEF Record, RecordAs, At, bounds
  <2>2. w[k].user \in Users /\ (hook => w[k].report \in sent /\ w[k].report \in Report)
    BY <2>1 DEF IInv, RequestInv, TypeOK, Posts
  <2>3. d \in EntryType
    <3>1. amount \in Nat /\ w[k].before \in Int /\ w[k].after \in Int /\ w[k].delta \in Int
      BY <1>t DEF WorkerType
    <3>2. w[k].report.order \in Orders \union {"none"}
      BY <2>2 DEF Report, NoReport
    <3> HIDE DEF amount
    <3> QED BY <3>1, <3>2 DEF Document, EntryType
  <2>4. d.order = w[k].report.order /\ d.amount = amount
    BY DEF Document
  <2>5. hook => q \in WorkerType /\ q.pc = "store" /\ q.report = w[k].report /\ q.delta = w[k].delta
    BY <1>t DEF WorkerType, WorkerPc
  <2>6. ~hook => q = Idle
    OBVIOUS
  <2>7. q \in WorkerType
    BY <2>5, <2>6, IdleTyped
  <2>8. hook => w[k].delta > 0 /\ w[k].user = pay[w[k].report.order].owner /\ amount = w[k].delta
    <3>1. hook => w[k].delta > 0 /\ w[k].user = pay[w[k].report.order].owner
      BY <2>1 DEF IInv, RequestInv, Posts
    <3> QED BY <3>1, <1>t DEF WorkerType
  <2> HIDE DEF q, d, amount
  <2>9. w' = [w EXCEPT ![k] = q] /\ w'[k] = q /\ \A j \in Workers \ {k} : w'[j] = w[j]
    BY <2>1 DEF Set, IInv, TypeOK
  <2>10. TypeOK'
    BY <2>1, <2>2, <2>3, <2>7, <2>9 DEF IInv, TypeOK
  <2>11. \A o, a : Credited(o, a) => Credited(o, a)'
    BY <2>1, <2>2, <2>3, CreditedStays DEF IInv
  <2>12. hook => Credited(w[k].report.order, w[k].delta)'
    <3> SUFFICES ASSUME hook PROVE Credited(w[k].report.order, w[k].delta)'
      OBVIOUS
    <3> DEFINE s == ledger[w[k].user]
    <3>1. s \in Seq(EntryType) /\ ledger'[w[k].user] = Append(s, d)
      BY <2>1, <2>2 DEF IInv, TypeOK
    <3> HIDE DEF s
    <3>2. Len(s) + 1 \in DOMAIN Append(s, d) /\ Append(s, d)[Len(s) + 1] = d
      BY <3>1, <2>3
    <3>3. pay' = pay /\ pay[w[k].report.order].owner = w[k].user
      BY <2>1, <2>8
    <3>4. d.order = w[k].report.order /\ d.amount = w[k].delta /\ w[k].delta > 0
      BY <2>4, <2>8
    <3>5. ledger'[pay'[w[k].report.order].owner] = Append(s, d)
      BY <3>1, <3>3
    <3>6. w'[k].report = w[k].report /\ w'[k].delta = w[k].delta
      BY <2>5, <2>9
    <3> DEFINE L == ledger'[pay'[w[k].report.order].owner]
    <3>7. \E i \in DOMAIN L : L[i].order = w[k].report.order /\ L[i].amount = w[k].delta /\ L[i].amount > 0
      BY <3>2, <3>4, <3>5
    <3> QED BY <3>6, <3>7 DEF Credited
  <2>13. PaymentInv' /\ FinishedInv'
    BY <2>1, <2>11 DEF IInv, PaymentInv, FinishedInv
  <2>14. RequestInv'
    <3>1. ASSUME NEW j \in Workers, j # k PROVE w'[j] = w[j]
      BY <2>9, <3>1
    <3>2. CASE hook
      <4>1. w'[k].pc = "store" /\ w'[k].report = w[k].report /\ w'[k].delta = w[k].delta
        BY <2>5, <2>9, <3>2
      <4> QED BY <2>1, <2>2, <2>8, <2>9, <2>11, <2>12, <3>2, <4>1 DEF IInv, RequestInv, Posts
    <3>3. CASE ~hook
      <4>1. w'[k].pc = "idle" /\ w'[k].report = NoReport
        BY <2>6, <2>9, <3>3 DEF Idle
      <4> QED BY <2>1, <2>9, <2>11, <4>1 DEF IInv, RequestInv, Posts
    <3> QED BY <3>2, <3>3
  <2> QED BY <2>10, <2>13, <2>14 DEF IInv
<1>11. ASSUME NEW k \in Workers, HookStore(k) PROVE IInv'
  <2> DEFINE o == w[k].report.order
             p == [pay[o] EXCEPT !.status = w[k].report.status, !.credited = w[k].delta]
  <2>1. /\ pay' = [pay EXCEPT ![o].status = w[k].report.status, ![o].credited = w[k].delta]
        /\ w[k].pc = "store" /\ Set(k, Idle) /\ unacked' = unacked \ {w[k].report}
        /\ UNCHANGED <<sent, balance, ledger, extras, faults>>
    BY <1>11 DEF HookStore, At, Answered, Reported, books, bounds
  <2>2. w[k].report \in sent /\ w[k].report \in Report
    BY <2>1 DEF IInv, RequestInv, TypeOK
  <2>3. o \in Orders /\ pay[o] \in PayType /\ w[k].report.status \in {"confirming"} \union Final
    BY <2>2 DEF IInv, TypeOK, Report
  <2>4. w[k].delta \in Nat
    <3>1. w[k].report # NoReport
      BY <2>2 DEF NoReport, Report, Final
    <3> QED BY <3>1, <1>t DEF IInv, RequestInv, WorkerType
  <2>5. pay' = [pay EXCEPT ![o] = p]
    BY <2>1, <2>3 DEF IInv, TypeOK, PayType
  <2>6. p \in PayType /\ p.owner = pay[o].owner /\ p.status = w[k].report.status /\ p.credited = w[k].delta
    BY <2>3, <2>4 DEF PayType, Interim
  <2>7. p.status # "none" /\ pay[o].status # "none"
    BY <2>2, <2>3, <2>6 DEF Final, IInv, PaymentInv
  <2>8. p.status = "finished" => Credited(o, p.credited)
    <3>1. w[k].report # NoReport
      BY <2>2 DEF NoReport, Report, Final
    <3> QED BY <2>1, <2>6, <3>1 DEF IInv, RequestInv
  <2>o. o = w[k].report.order
    OBVIOUS
  <2> HIDE DEF p, o
  <2>9. pay'[o] = p /\ \A x \in Orders \ {o} : pay'[x] = pay[x]
    BY <2>3, <2>5 DEF IInv, TypeOK
  <2>10. \A x \in Orders : pay'[x].owner = pay[x].owner
    BY <2>6, <2>9
  <2>11. \A x \in Orders : \A a : Credited(x, a)' <=> Credited(x, a)
    BY <2>1, <2>10 DEF Credited
  <2>12. w' = [w EXCEPT ![k] = Idle] /\ w'[k] = Idle /\ \A j \in Workers \ {k} : w'[j] = w[j]
    BY <2>1 DEF Set, IInv, TypeOK
  <2>13. TypeOK'
    <3>1. pay' \in [Orders -> PayType]
      BY <2>3, <2>5, <2>6 DEF IInv, TypeOK
    <3>2. w' \in [Workers -> WorkerType]
      BY <2>12, IdleTyped DEF IInv, TypeOK
    <3> QED BY <2>1, <3>1, <3>2 DEF IInv, TypeOK
  <2>14. PaymentInv' /\ FinishedInv'
    BY <2>1, <2>3, <2>6, <2>7, <2>8, <2>9, <2>10, <2>11 DEF IInv, PaymentInv, FinishedInv, TypeOK, Report
  <2>15. RequestInv'
    <3>1. \A r \in sent : r.order \in Orders
      BY DEF IInv, TypeOK, Report
    <3>2. w'[k].pc = "idle" /\ w'[k].report = NoReport
      BY <2>12 DEF Idle
    <3>3. \A j \in Workers : w[j].report # NoReport => w[j].report \in sent /\ w[j].report.order \in Orders
      BY <3>1 DEF IInv, RequestInv
    <3> SUFFICES ASSUME NEW j \in Workers
                 PROVE  (/\ w[j].report = NoReport \/ w[j].report \in sent
                         /\ w[j].pc \in {"check", "store"} => w[j].report \in sent
                         /\ w[j].pc \in Posts => w[j].user \in Users
                         /\ w[j].report # NoReport =>
                              /\ w[j].delta >= 0
                              /\ w[j].pc \in Posts =>
                                   /\ w[j].delta > 0 /\ w[j].report.status = "finished"
                                   /\ w[j].user = pay[w[j].report.order].owner
                              /\ w[j].pc = "store" /\ w[j].report.status = "finished" =>
                                   Credited(w[j].report.order, w[j].delta))'
      BY DEF RequestInv
    <3>4. CASE j = k
      BY <2>12, <3>2, <3>4 DEF Posts, Idle
    <3>5. CASE j # k
      <4>1. w'[j] = w[j] /\ sent' = sent
        BY <2>1, <2>12, <3>5
      <4>2. w[j].report # NoReport => pay'[w[j].report.order].owner = pay[w[j].report.order].owner
        BY <2>10, <3>3
      <4>3. w[j].report # NoReport /\ w[j].pc = "store" /\ w[j].report.status = "finished"
              => Credited(w[j].report.order, w[j].delta)'
        <5>1. ASSUME NEW x \in Orders, NEW a, Credited(x, a) PROVE Credited(x, a)'
          BY <2>11, <5>1
        <5>2. ASSUME NEW x \in Orders, NEW a, Credited(x, a), w'[j].report.order = x, w'[j].delta = a
              PROVE  Credited(w[j].report.order, w[j].delta)'
          BY <5>1, <5>2
        <5> QED BY <3>3, <4>1, <5>2 DEF IInv, RequestInv
      <4> QED BY <4>1, <4>2, <4>3 DEF IInv, RequestInv
    <3> QED BY <3>4, <3>5
  <2> QED BY <2>13, <2>14, <2>15 DEF IInv
<1>12. ASSUME NEW u \in Users, NEW a \in Stakes, Bet(u, a) PROVE IInv'
  <2> DEFINE d == Document("bet", a, balance[u], balance[u] - a, "none", -a)
  <2>1. /\ balance' = [balance EXCEPT ![u] = @ - a] /\ ledger' = [ledger EXCEPT ![u] = Append(@, d)]
        /\ Extra /\ UNCHANGED <<pay, sent, unacked, w>>
    BY <1>12 DEF Bet
  <2>2. balance[u] \in Int /\ a \in Nat
    BY DEF IInv, TypeOK
  <2>3. d \in EntryType
    BY <2>2 DEF Document, EntryType
  <2> HIDE DEF d
  <2>4. TypeOK'
    BY <1>e, <2>1, <2>2, <2>3 DEF IInv, TypeOK
  <2>5. \A o, x : Credited(o, x) => Credited(o, x)'
    BY <2>1, <2>3, CreditedStays DEF IInv
  <2>6. RequestInv' /\ PaymentInv' /\ FinishedInv'
    BY <2>1, <2>5 DEF IInv, RequestInv, PaymentInv, FinishedInv
  <2> QED BY <2>4, <2>6 DEF IInv
<1>13. CASE Crash
  <2>1. w' = [k \in Workers |-> Idle] /\ UNCHANGED <<pay, sent, unacked, balance, ledger>> /\ Fault
    BY <1>13 DEF Crash, books
  <2>2. TypeOK'
    BY <1>e, <2>1, IdleTyped DEF IInv, TypeOK
  <2>3. RequestInv' /\ PaymentInv' /\ FinishedInv'
    BY <2>1 DEF IInv, RequestInv, PaymentInv, FinishedInv, Credited, Idle, Posts
  <2> QED BY <2>2, <2>3 DEF IInv
<1> QED
  BY <1>0, <1>1, <1>2, <1>3, <1>4, <1>5, <1>6, <1>7, <1>8, <1>9, <1>10, <1>11, <1>12, <1>13
     DEF Next, Webhook, Posting

-----------------------------------------------------------------------------
\* The invariant holds in every behaviour of the requests.
LEMMA Invariance == Spec => []IInv
<1> QED BY InitIInv, StepIInv, PTL DEF Spec

\* Documents, reports and requests keep their types.
THEOREM WalletTypes == Spec => []TypeOK
<1>1. IInv => TypeOK
  BY DEF IInv
<1> QED BY <1>1, Invariance, PTL

\* A payment shown as finished was credited to its owner, with the amount it
\* says: the status is written after the balance and the ledger.
THEOREM FinishedIsCredited == Spec => []FinishedWasCredited
<1>1. IInv => FinishedWasCredited
  BY DEF IInv, FinishedInv, Credited, FinishedWasCredited
<1> QED BY <1>1, Invariance, PTL

-----------------------------------------------------------------------------
(* Once finished, closed                                                   *)

\* The documents of order o in the ledgers L.
DepositsIn(L, o) == {e \in UNION {{u} \X DOMAIN L[u] : u \in Users} : L[e[1]][e[2]].order = o}

\* A document of anything else leaves the deposits of an order as they were.
LEMMA DepositsStay ==
  ASSUME TypeOK, NEW o, NEW u \in Users, NEW d \in EntryType, d.order # o,
         ledger' = [ledger EXCEPT ![u] = Append(@, d)]
  PROVE  Deposits(o)' = Deposits(o)
<1> DEFINE M == [ledger EXCEPT ![u] = Append(@, d)]
<1>1. /\ ledger[u] \in Seq(EntryType) /\ M[u] = Append(ledger[u], d)
      /\ \A v \in Users : v # u => M[v] = ledger[v]
  BY DEF TypeOK
<1>2. /\ DOMAIN ledger[u] = 1..Len(ledger[u]) /\ Len(ledger[u]) \in Nat
      /\ DOMAIN M[u] = 1..(Len(ledger[u]) + 1)
      /\ M[u][Len(ledger[u]) + 1] = d
      /\ \A i \in DOMAIN ledger[u] : M[u][i] = ledger[u][i]
  BY <1>1
<1> HIDE DEF M
<1>3. ASSUME NEW v \in Users, NEW i
      PROVE  (i \in DOMAIN M[v] /\ M[v][i].order = o) <=> (i \in DOMAIN ledger[v] /\ ledger[v][i].order = o)
  <2>1. CASE v # u
    BY <1>1, <2>1
  <2>2. CASE v = u
    <3>1. i \in DOMAIN M[u] => i \in DOMAIN ledger[u] \/ i = Len(ledger[u]) + 1
      BY <1>2
    <3>2. i \in DOMAIN ledger[u] => i \in DOMAIN M[u]
      BY <1>2
    <3> QED BY <1>2, <2>2, <3>1, <3>2
  <2> QED BY <2>1, <2>2
<1>4. ASSUME NEW L, NEW e
      PROVE  e \in DepositsIn(L, o) <=> \E v \in Users : \E i \in DOMAIN L[v] : e = <<v, i>> /\ L[v][i].order = o
  BY DEF DepositsIn
<1>5. DepositsIn(M, o) = DepositsIn(ledger, o)
  <2>1. \A e : e \in DepositsIn(M, o) <=> e \in DepositsIn(ledger, o)
    BY <1>3, <1>4
  <2>2. ASSUME NEW S, NEW T, \A e : e \in S <=> e \in T PROVE S = T
    BY <2>2
  <2> QED BY <2>1, <2>2
<1>6. Deposits(o)' = DepositsIn(M, o) /\ Deposits(o) = DepositsIn(ledger, o)
  BY DEF Deposits, DepositsIn, M
<1> QED BY <1>5, <1>6

\* A goroutine that moves, but not past the guard for order o, opens nothing.
LEMMA GuardHolds ==
  ASSUME TypeOK, NEW o, NEW k \in Workers, NEW q, Set(k, q), ~PastGuard(o),
         q.report.order # o \/ q.pc \in {"idle", "check"}
  PROVE  ~PastGuard(o)'
<1>1. w'[k] = q /\ \A j \in Workers \ {k} : w'[j] = w[j]
  BY DEF Set, TypeOK
<1> QED BY <1>1 DEF PastGuard, Reported

\* Only a goroutine past the guard changes what is known of an order.
LEMMA ClosedStays ==
  ASSUME TypeOK, NEW o \in Orders, pay[o].status = "finished", ~PastGuard(o), [Next]_vars,
         RequestInv
  PROVE  pay'[o] = pay[o] /\ ~PastGuard(o)' /\ Deposits(o)' = Deposits(o)
<1> USE WalletAssumption
<1>a. UNCHANGED ledger => Deposits(o)' = Deposits(o)
  BY DEF Deposits
<1>b. UNCHANGED w => ~PastGuard(o)'
  BY DEF PastGuard, Reported
<1>c. Idle.pc = "idle" /\ Idle.report = NoReport /\ NoReport.order # o /\ o # "none"
  BY DEF Idle, NoReport
<1>d. \A k \in Workers : w[k] \in WorkerType /\ (w[k].report.order = o => w[k].pc \in {"idle", "check"})
  BY DEF TypeOK, PastGuard, Reported
<1>0. CASE UNCHANGED vars
  BY <1>0, <1>a, <1>b DEF vars
<1>1. ASSUME NEW p \in Orders, NEW u \in Users, NEW price \in Prices, CreateDeposit(p, u, price)
      PROVE  pay'[o] = pay[o] /\ ~PastGuard(o)' /\ Deposits(o)' = Deposits(o)
  <2>1. p # o /\ pay'[o] = pay[o]
    BY <1>1 DEF CreateDeposit, TypeOK
  <2> QED BY <1>1, <2>1, <1>a, <1>b DEF CreateDeposit, books
<1>2. ASSUME NEW r \in Reports, Issue(r)
      PROVE  pay'[o] = pay[o] /\ ~PastGuard(o)' /\ Deposits(o)' = Deposits(o)
  BY <1>2, <1>a, <1>b DEF Issue, books
<1>3. ASSUME NEW r \in Reports, NEW k \in Workers, Deliver(k, r) \/ DeliverAgain(k, r)
      PROVE  pay'[o] = pay[o] /\ ~PastGuard(o)' /\ Deposits(o)' = Deposits(o)
  <2> DEFINE q == [Idle EXCEPT !.pc = "check", !.report = r]
  <2>1. Set(k, q) /\ UNCHANGED <<pay, ledger>>
    BY <1>3 DEF Deliver, DeliverAgain, Start, books
  <2>2. q.pc = "check"
    BY DEF Idle
  <2> HIDE DEF q
  <2> QED BY <2>1, <2>2, <1>a, GuardHolds
<1>4. ASSUME NEW k \in Workers, HookSkip(k) \/ HookRefused(k) \/ RequestFails(k)
      PROVE  pay'[o] = pay[o] /\ ~PastGuard(o)' /\ Deposits(o)' = Deposits(o)
  <2>1. Set(k, Idle) /\ UNCHANGED <<pay, ledger>>
    BY <1>4 DEF HookSkip, HookRefused, RequestFails, Answered, books
  <2> QED BY <2>1, <1>a, <1>c, GuardHolds
<1>5. ASSUME NEW k \in Workers, HookStatusOnly(k) \/ HookCredit(k)
      PROVE  pay'[o] = pay[o] /\ ~PastGuard(o)' /\ Deposits(o)' = Deposits(o)
  <2>1. w[k].report.order # o /\ UNCHANGED <<pay, ledger>>
    BY <1>5 DEF HookStatusOnly, HookCredit, Closed, Payment, Reported, books
  <2>2. PICK q : Set(k, q) /\ q.report = w[k].report
    <3>1. CASE HookStatusOnly(k)
      <4>1. [w[k] EXCEPT !.pc = "store"].report = w[k].report
        BY <1>d DEF WorkerType
      <4> QED BY <3>1, <4>1 DEF HookStatusOnly
    <3>2. CASE HookCredit(k)
      <4>1. [w[k] EXCEPT !.pc = "read", !.user = Payment(k).owner, !.delta = CreditOf(k)].report = w[k].report
        BY <1>d DEF WorkerType
      <4> QED BY <3>2, <4>1 DEF HookCredit
    <3> QED BY <1>5, <3>1, <3>2
  <2> QED BY <2>1, <2>2, <1>a, GuardHolds
<1>6. ASSUME NEW k \in Workers, HookStore(k)
      PROVE  pay'[o] = pay[o] /\ ~PastGuard(o)' /\ Deposits(o)' = Deposits(o)
  <2>1. w[k].report.order # o
    BY <1>6, <1>d DEF HookStore, At
  <2>2. pay'[o] = pay[o]
    BY <1>6, <2>1 DEF HookStore, Reported, TypeOK
  <2> QED BY <1>6, <2>2, <1>a, <1>c, GuardHolds DEF HookStore, Answered, books
<1>7. ASSUME NEW k \in Workers, NEW u \in Users, NEW a \in Adjustments, AdjustBalance(k, u, a)
      PROVE  pay'[o] = pay[o] /\ ~PastGuard(o)' /\ Deposits(o)' = Deposits(o)
  <2> DEFINE q == [Idle EXCEPT !.pc = "read", !.user = u, !.delta = a]
  <2>1. Set(k, q) /\ UNCHANGED <<pay, ledger>>
    BY <1>7 DEF AdjustBalance, books
  <2>2. q.report = NoReport
    BY DEF Idle
  <2> HIDE DEF q
  <2> QED BY <2>1, <2>2, <1>a, <1>c, GuardHolds
<1>8. ASSUME NEW k \in Workers, BalanceRead(k) \/ BalanceInc(k)
      PROVE  pay'[o] = pay[o] /\ ~PastGuard(o)' /\ Deposits(o)' = Deposits(o)
  <2>1. w[k].report.order # o /\ UNCHANGED <<pay, ledger>>
    BY <1>8, <1>d DEF BalanceRead, BalanceInc, MoveTo, At, books
  <2>2. PICK q : Set(k, q) /\ q.report = w[k].report
    <3>1. CASE BalanceRead(k)
      <4>1. [w[k] EXCEPT !.pc = "inc", !.before = balance[w[k].user]].report = w[k].report
        BY <1>d DEF WorkerType
      <4> QED BY <3>1, <4>1 DEF BalanceRead
    <3>2. CASE BalanceInc(k)
      <4>1. [w[k] EXCEPT !.pc = "record", !.after = balance[w[k].user] + w[k].delta].report = w[k].report
        BY <1>d DEF WorkerType
      <4> QED BY <3>2, <4>1 DEF BalanceInc, MoveTo
    <3> QED BY <1>8, <3>1, <3>2
  <2> QED BY <2>1, <2>2, <1>a, GuardHolds
<1>9. ASSUME NEW k \in Workers, Record(k)
      PROVE  pay'[o] = pay[o] /\ ~PastGuard(o)' /\ Deposits(o)' = Deposits(o)
  <2> DEFINE amount == IF w[k].delta < 0 THEN -w[k].delta ELSE w[k].delta
             hook == w[k].report # NoReport
             d == Document(IF hook THEN "deposit" ELSE "adjustment", amount,
                           w[k].before, w[k].after, w[k].report.order, w[k].delta)
             q == IF hook THEN [w[k] EXCEPT !.pc = "store"] ELSE Idle
  <2>1. /\ Set(k, q) /\ ledger' = [ledger EXCEPT ![w[k].user] = Append(@, d)] /\ w[k].pc = "record"
        /\ UNCHANGED pay
    BY <1>9 DEF Record, RecordAs, At
  <2>2. w[k].user \in Users /\ w[k].report.order # o
    BY <2>1, <1>d DEF RequestInv, Posts
  <2>3. d \in EntryType
    <3>1. amount \in Nat /\ w[k].before \in Int /\ w[k].after \in Int /\ w[k].delta \in Int
      BY <1>d DEF WorkerType
    <3>2. w[k].report.order \in Orders \union {"none"}
      BY <1>d DEF WorkerType, Report, NoReport
    <3> HIDE DEF amount
    <3> QED BY <3>1, <3>2 DEF Document, EntryType
  <2>4. d.order = w[k].report.order
    BY DEF Document
  <2>5. q.report.order # o
    <3>1. hook => q.report = w[k].report
      BY <1>d DEF WorkerType
    <3> QED BY <3>1, <2>2, <1>c
  <2> HIDE DEF d, q
  <2> QED BY <2>1, <2>2, <2>3, <2>4, <2>5, DepositsStay, GuardHolds
<1>10. ASSUME NEW u \in Users, NEW a \in Stakes, Bet(u, a)
      PROVE  pay'[o] = pay[o] /\ ~PastGuard(o)' /\ Deposits(o)' = Deposits(o)
  <2> DEFINE d == Document("bet", a, balance[u], balance[u] - a, "none", -a)
  <2>1. ledger' = [ledger EXCEPT ![u] = Append(@, d)] /\ UNCHANGED <<pay, w>>
    BY <1>10 DEF Bet
  <2>2. balance[u] \in Int /\ a \in Nat
    BY DEF TypeOK
  <2>3. d \in EntryType /\ d.order # o
    BY <2>2, <1>c DEF Document, EntryType
  <2> HIDE DEF d
  <2> QED BY <2>1, <2>3, <1>b, DepositsStay
<1>11. CASE Crash
  <2>1. w' = [k \in Workers |-> Idle] /\ UNCHANGED <<pay, ledger>>
    BY <1>11 DEF Crash, books
  <2>2. ~PastGuard(o)'
    BY <2>1, <1>c DEF PastGuard, Reported
  <2> QED BY <2>1, <2>2, <1>a
<1> QED
  BY <1>0, <1>1, <1>2, <1>3, <1>4, <1>5, <1>6, <1>7, <1>8, <1>9, <1>10, <1>11
     DEF Next, Webhook, Posting

\* Once a payment is finished and no goroutine is past the idempotency guard
\* for it, no report, repeated or late, credits it again or changes it.
THEOREM FinishedStaysClosed == Spec => FinishedIsClosed
<1>1. IInv /\ [Next]_vars =>
        [\A o \in Orders : (pay[o].status = "finished" /\ ~PastGuard(o)) =>
            /\ pay'[o] = pay[o] /\ ~PastGuard(o)'
            /\ Deposits(o)' = Deposits(o)]_vars
  BY ClosedStays DEF IInv
<1> QED BY <1>1, Invariance, PTL DEF Spec, FinishedIsClosed

-----------------------------------------------------------------------------
(* The books balance                                                       *)

\* What a goroutine at q has put on the balance of u without recording it.
Due(q, u) == IF q.pc = "record" /\ q.user = u THEN q.delta ELSE 0

\* A document adds its delta to what the ledger of its owner records.
LEMMA LedgerGrows ==
  ASSUME TypeOK, NEW u \in Users, NEW d \in EntryType, ledger' = [ledger EXCEPT ![u] = Append(@, d)]
  PROVE  \A v \in Users : Recorded(v)' = Recorded(v) + (IF v = u THEN d.delta ELSE 0)
<1> TAKE v \in Users
<1> DEFINE val == [e \in EntryType |-> e.delta]
<1>1. ledger[v] \in Seq(EntryType) /\ ledger'[v] = (IF v = u THEN Append(ledger[v], d) ELSE ledger[v])
  BY DEF TypeOK
<1>2. val \in [EntryType -> Int] /\ val[d] = d.delta
  BY DEF EntryType
<1>3. ASSUME NEW q \in Seq(EntryType) PROVE Values(val, q) = [i \in DOMAIN q |-> q[i].delta]
  BY DEF Values
<1>4. Recorded(v) = SumFunction(Values(val, ledger[v])) /\ Recorded(v)' = SumFunction(Values(val, ledger'[v]))
  <2>1. ledger'[v] \in Seq(EntryType)
    BY <1>1
  <2> QED BY <1>1, <1>3, <2>1 DEF Recorded
<1> HIDE DEF val
<1>5. /\ SumFunction(Values(val, ledger[v])) \in Int
      /\ SumFunction(Values(val, Append(ledger[v], d))) = SumFunction(Values(val, ledger[v])) + val[d]
  BY <1>1, <1>2, SumAppended
<1>6. CASE v = u
  BY <1>1, <1>2, <1>4, <1>5, <1>6
<1>7. CASE v # u
  BY <1>1, <1>4, <1>5, <1>7
<1> QED BY <1>6, <1>7

\* A goroutine that moves changes what is unrecorded by its own share.
LEMMA RequestMoves ==
  ASSUME TypeOK, NEW k \in Workers, NEW q \in WorkerType, Set(k, q)
  PROVE  \A u \in Users : Unrecorded(u)' = Unrecorded(u) + Due(q, u) - Due(w[k], u)
<1> TAKE u \in Users
<1> DEFINE f == [j \in Workers |-> Due(w[j], u)]
           g == [j \in Workers |-> Due(w'[j], u)]
<1>1. w'[k] = q /\ \A j \in Workers \ {k} : w'[j] = w[j]
  BY DEF Set, TypeOK
<1>2. \A j \in Workers : w[j] \in WorkerType /\ w'[j] \in WorkerType
  BY <1>1 DEF TypeOK
<1>3. f \in [Workers -> Int] /\ g \in [Workers -> Int]
  BY <1>2 DEF Due, WorkerType
<1>4. f[k] = Due(w[k], u) /\ g[k] = Due(q, u) /\ \A j \in Workers : j # k => f[j] = g[j]
  BY <1>1
<1>5. Unrecorded(u) = SumFunction(f) /\ Unrecorded(u)' = SumFunction(g)
  BY DEF Unrecorded, Due, At
<1> HIDE DEF f, g
<1>6. SumFunction(g) = SumFunction(f) + g[k] - f[k]
  BY <1>3, <1>4, WorkersAssumption, SumChange
<1> QED BY <1>4, <1>5, <1>6

\* Both sums are integers.
LEMMA SumsTyped == ASSUME TypeOK PROVE \A u \in Users : Recorded(u) \in Int /\ Unrecorded(u) \in Int
<1> TAKE u \in Users
<1>1. ledger[u] \in Seq(EntryType) /\ \A i \in DOMAIN ledger[u] : ledger[u][i].delta \in Int
  <2>1. ledger[u] \in Seq(EntryType)
    BY DEF TypeOK
  <2>2. \A e \in EntryType : e.delta \in Int
    BY DEF EntryType
  <2> QED BY <2>1, <2>2
<1>2. IsFiniteSet(DOMAIN ledger[u])
  <2>1. DOMAIN ledger[u] = 1..Len(ledger[u]) /\ Len(ledger[u]) \in Nat
    BY <1>1
  <2>2. IsFiniteSet(1..Len(ledger[u]))
    BY <2>1, FS_Interval
  <2> QED BY <2>1, <2>2
<1>3. Recorded(u) \in Int
  BY <1>1, <1>2, SumInt DEF Recorded, SumFunction
<1>4. \A k \in Workers : w[k] \in WorkerType /\ w[k].delta \in Int
  BY DEF TypeOK, WorkerType
<1>5. Unrecorded(u) \in Int
  BY <1>4, WorkersAssumption, SumInt DEF Unrecorded, SumFunction
<1> QED BY <1>3, <1>5

\* A goroutine moves between steps that owe nothing.
LEMMA NothingDue ==
  ASSUME TypeOK, BooksBalance, NEW k \in Workers, NEW q \in WorkerType, Set(k, q),
         UNCHANGED <<balance, ledger, faults>>, w[k].pc # "record", q.pc # "record"
  PROVE  BooksBalance'
<1>1. \A u \in Users : Due(q, u) = 0 /\ Due(w[k], u) = 0
  BY DEF Due
<1>2. ASSUME NEW u \in Users PROVE Unrecorded(u)' = Unrecorded(u) /\ Recorded(u)' = Recorded(u)
  <2>1. Unrecorded(u)' = Unrecorded(u) + 0 - 0 /\ Unrecorded(u) \in Int
    BY <1>1, RequestMoves, SumsTyped
  <2>2. Recorded(u)' = Recorded(u)
    BY DEF Recorded
  <2> QED BY <2>1, <2>2
<1> QED BY <1>2 DEF BooksBalance

\* What is credited is unrecorded first, and recorded by one document; a
\* bet moves balance and ledger at once.
LEMMA BooksStep == IInv /\ BooksBalance /\ [Next]_vars => BooksBalance'
<1> SUFFICES ASSUME IInv, BooksBalance, [Next]_vars PROVE BooksBalance'
  OBVIOUS
<1> USE WalletAssumption
<1>t. TypeOK /\ \A k \in Workers : w[k] \in WorkerType
  BY DEF IInv, TypeOK
<1>i. Idle \in WorkerType /\ Idle.pc = "idle"
  BY IdleTyped DEF Idle
<1>f. Fault => BooksBalance'
  BY <1>t DEF Fault, BooksBalance, TypeOK
<1>g. Extra => faults' = faults
  BY DEF Extra
<1>0. CASE UNCHANGED <<w, balance, ledger, faults>>
  <2>1. \A u \in Users : Recorded(u)' = Recorded(u) /\ Unrecorded(u)' = Unrecorded(u)
    BY <1>0 DEF Recorded, Unrecorded, At
  <2> QED BY <1>0, <2>1 DEF BooksBalance
<1>1. ASSUME NEW r \in Reports, NEW k \in Workers, Deliver(k, r) \/ DeliverAgain(k, r) PROVE BooksBalance'
  <2> DEFINE q == [Idle EXCEPT !.pc = "check", !.report = r]
  <2>1. q \in WorkerType /\ q.pc = "check"
    BY <1>i, ReportsAreReports DEF WorkerType, WorkerPc
  <2>2. Set(k, q) /\ w[k].pc = "idle" /\ UNCHANGED <<balance, ledger, faults>>
    BY <1>1, <1>g DEF Deliver, DeliverAgain, Start, At, books, bounds
  <2> HIDE DEF q
  <2> QED BY <1>t, <2>1, <2>2, NothingDue
<1>2. ASSUME NEW k \in Workers, HookSkip(k) \/ HookRefused(k) \/ HookStore(k) PROVE BooksBalance'
  <2>1. Set(k, Idle) /\ w[k].pc \in {"check", "store"} /\ UNCHANGED <<balance, ledger, faults>>
    BY <1>2 DEF HookSkip, HookRefused, HookStore, Answered, At, books, bounds
  <2> QED BY <1>t, <1>i, <2>1, NothingDue
<1>3. ASSUME NEW k \in Workers, HookStatusOnly(k) PROVE BooksBalance'
  <2> DEFINE q == [w[k] EXCEPT !.pc = "store"]
  <2>1. q \in WorkerType /\ q.pc = "store"
    BY <1>t DEF WorkerType, WorkerPc
  <2>2. Set(k, q) /\ w[k].pc = "check" /\ UNCHANGED <<balance, ledger, faults>>
    BY <1>3 DEF HookStatusOnly, At, books, bounds
  <2> HIDE DEF q
  <2> QED BY <1>t, <2>1, <2>2, NothingDue
<1>4. ASSUME NEW k \in Workers, HookCredit(k) PROVE BooksBalance'
  <2> DEFINE q == [w[k] EXCEPT !.pc = "read", !.user = Payment(k).owner, !.delta = CreditOf(k)]
  <2>1. /\ Set(k, q) /\ w[k].pc = "check" /\ UNCHANGED <<balance, ledger, faults>>
        /\ Payment(k).status # "none"
    BY <1>4 DEF HookCredit, Closed, At, books, bounds
  <2>2. w[k].report \in Report
    BY <2>1 DEF IInv, RequestInv, TypeOK
  <2>3. Payment(k) \in PayType
    BY <2>2, <1>t DEF Payment, Reported, Report, TypeOK
  <2>4. CreditOf(k) \in Int /\ Payment(k).owner \in Users \union {"nobody"}
    BY <2>2, <2>3 DEF CreditOf, ToCents, Reported, Report, PayType
  <2>5. q \in WorkerType /\ q.pc = "read"
    BY <1>t, <2>4 DEF WorkerType, WorkerPc
  <2> HIDE DEF q
  <2> QED BY <1>t, <2>1, <2>5, NothingDue
<1>5. ASSUME NEW k \in Workers, NEW u \in Users, NEW a \in Adjustments, AdjustBalance(k, u, a) PROVE BooksBalance'
  <2> DEFINE q == [Idle EXCEPT !.pc = "read", !.user = u, !.delta = a]
  <2>1. q \in WorkerType /\ q.pc = "read"
    BY <1>i DEF WorkerType, WorkerPc
  <2>2. Set(k, q) /\ w[k].pc = "idle" /\ UNCHANGED <<balance, ledger, faults>>
    BY <1>5, <1>g DEF AdjustBalance, At, books
  <2> HIDE DEF q
  <2> QED BY <1>t, <2>1, <2>2, NothingDue
<1>6. ASSUME NEW k \in Workers, BalanceRead(k) PROVE BooksBalance'
  <2> DEFINE q == [w[k] EXCEPT !.pc = "inc", !.before = balance[w[k].user]]
  <2>1. Set(k, q) /\ w[k].pc = "read" /\ UNCHANGED <<balance, ledger, faults>>
    BY <1>6 DEF BalanceRead, At, books, bounds
  <2>2. balance[w[k].user] \in Int
    BY <2>1 DEF IInv, RequestInv, TypeOK, Posts
  <2>3. q \in WorkerType /\ q.pc = "inc"
    BY <1>t, <2>2 DEF WorkerType, WorkerPc
  <2> HIDE DEF q
  <2> QED BY <1>t, <2>1, <2>3, NothingDue
<1>7. ASSUME NEW k \in Workers, BalanceInc(k) PROVE BooksBalance'
  <2> DEFINE v == w[k].user
             b == balance[v] + w[k].delta
             q == [w[k] EXCEPT !.pc = "record", !.after = b]
  <2>1. /\ Set(k, q) /\ balance' = [balance EXCEPT ![v] = b] /\ w[k].pc = "inc"
        /\ UNCHANGED <<ledger, faults>>
    BY <1>7 DEF BalanceInc, MoveTo, At, bounds
  <2>2. v \in Users /\ balance[v] \in Int /\ w[k].delta \in Int
    BY <2>1, <1>t DEF IInv, RequestInv, TypeOK, Posts, WorkerType
  <2>3. q \in WorkerType /\ q.pc = "record" /\ q.delta = w[k].delta /\ q.user = v
    <3>1. b \in Int
      BY <2>2
    <3> HIDE DEF b
    <3> QED BY <1>t, <3>1 DEF WorkerType, WorkerPc
  <2>4. b = balance[v] + w[k].delta
    OBVIOUS
  <2> HIDE DEF q, b, v
  <2> SUFFICES ASSUME faults' = 0, NEW u \in Users
               PROVE  balance'[u] = InitialBalance + Recorded(u)' + Unrecorded(u)'
    BY DEF BooksBalance
  <2>5. Recorded(u)' = Recorded(u)
    BY <2>1 DEF Recorded
  <2>6. Unrecorded(u)' = Unrecorded(u) + Due(q, u) - Due(w[k], u)
    BY <1>t, <2>1, <2>3, RequestMoves
  <2>7. Due(w[k], u) = 0 /\ Due(q, u) = IF u = v THEN w[k].delta ELSE 0
    BY <2>1, <2>3 DEF Due
  <2>8. Recorded(u) \in Int /\ Unrecorded(u) \in Int /\ balance[u] \in Int
    BY <1>t, SumsTyped DEF TypeOK
  <2>9. balance[u] = InitialBalance + Recorded(u) + Unrecorded(u)
    BY <2>1 DEF BooksBalance
  <2>10. balance'[u] = IF u = v THEN b ELSE balance[u]
    BY <1>t, <2>1 DEF TypeOK
  <2> QED BY <2>2, <2>4, <2>5, <2>6, <2>7, <2>8, <2>9, <2>10
<1>8. ASSUME NEW k \in Workers, Record(k) PROVE BooksBalance'
  <2> DEFINE v == w[k].user
             amount == IF w[k].delta < 0 THEN -w[k].delta ELSE w[k].delta
             hook == w[k].report # NoReport
             d == Document(IF hook THEN "deposit" ELSE "adjustment", amount,
                           w[k].before, w[k].after, w[k].report.order, w[k].delta)
             q == IF hook THEN [w[k] EXCEPT !.pc = "store"] ELSE Idle
  <2>1. /\ Set(k, q) /\ ledger' = [ledger EXCEPT ![v] = Append(@, d)] /\ w[k].pc = "record"
        /\ UNCHANGED <<balance, faults>>
    BY <1>8 DEF Record, RecordAs, At, bounds
  <2>2. v \in Users /\ (hook => w[k].report \in Report)
    BY <2>1 DEF IInv, RequestInv, TypeOK, Posts
  <2>3. d \in EntryType /\ d.delta = w[k].delta
    <3>1. amount \in Nat /\ w[k].before \in Int /\ w[k].after \in Int /\ w[k].delta \in Int
      BY <1>t DEF WorkerType
    <3>2. w[k].report.order \in Orders \union {"none"}
      BY <2>2 DEF Report, NoReport
    <3> HIDE DEF amount
    <3> QED BY <3>1, <3>2 DEF Document, EntryType
  <2>4. q \in WorkerType /\ q.pc # "record"
    BY <1>t, <1>i DEF WorkerType, WorkerPc
  <2>5. Due(w[k], v) = w[k].delta /\ \A u \in Users : u # v => Due(w[k], u) = 0
    BY <2>1 DEF Due
  <2>6. w[k].delta \in Int
    BY <1>t DEF WorkerType
  <2> HIDE DEF q, d, amount, v
  <2> SUFFICES ASSUME faults' = 0, NEW u \in Users
               PROVE  balance'[u] = InitialBalance + Recorded(u)' + Unrecorded(u)'
    BY DEF BooksBalance
  <2>7. Recorded(u)' = Recorded(u) + (IF u = v THEN w[k].delta ELSE 0)
    BY <1>t, <2>1, <2>2, <2>3, LedgerGrows
  <2>8. Unrecorded(u)' = Unrecorded(u) + Due(q, u) - Due(w[k], u) /\ Due(q, u) = 0
    BY <1>t, <2>1, <2>4, RequestMoves DEF Due
  <2>9. Recorded(u) \in Int /\ Unrecorded(u) \in Int /\ balance[u] \in Int
    BY <1>t, SumsTyped DEF TypeOK
  <2>10. balance'[u] = balance[u] /\ balance[u] = InitialBalance + Recorded(u) + Unrecorded(u)
    BY <2>1 DEF BooksBalance
  <2> QED BY <2>5, <2>6, <2>7, <2>8, <2>9, <2>10
<1>9. ASSUME NEW v \in Users, NEW a \in Stakes, Bet(v, a) PROVE BooksBalance'
  <2> DEFINE d == Document("bet", a, balance[v], balance[v] - a, "none", -a)
  <2>1. /\ balance' = [balance EXCEPT ![v] = @ - a] /\ ledger' = [ledger EXCEPT ![v] = Append(@, d)]
        /\ UNCHANGED <<w, faults>>
    BY <1>9, <1>g DEF Bet
  <2>2. balance[v] \in Int /\ a \in Nat
    BY <1>t DEF TypeOK
  <2>3. d \in EntryType /\ d.delta = -a
    BY <2>2 DEF Document, EntryType
  <2> HIDE DEF d
  <2> SUFFICES ASSUME faults' = 0, NEW u \in Users
               PROVE  balance'[u] = InitialBalance + Recorded(u)' + Unrecorded(u)'
    BY DEF BooksBalance
  <2>4. Recorded(u)' = Recorded(u) + (IF u = v THEN -a ELSE 0)
    BY <1>t, <2>1, <2>3, LedgerGrows
  <2>5. Unrecorded(u)' = Unrecorded(u)
    BY <2>1 DEF Unrecorded, At
  <2>6. Recorded(u) \in Int /\ Unrecorded(u) \in Int /\ balance[u] \in Int
    BY <1>t, SumsTyped DEF TypeOK
  <2>7. balance[u] = InitialBalance + Recorded(u) + Unrecorded(u)
    BY <2>1 DEF BooksBalance
  <2>8. balance'[u] = IF u = v THEN balance[u] - a ELSE balance[u]
    BY <1>t, <2>1 DEF TypeOK
  <2> QED BY <2>2, <2>4, <2>5, <2>6, <2>7, <2>8
<1>10. ASSUME NEW k \in Workers, RequestFails(k) PROVE BooksBalance'
  BY <1>10, <1>f DEF RequestFails
<1>11. CASE Crash
  BY <1>11, <1>f DEF Crash
<1>12. ASSUME NEW o \in Orders, NEW u \in Users, NEW price \in Prices, CreateDeposit(o, u, price) PROVE BooksBalance'
  BY <1>0, <1>12 DEF CreateDeposit, books, bounds
<1>13. ASSUME NEW r \in Reports, Issue(r) PROVE BooksBalance'
  BY <1>0, <1>13 DEF Issue, books, bounds
<1> QED
  BY <1>0, <1>1, <1>2, <1>3, <1>4, <1>5, <1>6, <1>7, <1>8, <1>9, <1>10, <1>11, <1>12, <1>13
  DEF Next, Webhook, Posting, vars

\* No money appears or vanishes while no request fails: whatever deposits,
\* adjustments and bets run at once, a balance is the initial credit, what
\* the ledger records and what is credited and not yet recorded.
THEOREM BooksAlwaysBalance == Spec => []BooksBalance
<1>1. Init => BooksBalance
  <2> SUFFICES ASSUME Init, NEW u \in Users
               PROVE  balance[u] = InitialBalance + Recorded(u) + Unrecorded(u)
    BY DEF BooksBalance
  <2>1. Recorded(u) = 0
    <3>1. ledger[u] = <<>> /\ DOMAIN ledger[u] = {}
      BY DEF Init
    <3>2. DOMAIN [i \in DOMAIN ledger[u] |-> ledger[u][i].delta] = {}
      BY <3>1
    <3> QED BY <3>2, SumEmpty DEF Recorded, SumFunction
  <2>2. Unrecorded(u) = 0
    <3> DEFINE f == [k \in Workers |-> IF At(k, "record") /\ w[k].user = u THEN w[k].delta ELSE 0]
    <3>1. \A k \in Workers : f[k] = 0
      BY DEF Init, At, Idle
    <3>2. DOMAIN f = Workers
      OBVIOUS
    <3> HIDE DEF f
    <3>3. SumFunctionOnSet(f, Workers) = SumFunctionOnSet(f, {})
      BY <3>1, WorkersAssumption, SumZeros
    <3>4. SumFunction(f) = 0
      BY <3>2, <3>3, SumEmpty DEF SumFunction
    <3> QED BY <3>4 DEF Unrecorded, f
  <2>3. balance[u] = InitialBalance /\ InitialBalance \in Nat
    BY WalletAssumption DEF Init
  <2> QED BY <2>1, <2>2, <2>3
<1> QED BY <1>1, Invariance, BooksStep, PTL DEF Spec
=============================================================================
