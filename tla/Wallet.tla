-------------------------------- MODULE Wallet --------------------------------
(***************************************************************************)
(* Money that does not come from bets: crypto deposits reported by         *)
(* NOWPayments webhooks (services/nowpayments_service.go), the deposit     *)
(* itself (services/wallet_service.go) and the balance adjustments of the  *)
(* administrators (services/admin_service.go).                             *)
(*                                                                         *)
(* None of them uses a transaction: a step is one database call of a       *)
(* request goroutine.  The payment provider is external.  It reports every *)
(* status of an order until the report is answered with 200, and may       *)
(* report it again, or in another order.                                   *)
(***************************************************************************)
EXTENDS Integers, Sequences, FiniteSets, Functions

CONSTANTS
    Users,          \* accounts
    Orders,         \* order ids, userID:UnixMilli, taken to be distinct
    Workers,        \* request goroutines of the HTTP server
    Prices,         \* price_amount in cents, 0 for less than a cent
    Paid,           \* actually_paid in cents, 0 when it is not reported
    LossyCents,     \* amounts a whose double a/100.0 * 100 truncates to a-1
    Adjustments,    \* amounts an administrator may add or take away
    Stakes,         \* stakes the game takes meanwhile
    InitialBalance,
    MaxExtras,      \* bound: repeated reports, adjustments and bets
    MaxFaults       \* bound: failed requests and process crashes

ASSUME WalletAssumption ==
    /\ Prices \subseteq Nat /\ Paid \subseteq Nat /\ LossyCents \subseteq Nat \ {0}
    /\ Adjustments \subseteq Int \ {0} /\ Stakes \subseteq Nat \ {0}
    /\ InitialBalance \in Nat /\ MaxExtras \in Nat /\ MaxFaults \in Nat
    /\ "none" \notin Orders
\* However many requests arrive, only finitely many goroutines serve them.
ASSUME WorkersAssumption == IsFiniteSet(Workers)

VARIABLES
    pay,        \* collection crypto_payments, by order id
    sent,       \* reports the provider has issued
    unacked,    \* reports it has no 200 for yet
    w,          \* what each request goroutine is doing
    balance, ledger,    \* users.balance_cents and collection transactions
    extras, faults      \* bounds used up

vars == <<pay, sent, unacked, w, balance, ledger, extras, faults>>

-----------------------------------------------------------------------------
(* Types *)

Interim == {"waiting", "confirming"}       \* stands for every status but the final ones
Final   == {"finished", "failed"}
PayType == [status : {"none"} \union Interim \union Final, owner : Users \union {"nobody"},
            price : Nat, credited : Nat]
Report  == [order : Orders, status : {"confirming"} \union Final, paid : Nat]
Reports == {r \in [order : Orders, status : {"confirming"} \union Final, paid : Paid \union {0}] :
               r.paid \in IF r.status = "finished" THEN Paid ELSE {0}}
NoReport == [order |-> "none", status |-> "none", paid |-> 0]     \* an administrator's request

\* Where a goroutine is: the webhook's first read, the read of the balance,
\* its increment, the ledger document, the write of the payment's status.
WorkerPc   == {"idle", "check", "read", "inc", "record", "store"}
WorkerType == [pc : WorkerPc, report : Report \union {NoReport},
               user : Users \union {"nobody"}, delta : Int, before : Int, after : Int]

\* `order` and `delta` are not in the document: all deposits have the same
\* reason and amounts lose their sign.  Properties use them.
EntryType == [type : {"deposit", "adjustment", "bet"}, amount : Nat, before : Int,
              after : Int, order : Orders \union {"none"}, delta : Int]

NoPayment == [status |-> "none", owner |-> "nobody", price |-> 0, credited |-> 0]
Idle == [pc |-> "idle", report |-> NoReport, user |-> "nobody", delta |-> 0, before |-> 0, after |-> 0]

(* TypeOK: documents, reports and requests keep their types.               *)
TypeOK ==
    /\ pay \in [Orders -> PayType] /\ sent \subseteq Report /\ unacked \subseteq sent
    /\ w \in [Workers -> WorkerType]
    /\ balance \in [Users -> Int] /\ ledger \in [Users -> Seq(EntryType)]
    /\ extras \in 0..MaxExtras /\ faults \in 0..MaxFaults

-----------------------------------------------------------------------------
Init ==
    /\ pay = [o \in Orders |-> NoPayment] /\ sent = {} /\ unacked = {}
    /\ w = [k \in Workers |-> Idle]
    /\ balance = [u \in Users |-> InitialBalance] /\ ledger = [u \in Users |-> <<>>]
    /\ extras = 0 /\ faults = 0

books  == <<balance, ledger>>
bounds == <<extras, faults>>
Extra  == extras < MaxExtras /\ extras' = extras + 1 /\ UNCHANGED faults
Fault  == faults < MaxFaults /\ faults' = faults + 1 /\ UNCHANGED extras

Set(k, req) == w' = [w EXCEPT ![k] = req]
At(k, l)    == w[k].pc = l
Reported(k) == w[k].report
Payment(k)  == pay[Reported(k).order]

\* CreateDeposit: the payer sees the invoice only after it is persisted.
CreateDeposit(o, u, price) ==
    /\ pay[o].status = "none"
    /\ pay' = [pay EXCEPT ![o] = [status |-> "waiting", owner |-> u, price |-> price, credited |-> 0]]
    /\ UNCHANGED <<sent, unacked, w, books, bounds>>

(* The provider *)

Issue(r) ==
    /\ pay[r.order].status # "none" /\ r \notin sent
    /\ \A s \in sent : s.order = r.order => s.status \notin Final   \* a final report is the last
    /\ sent' = sent \union {r} /\ unacked' = unacked \union {r}
    /\ UNCHANGED <<pay, w, books, bounds>>

Start(k, r) == At(k, "idle") /\ Set(k, [Idle EXCEPT !.pc = "check", !.report = r])

Deliver(k, r) ==
    /\ r \in unacked /\ \A j \in Workers : Reported(j) # r
    /\ Start(k, r)
    /\ UNCHANGED <<pay, sent, unacked, books, bounds>>

\* A report is sent again although it is being handled or was answered.
DeliverAgain(k, r) ==
    /\ r \in sent /\ (r \notin unacked \/ \E j \in Workers : Reported(j) = r)
    /\ Extra /\ Start(k, r)
    /\ UNCHANGED <<pay, sent, unacked, books>>

Answered(k) == unacked' = unacked \ {Reported(k)} /\ Set(k, Idle)

(* HandleWebhook *)

\* Mutant: the idempotency guard is missing.
NeverClosed(k) == Payment(k).status = "none"

\* IsAlreadyFinishedByOrderID, or no such payment.
Closed(k) == Payment(k).status \in {"none", "finished"}

HookSkip(k) ==
    /\ At(k, "check") /\ Closed(k)
    /\ Answered(k)
    /\ UNCHANGED <<pay, sent, books, bounds>>

\* Mutant: a finished report is not treated apart.
HookStatusAlways(k) ==
    /\ At(k, "check") /\ ~Closed(k)
    /\ Set(k, [w[k] EXCEPT !.pc = "store"])
    /\ UNCHANGED <<pay, sent, unacked, books, bounds>>

HookStatusOnly(k) ==
    /\ At(k, "check") /\ ~Closed(k) /\ Reported(k).status # "finished"
    /\ Set(k, [w[k] EXCEPT !.pc = "store"])
    /\ UNCHANGED <<pay, sent, unacked, books, bounds>>

\* int64(amountUSD * 100) of what was paid, or else of the price.
ToCents(a) == IF a \in LossyCents THEN a - 1 ELSE a
CreditOf(k) == ToCents(IF Reported(k).paid > 0 THEN Reported(k).paid ELSE Payment(k).price)

HookCredit(k) ==
    /\ At(k, "check") /\ ~Closed(k) /\ Reported(k).status = "finished" /\ CreditOf(k) > 0
    /\ Set(k, [w[k] EXCEPT !.pc = "read", !.user = Payment(k).owner, !.delta = CreditOf(k)])
    /\ UNCHANGED <<pay, sent, unacked, books, bounds>>

\* Deposit refuses an amount of zero: the report is answered with 500.
HookRefused(k) ==
    /\ At(k, "check") /\ ~Closed(k) /\ Reported(k).status = "finished" /\ CreditOf(k) <= 0
    /\ Set(k, Idle)
    /\ UNCHANGED <<pay, sent, unacked, books, bounds>>

\* Mutant: 200 is answered even when the balance could not be credited.
HookFailsAnswered(k) ==
    /\ ~At(k, "idle") /\ Fault /\ Answered(k)
    /\ UNCHANGED <<pay, sent, books>>

\* A database call fails, or its context is cancelled: no 200, no roll-back.
RequestFails(k) ==
    /\ ~At(k, "idle") /\ Fault /\ Set(k, Idle)
    /\ UNCHANGED <<pay, sent, unacked, books>>

\* UpdateStatusByOrderID, whatever the status is by now.
HookStore(k) ==
    /\ At(k, "store")
    /\ pay' = [pay EXCEPT ![Reported(k).order].status = Reported(k).status,
                          ![Reported(k).order].credited = w[k].delta]
    /\ Answered(k)
    /\ UNCHANGED <<sent, books, bounds>>

(* Deposit and AdjustBalance: read the user, $inc the balance, write the   *)
(* ledger document.                                                        *)

AdjustBalance(k, u, a) ==
    /\ At(k, "idle") /\ Extra
    /\ Set(k, [Idle EXCEPT !.pc = "read", !.user = u, !.delta = a])
    /\ UNCHANGED <<pay, sent, unacked, books>>

BalanceRead(k) ==
    /\ At(k, "read")
    /\ Set(k, [w[k] EXCEPT !.pc = "inc", !.before = balance[w[k].user]])
    /\ UNCHANGED <<pay, sent, unacked, books, bounds>>

MoveTo(k, b) ==
    /\ At(k, "inc")
    /\ balance' = [balance EXCEPT ![w[k].user] = b]
    /\ Set(k, [w[k] EXCEPT !.pc = "record", !.after = b])
    /\ UNCHANGED <<pay, sent, unacked, ledger, bounds>>

\* Mutant: the balance is computed from the value read before.
BalanceSet(k) == MoveTo(k, w[k].before + w[k].delta)

\* FindOneAndUpdate with $inc: no condition on the balance.
BalanceInc(k) == MoveTo(k, balance[w[k].user] + w[k].delta)

Document(type, a, before, after, o, d) ==
    [type |-> type, amount |-> a, before |-> before, after |-> after, order |-> o, delta |-> d]

RecordAs(k, amount) ==
    LET q == w[k]  hook == q.report # NoReport IN
    /\ At(k, "record")
    /\ ledger' = [ledger EXCEPT ![q.user] = Append(@,
          Document(IF hook THEN "deposit" ELSE "adjustment", amount,
                   q.before, q.after, q.report.order, q.delta))]
    /\ Set(k, IF hook THEN [q EXCEPT !.pc = "store"] ELSE Idle)
    /\ UNCHANGED <<pay, sent, unacked, balance, bounds>>

\* Mutant: the amount of an adjustment keeps its sign.
RecordSigned(k) == RecordAs(k, w[k].delta)

Record(k) == RecordAs(k, IF w[k].delta < 0 THEN -w[k].delta ELSE w[k].delta)

\* The transaction of a bet commits meanwhile (see CrashGame).
Bet(u, a) ==
    /\ balance[u] >= a /\ Extra
    /\ balance' = [balance EXCEPT ![u] = @ - a]
    /\ ledger' = [ledger EXCEPT ![u] = Append(@, Document("bet", a, balance[u], balance[u] - a, "none", -a))]
    /\ UNCHANGED <<pay, sent, unacked, w>>

\* The process dies: every request is cut off where it is.
Crash ==
    /\ Fault /\ \E k \in Workers : ~At(k, "idle")
    /\ w' = [k \in Workers |-> Idle]
    /\ UNCHANGED <<pay, sent, unacked, books>>

-----------------------------------------------------------------------------
Webhook(k) == HookSkip(k) \/ HookStatusOnly(k) \/ HookCredit(k) \/ HookRefused(k) \/ HookStore(k)
Posting(k) == BalanceRead(k) \/ BalanceInc(k) \/ Record(k)

Next ==
    \/ \E o \in Orders, u \in Users, price \in Prices : CreateDeposit(o, u, price)
    \/ \E r \in Reports : Issue(r) \/ \E k \in Workers : Deliver(k, r) \/ DeliverAgain(k, r)
    \/ \E k \in Workers : Webhook(k) \/ Posting(k) \/ RequestFails(k)
    \/ \E k \in Workers, u \in Users, a \in Adjustments : AdjustBalance(k, u, a)
    \/ \E u \in Users, a \in Stakes : Bet(u, a)
    \/ Crash

Spec == Init /\ [][Next]_vars

\* A request goroutine is never blocked for ever, and the provider keeps
\* repeating a final report it has no 200 for; the server starts a goroutine for
\* every request, only the model has a bounded number of them.
Fairness ==
    /\ \A k \in Workers : WF_vars(Webhook(k) \/ Posting(k))
    /\ \A r \in Reports : r.status = "finished" => SF_vars(\E k \in Workers : Deliver(k, r))

FairSpec == Spec /\ Fairness

-----------------------------------------------------------------------------
(* Properties *)

\* The ledger documents of the deposits of an order.
Deposits(o) == {e \in UNION {{u} \X DOMAIN ledger[u] : u \in Users} : ledger[e[1]][e[2]].order = o}

(* FinishedWasCredited: a payment shown to its owner as finished has been  *)
(* put on her balance and in her ledger, with the amount the payment says, *)
(* although three separate calls that may fail come before the status.     *)
FinishedWasCredited ==
    \A o \in Orders : pay[o].status = "finished" =>
        \E i \in DOMAIN ledger[pay[o].owner] :
            LET e == ledger[pay[o].owner][i]
            IN  e.order = o /\ e.amount = pay[o].credited /\ e.amount > 0

\* What the ledger of u records, and what requests have put on her balance
\* without having recorded it yet.
Recorded(u) == SumFunction([i \in DOMAIN ledger[u] |-> ledger[u][i].delta])
Unrecorded(u) == SumFunction([k \in Workers |-> IF At(k, "record") /\ w[k].user = u THEN w[k].delta ELSE 0])

(* BooksBalance: while no request fails, a balance is the initial credit,  *)
(* what the ledger records, and what requests have credited and not yet    *)
(* recorded, whatever deposits, adjustments and bets run at once.          *)
BooksBalance ==
    faults = 0 => \A u \in Users : balance[u] = InitialBalance + Recorded(u) + Unrecorded(u)

\* A goroutine that passed the idempotency guard for order o.
PastGuard(o) == \E k \in Workers : Reported(k).order = o /\ w[k].pc \notin {"idle", "check"}

(* FinishedIsClosed: once a payment is finished and nobody is past the     *)
(* guard for it, no report, repeated or late, credits it again or changes  *)
(* its status.                                                             *)
FinishedIsClosed ==
    [][\A o \in Orders : (pay[o].status = "finished" /\ ~PastGuard(o)) =>
          /\ pay'[o] = pay[o] /\ ~PastGuard(o)'
          /\ Deposits(o)' = Deposits(o)]_vars

(* PaidOrderIsCredited: an order the provider reports as finished, for at  *)
(* least a cent, is credited in the end, through failures and crashes.     *)
PaidOrderIsCredited ==
    \A o \in Orders :
        (\E r \in unacked : r.order = o /\ r.status = "finished"
                            /\ ToCents(IF r.paid > 0 THEN r.paid ELSE pay[o].price) > 0)
        ~> (\E u \in Users : \E i \in DOMAIN ledger[u] : ledger[u][i].order = o)

(* What the code does not guarantee *)

(* CreditedOnce: no matter how often the provider reports it, an order is  *)
(* credited once (no request fails here).                                  *)
CreditedOnce ==
    faults = 0 => \A o \in Orders, u \in Users : \A i, j \in DOMAIN ledger[u] :
        ledger[u][i].order = o /\ ledger[u][j].order = o => i = j
=============================================================================
