# Verification of the crash game backend

TLA+ models of the Aviator crash game server (Go, MongoDB, WebSockets), TLC
configurations that check them on small instances, and TLAPS proofs for every
value of the constants. Everything is translated from the code under `src/`;
`PROJECT.json` maps each definition to the lines it stands for.

    tlc  -config MCFailures.cfg MCCrashGame    # any cfg of the table below
    tlapm CrashGameProofs.tla                  # any *Proofs or *Refinement module

## 1. Inventory

| Component (source) | State | Operations | Hard part | What makes it correct |
|---|---|---|---|---|
| Engine (`game/engine.go`, `phases.go`) | phase of the loop, stop channel, next server seed | waiting, running (tick loop), crashed, settlement, graceful stop; retries of database calls | plays on when a database call fails; settlement races with cash-outs | every counted bet is settled, a flying round is closed, recorded payouts were paid, a stop leaves no open round |
| Recovery (`game/recovery.go`) | none of its own | find all pending bets, refund each in its own goroutine and transaction | runs after a crash at any point, may fail part way | nobody is let in before it is done, each bet is refunded once |
| Game state (`game/state.go`) | phase, transition time, current round, active bets, multiplier | one locked access each | shared by the engine and all handlers, each access alone is atomic, sequences are not | values read together belong together |
| Game service (`services/game_service.go`, `utils/money.go`) | none | PlaceBet and CashOut transactions, payout, cap | snapshot reads, write conflicts, a lost commit reply | one charge, one credit, books and documents agree |
| Bet and cash-out handlers (`websocket/handlers.go`, `helpers.go`) | a mutex per user | place_bet, cash_out | the mutex of a user is deleted while held | money safe even without the mutex |
| Collections (`repository/*`) | bets, rounds, users, transactions | conditional and unconditional updates | some filters test the old status, some only the id | a status and the money it tells of agree |
| Hub and pumps (`websocket/hub.go`, `client.go`) | registered clients, a channel per client, the broadcast queue | register, unregister, broadcast, drop a slow client, read and write pump, game_sync | bounded channels, closed channels, four goroutines per client | no event is skipped, channels are closed once, connections end |
| Wallet and webhook (`services/wallet_service.go`, `nowpayments_service.go`) | crypto_payments, balance, ledger | CreateDeposit, HandleWebhook, Deposit | no transaction; reports repeated, reordered, overlapping | finished means credited, paid orders are credited, once |
| Admin (`services/admin_service.go`) | as above, is_banned | AdjustBalance, ban, unban, lists | as the wallet; tokens outlive a ban | the books balance, the banned stay out |
| Provably fair (`game/crash_algorithm.go`, `utils/money.go`) | seeds | crash point, verification | integer edges, double conversion | 1.00 exactly when divisible, the house profits, announced seeds are used, published rounds verify |
| Authentication, tickets (`services/auth_service.go`, `websocket/ws_handler.go`) | users, refresh_tokens, ws_tickets | register, login, refresh, logout, ticket, upgrade | every check and the write after it are two calls; errors of lookups and of the token's insert are ignored | names are unique, tokens last, a used ticket opens nothing, the banned stay out |
| Cleanup (`services/cleanup_service.go`) | none of its own | delete expired tokens, then overdue tickets, every hour | the first failure skips the second | what is expired goes, what is not stays |
| Rate limiter (`middleware/rate_limiter.go`) | a token bucket per address | look up, allow, forget full buckets | looked up under a mutex, spent from without it | the rate holds, the map does not grow for ever |
| REST, configuration, main | none | decode, call a service, encode | none beyond the services | start order and shutdown |

How they interact: `main` runs the recovery, then the engine, and only then
accepts connections. The engine writes the game state and the rounds, and
broadcasts through the hub's queue. A connection's read pump runs the handlers,
which read the game state and commit transactions on bets, users and ledger.
The engine settles with bulk writes on the same bets. Deposits and admin
requests move the same balances without a transaction. A connection is opened
with a ticket, a ticket is asked for with an access token, and both look the
account and its ban up again.

## 2. Modules

| Module | What it is |
|---|---|
| `StakeBook` | Abstract: what a casino owes a player. A stake is opened, then paid, returned or kept, each at most once, and the funds follow. |
| `CrashGame` | The betting core: engine, recovery, game state, handlers, game service, collections. |
| `CrashGameProofs` | The theorems about its money; the core implements `StakeBook`. |
| `EngineProofs` | The theorems about its rounds, its recovery, its ledgers and its totals; extends `CrashGameProofs`. |
| `FoldTheorems` | Lemmas about folds over finite sets and segments, and about sums; used by the three modules whose proofs add up. |
| `Wallet`, `WalletProofs` | Deposits, webhooks, adjustments, and bets beside them. |
| `Hub`, `HubProofs` | Hub goroutine, client channels, pumps, game_sync. |
| `FairPlay`, `FairPlayProofs` | Crash point, stored value, verification, seed chain. |
| `Sessions`, `SessionsProofs` | Registration, login, refresh tokens, tickets, bans, cleanup. |
| `RateLimiter`, `RateLimiterProofs` | The token buckets of the REST routes and their cleanup. |
| `MCCrashGame`, `MCWallet`, `MCHub`, `MCFairPlay`, `MCSessions`, `MCRateLimiter` | Constants for TLC. |

Definitions keep the names of the code where there is one. Definitions marked
"Mutant" are not part of any specification: each is the way a plausible bug
would change one action, and the property next to it in `PROJECT.json` fails
when the action is replaced by it. They show that the properties bite.

### CrashGame

`pc` is the place of the engine goroutine, with the recovery before it and
`down` for a dead process: `recover, refund | top, setRound, clear, waiting |
run, stats, tick0, tick | find, bulk, payout, close | stopped`. `phase, cur,
grace, active, mult` are `InMemoryGameState`. `h` and `lock` are the handlers and
the user mutexes. `rounds, bets, balance, ledger` are the collections. A step is
one access to shared state, one document written, or one commit.

How the code became actions:

- A MongoDB transaction is a read of its snapshot followed by an atomic commit
  that fails when a document it wrote has changed. `PlaceBet` touches the unique
  (user, round) bet and the balance with a `$gte` filter, so its commit needs no
  earlier read (`BetCommit`). `CashOut` reads first (`CashRead`: snapshot of bet and
  round, and the multiplier from memory) and commits only while the bet is
  still pending (`CashCommit`); a conflict runs the callback again (`CashRetry`).
  A commit may be applied arbitrarily late, and its reply may be lost
  (`BetCommitLost`). Transactions in flight are rolled back when the process
  dies (`Exit`).
- Merged steps: the phase and current round read by `handlePlaceBet`
  (`BetCheck`), the insert of a round and `SetPhase(waiting)` (`SaveRound`), the
  total wagered and the update it is part of (`RunUpdate`). The second and
  third fetch of the mutex of one request cannot meet anything new and are
  merged with the first. The 200 ms grace window is a flag that can expire at any time while
  the phase is running; `GraceX100` is the largest multiplier the growth curve
  reaches in it, e^0.012 = 1.012, so 101.
- Bulk settlement is unordered, one document per step (`SettleOne`), and may fail
  part way (`SettleGivesUp`). A failing insert of a round may have been applied
  (`SaveRoundFails`). A failing `UpdateRunning` or `UpdateCrashed` that was applied
  is the same as a success.
- `Disconnect` is the hub deleting the user's mutex. An idle handler is also the
  next connection of the same player.
- Rounds have fresh UUIDs; they are numbered in order of creation. A ban, a
  timeout, a duplicate or too little money are all `BetAbort`.
- Left out because it cannot change anything here: the player count (never
  incremented), the read of `TransitionTime` while the phase is waiting, logging.
- Out of reach: a refund whose commit is applied and reported unknown for
  longer than the recovery's own 30 seconds (the driver retries the commit
  for up to 120), and the panic of `Intn(0)` when both tick bounds are equal.

### Wallet

`w` is what each request goroutine is doing: `check` (read of the stored
status), `read`, `inc`, `record` (the three calls of `Deposit` and
`AdjustBalance`) and `store` (the write of the status). The provider is external: it issues
statuses, at most one final one per order, and delivers what is unacknowledged, in any order, and again
(`DeliverAgain`). `RequestFails` and `Crash` cut a request off between any two
calls; a call that was applied and failed is the failure at the next step.
`CreateDeposit` is one step, for the payer sees the invoice only after it is
persisted; the lookup of a payment and the check of its status are one step, for
owner and price never change. `order` and `delta` of a ledger entry are not in the
document; only properties use them. Order ids are taken to be distinct, though
the code builds them from a user id and a millisecond; that none of them is
"none", the mark of an administrator's request, is assumed by name and is only
a convention of the model.

### Hub

`hub` is `Hub.Run`: in its select, in the middle of a broadcast (`cast`, with the
clients still to serve and the slow ones found), or dropping the slow. `send` is
each client's channel. `reader`, `writer`, `syncer` are the goroutines of a
connection. The pumps start when the client is registered; how late they start
is how late they take their first step. Replies take room in a channel but are
not kept in what was written (`out`); nothing is claimed about them. The hub's own
mutex is irrelevant, for only the hub goroutine writes what it protects. Draining
the buffer in one frame is `Write` repeated. A panic in any goroutine ends the
process at once.

### FairPlay

The HMAC is external: any of `Hashes`. The algorithm is exact at any base and
prefix length (the code: base 256, 4 bytes, a word of 2^32); the code's double
arithmetic with its 1e-9 correction is the exact quotient. `LossyX100` are
the real crash points (of those in range) that lose a hundredth when m/100 is
multiplied by 100 and floored. Seeds are numbered as they are drawn. The client
seed and the nonce only feed the HMAC. `restarted` only observes. The curve of `game/helpers.go` is a real
exponential and stays out.

### Sessions

`accounts`, `banned`, `stored` and `tickets` are the collections, `req` the request
goroutines: a step is one database call with the local code up to the next, and
`at` names the next call. Any call may fail or be refused (`Refused`); a call that was
applied and reported as failed is kept apart where it matters (`MarkUsed`, `Insert`
followed by `Refused`). Nothing here is a transaction, so what makes the checks hold
is the order of the calls and the unique indexes (`IsFree`); the lookups of `Register`
stop it only when they find a document, so a failing one lets it pass.

A refresh token is what was signed: user and second. Two logins in one second get
the same token, and the second insert is refused by the index and ignored, as the
code does. `RefreshToken` only looks at the document, never at the signature. JWTAuth accepts any token of the user, so `jwt` only keeps
the last second in which she holds a valid one; a refresh token passes too.
`Expire` are the expiry indexes of the database, which may be arbitrarily late; the
cleanup is `SweepTokens`, `SweepTickets`, and `SweepFails` for the failure of either. A
failing call on the tokens skips the tickets, which is a run without effect followed
by nothing. The ticker fires at any time: an hour is not related to the tokens' seconds.
`handed, excused, rivals, opened` and the `barred` of a request only observe.

### RateLimiter

A step is one critical section: `GetLimiter` under the mutex of the map, `Allow`
under that of the bucket. The cleanup keeps the map's mutex through its loop, so no
request enters it, but those that hold a bucket spend from it meanwhile: `SweepCheck`
is the comparison of one bucket's tokens with the burst, `SweepDelete` the removal.
`rate.Limiter` is external: a bucket gains a token per unit of time up to the burst.
Tokens are whole; a fraction never lets a request pass or a bucket be found full.
The same type serves the REST and the stricter auth routes; an instance of the model is one
of them. `elapsed, passed, strays, sweeps` are a window that is opened at any moment,
so `RateBound` is about every interval and not only about the whole run.

## 3. Runs

| Run | Instance | Shows |
|---|---|---|
| `failures` | 1 player, 2 connections, 2 rounds, a crash with recovery, a failing call anywhere | types (no negative balance), `OneStakeOneCredit`, `StatusMatchesMoney`, `BalanceIsLedger`, `LedgerChains`, `RecordedPayoutWasPaid`, `BetStatusOrder`, `RecoveryClearsPending`, `RefinesStakeBook` |
| `progress` | 1 player, 1 connection, 2 rounds, stop at any time, crash and failure, fair | `StopCompletesRound`, `RoundStatusOrder`, `RunningRoundCrashes`, `CountedBetIsSettled`, `RestartResolvesBets` |
| `wallet` | 1 order, 2 goroutines, 2 repeats/adjustments/bets, 1 failure | `FinishedWasCredited`, `BooksBalance`, `FinishedIsClosed`, `PaidOrderIsCredited` |
| `hub` | 2 connections, channels of 1, queue of 1, 2 events | `NoEventSkipped`, `SyncCoversTheGap`, `HubClosesOnce`, `ConnectionEnds`, `EveryEventArrives` |
| `sessions` | 2 users who want one name, 1 ticket, 2 request goroutines, 4 requests, 1 failure of the cleanup or exit, fair | `NamesAreUnique`, `SessionsAreKept`, `RivalsShareATicket`, `BannedStaysOut`, `ExpiredDocumentsGo` |
| `rate_limiter` | 2 addresses, 2 requests, 3 buckets of 2, fair | `RateBound`, `IdleBucketsGo` |
| `fair_play` | 26 hashes, word of 256, 2 rounds, 2 failures | `InstantIffDivisible`, `HouseProfitable`, `ChainUnbroken`, `SeedsStartSecret` |

The passing runs have between 76,000 and 1,150,000 distinct states and are
exhaustive. Five more runs each refute one thing the code or its documents say:

| Run | Refuted | What happens |
|---|---|---|
| `paid_then_lost` | `PaidBetIsNotLost` | `settleBets` reads a bet as pending, a cash-out pays it, and the bulk update, which filters on `_id` only, marks it lost. The money is right, the document is wrong. |
| `credited_twice` | `CreditedOnce` | Two overlapping deliveries of one report both pass the status check and both credit. |
| `hub_panic` | `NobodyPanics` | The hub closes a slow client's channel; the client's reader or game_sync sends on it. `select` with `default` does not protect from that. |
| `ticket_twice` | `TicketOpensOnce` | Two validations look a ticket up before either marks it used; both open a connection. `RivalsShareATicket` says that this is all: nobody who comes after the mark gets in. |
| `unverifiable` | `PublishedRoundVerifies` | A crash point such as 1.13 is stored as 1.12, and verification of the published round fails. About 7% of the rounds. |

The largest draw contradicts the comment of `GenerateCrashPoint`, which is refuted by a
theorem instead of a run (`FairPlayProofs!OneDrawContradictsTheComment`): raw = 2^32 / (h+1)
(`crash_algorithm.go:24`) gives 1.00, lifted to 1.01, for h = 2^32 - 1, but h+1 is computed in
`uint32` (`:57`), wraps to zero and gives an infinite quotient, which is cut to the cap. For
every other draw the code does what the comment says. `HouseProfitable` shows
what this one draw costs.

Seen, with no run of its own: the first two contradict a comment and a document, the others
none, or they lie outside the models:

- A restart breaks the pre-commitment of `phases.go:156` and `:173` for one round: the seed
  announced by the last `round_crash` is held in memory only (`:161`), and the first round after a
  restart uses another. `ChainUnbroken` states this exception and holds for every other round.
- The documented 60 and 5 requests a minute (`src/README.md:336`) are the rate and also the
  burst of a bucket; `RateBound` is the rate plus the burst, so a minute that begins with a full
  bucket may let up to twice as many through.
- A bet checked in the grace window may commit after an early crash has been
  settled, and then stays pending until a restart refunds it
  (`CountedBetIsSettled` is therefore about bets in the database while the round flies).
- Between `UpdateRunning` and the first tick the multiplier in memory is the previous
  round's, and `CashOut` pays it (`game_service.go:167`). The model does this; the
  books agree all the same (`BalanceIsLedger`).
- A round that cannot be saved makes the engine fly the old one again, with its crash
  point revealed (`phases.go:26`). `RoundStatusOrder` therefore holds until a call
  fails; in `fair_play` the announced seed is still the next one used.
- A cleanup that forgets a bucket between a request's lookup and its `Allow` lets
  that one request pass beyond the rate; `strays` counts them.
- `Intn` panics when both tick bounds are configured equal (`phases.go:203`).
- The REST verification hashes the seed it is given and compares it with itself, so
  its commitment step never fails (`controllers/game_controller.go:68`).
- A `game_sync` read before newer events were broadcast may be sent after them, and
  its multiplier stops at 20 (`hub.go:194`, `helpers.go:21`).

### Bounds

- Two rounds: what is stale or left over from a round shows in the next. Two
  connections of one player in `failures`: her requests overlap, and the hub deletes the
  mutex of one while the other holds it (`Disconnect`). They differ in nothing but their
  name, so the run is reduced by their symmetry; it has safety properties only. `progress` has
  one connection, for liveness needs the whole graph at once and forbids the symmetry.
- One player: no step reads or writes the documents of two players except the bulk settlement
  and the recovery, one document per step, and the sums of a round. The safety
  properties are proved for any finite number of players; that a second player does not disturb
  liveness is not checked.
- One crash and one failed call: a crash at every step, followed by a whole
  recovery that may itself fail. Multipliers 1.13 (loses a hundredth) and 1.50, crash points
  1.50 and, in `progress`, 1.00. In `failures` amounts below, at and above both limits; an initial
  balance of 250 that pays for a bet of 100 or of 151 and not for both, which may overlap (a
  commit of the first round may be applied in the second); a cap that cuts some payouts.
- Wallet: one order is enough for its races; amounts below a cent, amounts
  that lose a cent and amounts that do not; an adjustment larger than the
  balance.
- Hub: channels of one message fill at once. One of the connections talks and may leave, the
  other only listens, so what one does to the other is seen.
- Sessions: four requests are a registration of each user, and the two uses of a
  ticket, or a login, a refresh and a logout; access tokens and tickets last for their own
  second and refresh tokens for one more, so within three seconds each of them is good,
  overdue and swept. One failure of the cleanup, or one exit.
- RateLimiter: a burst of 2 tells an empty, a partly filled and a full bucket apart; three
  buckets are one for each address and a forgotten one still held; windows of up
  to one token with one cleanup, opened again and again for ever.
- FairPlay: the draws are the ends of the range, those whose crash point loses a
  hundredth with their neighbours, and one in between, each with two last digits to
  make it divisible or not. `HouseProfitable` counts all 1024 hashes. The
  wrapped draw gives the players the cap over the word and the divisible hashes cost them their
  share: 8% (20 of 256) against 10% in the instance, which is closer than the code's 0.02% (10^6
  of 2^32) against 1%. With a cap of 90 the property would be false in the instance.

`CHECK_DEADLOCK FALSE` is in every cfg because the systems really stop: after a
graceful stop or the last round of the bound, when every report or request is handled,
when every connection is gone or the process has panicked, when the seeds of
the bound are used up.

### Fairness

- `CrashGame`: weak fairness of the engine goroutine (it never waits for
  players), of the clock closing the grace window, and of a supervisor starting the process again.
  None for players or operators. The leads-to properties start from states in which
  no further failure is to come.
- `Wallet`: weak fairness of each request goroutine; strong fairness of the
  redelivery of an unacknowledged final report, since the provider repeats it and
  the server starts a goroutine for each request, while the model's goroutines are few and may always be busy.
- `Hub`: weak fairness of the hub, each reader and each writer. Go's `select` picks
  at random; events are bounded, so weak fairness gives no more than that. Players
  need not send, peers need not close.
- `Sessions`: weak fairness of the cleanup goroutine and of a supervisor starting the
  process again; the cleanup's failures are bounded. None for requests, for administrators,
  for the clock, or for the expiry indexes: `ExpiredDocumentsGo` does without them.
- `RateLimiter`: weak fairness of the clock and of each step of the cleanup. None for
  requests: `IdleBucketsGo` is about an address that sends none any more.
- `FairPlay` has safety properties only.

## 4. Proofs

All by induction over `Init` and `[Next]_vars`, for any number of users,
connections, rounds, failures, restarts and any values that meet the named
`ASSUME`s of the module (all of them checked by TLC in every run).

| Theorem | States |
|---|---|
| `CrashGameProofs!Invariance`, `CoreTypes` | `[]IInv`; types, no negative balance |
| `StakesAreCreditedOnce` | `[]OneStakeOneCredit` |
| `BetsMatchLedger` | `[]StatusMatchesMoney` |
| `StatusesOnlyAdvance` | `BetStatusOrder` |
| `CrashGameProofs!CoreImplementsStakeBook` | `Spec => RefinesStakeBook` |
| `EngineProofs!RoundsOnlyAdvance`, `StopsBetweenRounds` | `RoundStatusOrder`, `[]StopCompletesRound` |
| `EngineProofs!RecoveryRefundsAll` | `RecoveryClearsPending` |
| `EngineProofs!LedgersChain`, `BalancesAreLedgers` | `[]LedgerChains`, `[]BalanceIsLedger` |
| `EngineProofs!PayoutsWerePaid`, `Types` | `[]RecordedPayoutWasPaid`, `[]TypeOK` of `CrashGame` |
| `WalletProofs!WalletTypes`, `FinishedIsCredited`, `FinishedStaysClosed` | types, `[]FinishedWasCredited`, `FinishedIsClosed` |
| `WalletProofs!BooksAlwaysBalance` | `[]BooksBalance` |
| `HubProofs!HubTypes`, `HubIsSafe`, `SyncsAreFresh` | types and capacities, `HubClosesOnce`, `[]SyncCoversTheGap` |
| `HubProofs!EventsInOrder` | `[]NoEventSkipped` |
| `SessionsProofs!SessionTypes`, `NamesStayUnique`, `SessionsStay` | types, `[]NamesAreUnique`, `[]SessionsAreKept` |
| `SessionsProofs!TicketsAreShared`, `BannedAreOut` | `[]RivalsShareATicket`, `BannedStaysOut` |
| `RateLimiterProofs!LimiterTypes`, `RateIsBounded` | types, `[]RateBound` |
| `FairPlayProofs!ChainHolds`, `SeedsAreSecret` | `ChainUnbroken`, `SeedsStartSecret` |
| `FairPlayProofs!Types`, `InstantCrashes` | types and limits, `[]InstantIffDivisible` |
| `FairPlayProofs!OneDrawContradictsTheComment` | the code follows its comment for every draw but the largest |

The inductive invariant of `CrashGame` is `CoreTypeOK /\ ControlInv /\ MoneyInv`.
`OneStakeOneCredit` alone is not inductive: a refund or a cash-out needs to know
that a pending bet has not been credited (`StatusMatchesMoney`), a settled bet
that was paid must still be told from one that was not
(`CashoutMarksPaid`: the cash-out multiplier survives being overwritten as lost),
recovery must only hold pending bets (`TodoOpen`) and this stays so because no
handler runs then (`NobodyServedInRecovery`), and a cash-out carries a positive
multiplier (`RequestsSound`). `SettledAfterCrash` gives the last disjunct of
`BetStatusOrder`. The refinement maps a bet to its stage (`StageOf`) and shows
one lemma for each of opening, paying, returning and keeping, and a stutter for
everything else.

`EngineProofs` adds `EngineInv`. The order of a round's statuses is a matter of
where the engine is: as long as no call has failed, the round at hand is waiting before
`UpdateRunning` and running after it, and no other round is open before the first
crash of the process (`RoundFlow`, with `RoundsInOrder` and `CurrentSaved` to know which round is at
hand). Recovery leaves nothing pending because what it still has to refund covers all that is
pending (`RefundsCover`) and no handler runs meanwhile. `LedgersChain` needs an
invariant per entry: an entry starts from the balance of the moment, since the only ones written from
an older read are refunds. `BalanceIsLedger` is inductive beside `IInv`: a transaction
changes a balance and appends the entry that says so in one step. `RecordedPayoutWasPaid`
needs `PaidInv`: what `settleBets` has added up is already in the ledgers while it waits
to be written (`TallyPaid`), what the ledgers say was won only grows (`PaidOutGrows`), and
the total is of distinct bets, each credited once, so it is at most the sum over all
players (`TotalWasPaid`).

`Wallet`: a goroutine that passed the guard carries the payment's owner and a positive amount
(`RequestInv`), and at `store` with a finished report the ledger already has the
deposit; ledgers only grow (`CreditedStays`). `FinishedIsClosed` then follows action
by action: a goroutine that is not past the guard only gets past it while the
payment is not finished, and every document it could append is of another order (`DepositsStay`).
`BooksBalance` holds at every step because a request that has credited and not yet recorded
is counted (`Unrecorded`, a sum over the goroutines).
`Hub`: registered clients and those still to be served have open channels,
because clients are added and removed only in the hub's select (`OpenInv`);
the capacity bounds need that what is queued has been counted (`Types`). A `game_sync`
is read by a goroutine that starts after the registration, so it has seen at
least what was broadcast until then (`SyncInv`).
`NoEventSkipped` needs the whole path of an event (`FlowInv`): the queue holds consecutive
numbers after those taken, and the hub has the last one taken in hand (`HubInv`); what a client
was sent is the stretch of events from its registration to the last one offered to it, rising through its socket
and then its channel (`Flow`, `InOrder`). A client is found too slow once it has had its turn, and
is out of the map before the next event is taken, so that stretch never has a hole.
`Sessions`: `TicketInv` counts, for a ticket marked once, the connections it opened and the
validations still under way: together they never exceed those that were past the check at
the first mark, because a used, or deleted, ticket admits no other. Tokens stay because
only expired ones are discarded (`DiscardsExpired`); time passing cannot undo that. The
ban is looked at last, so nobody banned all along is ever past it (`BarredAreBanned`).
`RateLimiter`: `RateBound` is proved with a potential: what the address's bucket holds (a
forgotten one counts as full), plus what has passed, plus the requests that hold a bucket no
longer in the map, never exceeds the burst, the time elapsed and the
strays (`Potential`). It needs that no two addresses share a bucket and that a
request only spends for its own address (`BucketsApart`).
`FairPlay`: until a restart the held seed is the announced one, and it serves no saved round
(`ChainInv`, `SecretInv`). The properties of the algorithm rest on `PointInv`: every stored
crash point is `ToX100(CrashPoint(hash))` of the hash stored with it. What is left is arithmetic:
the digit-by-digit remainder is that of the whole number, a prefix is at most
`AllOnes`, and the increment wraps for that one only.

The assumptions on constants are those of the code: finitely many users, requests and
goroutines at any time (`UsersAssumption`, `WorkersAssumption`), since sums over them are taken;
hashes at least as long as the prefix; a cap above 1.01 that converts exactly (`PointAssumption`; the cap of
the code is a whole number).

Sums and numbers made of digits are folds. An induction theorem with an operator as a parameter cannot
be instantiated, so `FoldTheorems` states induction for sets instead: a set of numbers that holds 0 and the successor of each
member holds them all (`SegmentInduction`), and a family of sets that holds each set
whose proper subsets it holds has every finite set (`FiniteInduction`). From these follow that a fold exists, that it is unique, and
that it takes one step when an element is added (`FollowsFold`, `LeftFoldFound`, `SumAppended`).

Every invariant and action property of the passing runs is proved but `HouseProfitable`, which
counts over all hashes of the instance. Model-checked only are, beside it, the leads-to properties (`RunningRoundCrashes`, `CountedBetIsSettled`,
`RestartResolvesBets`, `PaidOrderIsCredited`, `ConnectionEnds`, `EveryEventArrives`,
`ExpiredDocumentsGo`, `IdleBucketsGo`), for liveness and ENABLED are out of the proof
system's reach, and the refuted statements of the other five runs.

## 5. Not modelled

Passwords, JWT and webhook signatures (cryptography: a token is what was signed, a
forged one never gets as far as a call). REST controllers, routes and responses beyond the
service call each makes. The per-connection limiter of WebSocket messages (one bucket
without cleanup, refuses messages only), CORS and AdminOnly (no state). Configuration and database
set-up apart from the start order and the indexes. Statistics and history
queries, and the client seed of a profile (it only feeds the HMAC). The
panic path of `Engine.Start`, and two payments under one order id.

## 6. Plan

The order is by how much money depends on it.

1. Done: `StakeBook`, `CrashGame` with its runs, proofs and refinement; `EngineProofs`.
2. Done: `Wallet`, `Hub`, `FairPlay`, `Sessions`, `RateLimiter` with their runs and proofs.
3. Next, models: the panic path of `Engine.Start` in `CrashGame` (a flight that ends
   without `crashedPhase`); two payments under one order id in `Wallet`; an abstract
   broadcast channel that `Hub` implements (each client receives a contiguous stretch
   of the events and then is cut off), and an abstract ledger that `Wallet` implements.
4. Done: the proofs of the sums over ledgers, of the totals of a round, of the crash
   point and of the order of events.
5. Next, proofs: that the two abstract specifications of 3 are implemented, and how far the
   refuted statements hold: a payment is credited at most once for each goroutine that was past the guard, and only a
   sender of a dropped client panics.
