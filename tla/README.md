# AlphaEdge in TLA+

AlphaEdge is a paper-trading prediction market: a FastAPI backend over PostgreSQL in which
users and agents trade YES and NO shares through a central limit order book (CLOB),
administrators or workers settle markets, and forecasts, predictions and scanners follow the
markets of other venues.  This directory holds TLA+ models of the code that moves shares and money
and of the parts that hand on, cache, guard and schedule, the TLC instances that check them,
and TLAPS proofs of the invariants that matter most.  All paths below are under `src/backend/app/` unless they start with `src/`.

1. [The system](#1-the-system)
2. [What is hard](#2-what-is-hard)
3. [Modules](#3-modules)
4. [From code to model](#4-from-code-to-model)
5. [Runs and bounds](#5-runs-and-bounds)
6. [Fairness](#6-fairness)
7. [Where the code departs from what is written about it](#7-where-the-code-departs-from-what-is-written-about-it)
8. [Proofs](#8-proofs)
9. [Not modelled](#9-not-modelled)
10. [Plan](#10-plan)

## 1. The system

| Part | State it keeps | Operations | Talks to | Modelled |
|---|---|---|---|---|
| **Order routes** `api/v1/routes.py` | a session per request, with the `Market` and `Account` objects it has read | `place_order`, `cancel_order` | order service, database session | `Clob` |
| **Order service** `services/order_book_service.py` | rows of `orders`, `fills`, `positions`; a book hydrated per request | `submit_order`, `cancel_order`, `_record_fill` | matching engine, ledger, event bus | `Clob` |
| **Matching engine** `market/order_book.py` | sorted entry lists, a sequence counter | `add_limit`, `add_market`, `quote_market`, `cancel` | nobody: a pure data structure | `OrderBook` |
| **Ledger** `services/ledger_service.py` | `accounts.cash_balance`, ledger rows | `credit`, `debit`, `get_account` | rows shared by trading and settlement | `Clob`, `Settlement` |
| **Database session** `db/session.py` | one transaction | commit at the end of the handler, rollback on any exception | every route | in every module with sessions |
| **Order-expiry worker** `workers/order_expiry.py` | none of its own | cancel a batch of lapsed orders | order service; run by ARQ (`workers/tasks.py`) and by a minute loop in `main.py` | `Clob` |
| **Pods, heartbeat** `pods/runner.py`, `services/heartbeat_manager.py` | budgets, halts | orders inside one long transaction that swallows errors | order service, ledger | passes of pods in `PodRunner`, sessions of both in `Clob` |
| **Market lifecycle** `services/market_service.py` | `markets.status`, `winning_outcome` | lock, pause, unpause, cancel, resolve | settlement, caches | `Settlement`, `Clob`, `MarketsCache` |
| **Settlement** `services/settlement_service.py` | positions, ledger rows, `market_resolutions` | `settle_market` | ledger; called by `api/v1/admin_markets.py`, `market_service.resolve_market`, `wc2026_resolver.py`, `catalog_market_resolver.py` | `Settlement` |
| **Paper ledger** `api/v1/orders.py`, `services/paper_position_service.py` | JWT users' balances, paper orders, FIFO lots | buy, close | settlement closes its lots | `PaperTrading` |
| **Event bus, broadcast, sockets** `core/event_bus.py`, `core/broadcast.py`, `api/v1/ws.py` | a bounded queue per subscriber and topic | publish, subscribe, `/feed`, `/prices` | order service announces fills, streams publish ticks | `FanOut` |
| **List cache** `core/markets_cache.py` | a TTL map in each process | get, put, invalidate | list route, market lifecycle | `MarketsCache` |
| **Rate limit** `core/ratelimit.py` | fixed windows in each process | `check_and_increment` | middleware of mutating requests | `RateLimit` |
| **Resilience** `core/resilience.py`, `data/connectors/http.py` | failure counts, open-until times | check, record, retry | venue readers, model calls | `Breaker` |
| **Market streams** `data/streams/` | connection state, backoff | connect, read, reconnect | venues, price ticks | `Streams` |
| **Forecast arena** `services/forecast_service.py`, `workers/forecast_autolock.py`, `services/external_market_*.py`, `services/scoring_service.py` | forecasts, scores, external markets | lock, autolock, resolve, score | venues | `ForecastArena` |
| **Prediction writer** `services/prediction_writer.py` | `prediction_logs` | `write_predictions` from a loop, a cron and a boot catch-up | predictor, markets | `PredictionWriter` |
| **Scanner Studio** `services/scanner_*.py`, `api/v1/scanners.py` | scanner row, versions, runs, alerts | edit, roll back, test, publish, run, pause | scheduler, alert feed | `Scanners` |
| **Ingestion, models, agents, analytics, clients** | market metadata, scores | read venues, models and histories | catalogue and read models | no (section 9) |

Requests, workers and loops run side by side, in several processes.  On what the database holds,
**PostgreSQL under READ COMMITTED and its row locks are all that orders them**: a plain `SELECT`
sees what was committed when it ran, a `SELECT ... FOR UPDATE` or an `UPDATE` waits for the lock
on its row, and a handler's transaction commits only when it returns.  Queues, caches, windows and
breakers live in one process; the event loop runs one coroutine between two `await`s, except
for the HTTP client, whose callers are threads.

What makes each modelled part correct:

- *Matching engine*: the book is never crossed, no quantity is lost or invented, a quote is
  what a market order then gets, and orders trade in price-time priority.
- *Order service*: no order is over-filled, no account is overdrawn, fills explain the filled
  quantities and the balances (and should explain the positions), a filled order is final (and a
  cancelled one should be), a retried submission is answered with one order; on orders, fills
  and cash, concurrent requests look as if they ran one at a time.
- *Expiry*: an order past its date leaves the book, whoever held its lock when the sweep came.
- *Settlement*: nobody is paid twice, the ledger explains the balances, one verdict decides
  every payout; a resolved market should be settled completely.
- *Paper ledger*: no share is sold or paid twice, what is held is what was bought last, orders
  and payouts explain the balance, a key makes one order.
- *Fan-out*: each subscriber is given messages in order, and every one that is lost is counted;
  a client of `/prices` that has read everything shows the newest price.
- *List cache*: a change whose session clears the cache is visible at once, outside two races.  The resolver
  and ingest loops of the API process clear nothing: their changes wait for the TTL (section 7).
- *Rate limit*: never twice the limit within the length of a window; who waits as told is admitted.
- *Breaker*: shut exactly while its upstream fails.
- *Streams*: after outages the stream is connected again.
- *Forecast arena*: timely locks are scored, once; the model never forecasts what is known; the locks
  of a forecaster are a chain of changing beliefs; nothing locked after the recorded
  resolution time should be scored.
- *Prediction writer*: one prediction of a market per window.
- *Scanners*: an alarm is earned by three failures; what is published should have been tested.
- *All that lock rows*: whatever a session waits for, it ends.

## 2. What is hard

`PROJECT.json` lists each hazard at its line.  They fall into a few groups.

- **Stale objects.**  SQLAlchemy's session holds rows weakly: a row the handler keeps in a local
  variable (`market` and `account` in `place_order`) stays as first read, and `SELECT ... FOR
  UPDATE` does not refresh it; a row it has let go of is read again.  A commit writes the columns
  whose value the handler changed, whatever they hold by then.
- **Private books.**  Each request hydrates a book from the table, matches in memory, then
  locks the orders it matched.  Between the two, others fill, cancel or expire these orders.
- **Absolute writes.**  A position is read without a lock and written back as a number.
- **Opposed lock orders.**  A request locks its own account, then orders, positions and the
  counterparty's account; two requests that trade against each other's orders wait in a cycle.  So
  do two closes of one paper position, and a close and a settlement.
- **Check, then wait, then write.**  Settlement, the admin operations, the forecast resolvers and the
  publish gate judge a status on a plain read and write it later.
- **Partial failure.**  The catalog worker, pod passes and heartbeat passes catch what one market
  or order raised and commit the rest.
- **Retries and crashes.**  A lost answer is retried with the same Idempotency-Key, and a
  transaction may be lost between any two statements.
- **Bounded memory.**  Queues drop at one end or the other, the list cache empties itself, a full
  window map lets new keys through uncounted, a backoff overflows before it is capped.
- **Passes that overlap.**  Autolock, resolver, prediction and scanner passes run from a loop, a
  cron and requests, in several processes; some rely on row locks, some on nothing.

## 3. Modules

```
MatchingEngine              operators: sorting, crossing, the matching loop, quoting
  |- OrderBook              one book as a state machine   --refines-->  PriceTimeBook
  '- Clob                   requests over the database, statement by statement
       '- ClobProperties    invariants, actions, liveness --refines-->  AtomicExchange
            |- MCClob       instances
            '- ClobProofs -- ClobLedgerProofs   theorems

Settlement                  settling sessions, fills and admins over the database
  '- SettlementProperties                                 --refines-->  AtomicSettlement
       |- MCSettlement -- MCSettlementRace                instances
       '- SettlementProofs  theorems

PaperTrading                buys, closes and settlements of the JWT ledger
  '- PaperTradingProperties
       '- MCPaperTrading ---+                             instances
Streams  -------------------+-- MCPaperStreams -- PaperTradingProofs   theorems

OrderBook   FanOut   MarketsCache   RateLimit   ForecastArena   Breaker
PredictionWriter   Scanners   PodRunner
  |- BookProofs, PassProofs theorems
  |- MCBackend              the nine of them, one at a time
  |    '- CoreProofs        theorems, of four parts and of the composition
  '- MCForecast             an instance of ForecastArena

DataLemmas                  facts about numbers, sums, folds and runs that the proofs share
```

| Module | Models |
|---|---|
| `MatchingEngine` | the pure part of `market/order_book.py`: `insert` keys, the two loops of `add_limit` and `add_market`, `quote_market`, `cancel` |
| `OrderBook` | a book that receives any sequence of these calls, with the history its properties need |
| `PriceTimeBook` | *abstract*: a set of resting orders; a taker always trades with the best-priced, and among these the oldest |
| `Clob` | `place_order`, `cancel_order`, `submit_order`, `_record_fill`, `LedgerService`, the expiry worker, pauses, lost requests, deadlock victims, sessions of pods and heartbeats |
| `ClobProperties` | what `Clob` guarantees, and what is said of it that it does not |
| `AtomicExchange` | *abstract*: an order arrives and trades with orders of the other side in one indivisible step; cancels are indivisible too |
| `Settlement` | `settle_market` and its callers, next to a fill and the admin's status changes |
| `SettlementProperties` | the same division for settlement |
| `AtomicSettlement` | *abstract*: once, at one moment, every share pays what one verdict makes it worth, or nothing happens |
| `PaperTrading` | the buy and close routes, `fifo_open_position`, `_settle_paper_orders`, row lock by row lock |
| `PaperTradingProperties` | what paper trading guarantees, and what it does not |
| `FanOut` | `EventBus`, `BroadcastHub` and the handlers of `/feed` and `/prices`, from `await` to `await` |
| `MarketsCache` | the list cache, its readers, and the sessions that clear it before they commit |
| `RateLimit` | `check_and_increment` and the `Retry-After` of the middleware |
| `Breaker` | `CircuitBreaker`, and the health row and retry loop of `JsonConnectorClient` |
| `Streams` | the reconnecting loop of `MarketStream`, the loops that build and restart it |
| `ForecastArena` | one external market: users' locks, autolock passes, both resolvers, scoring |
| `PredictionWriter` | passes of `write_predictions` with the process lock and the skipped row locks |
| `PodRunner` | passes of one pod over its markets: the key of an entry, its unique index, the account's lock, swallowed failures, one commit |
| `Scanners` | one scanner: edits, rollbacks, tests, the publish gate, runs and the dead letter |
| `MC...` | instances for TLC; `MCBackend` holds components that share no state, and a behaviour moves one of them |
| `...Proofs` | inductive invariants and theorems: `ClobProofs` and `ClobLedgerProofs`; `SettlementProofs`; `PaperTradingProofs`, also for `Streams` and their composition `MCPaperStreams`; `BookProofs` for `OrderBook` and `PriceTimeBook`; `CoreProofs` for `FanOut`, `MarketsCache`, `RateLimit`, `Breaker`, and for the composition in `MCBackend`; `PassProofs` for `PredictionWriter`, `PodRunner`, `Scanners` and `ForecastArena` |
| `DataLemmas` | induction over the naturals as a fact about sets, sums and folds, sequences of states |

A definition whose comment begins with *Mutant* is a plausible mistake in the definition that
follows it; it is not used.  `PROJECT.json` pairs each with a property that fails when it
replaces the definition, which shows that the property depends on the code.

## 4. From code to model

**Rows.**  For each written table, `x` holds the committed rows (`cash`, `pos`, `orders`, `mkt`),
`xW` the version written by the transaction that holds the row's lock, and `xBy` that
transaction.  A plain read sees `x`, or `xW` for a transaction's own writes; a locking statement
is enabled when `xBy` is `None`; `CommitRows` makes the `xW` of a transaction the `x`,
`RollbackRows` throws them away.  Locals of a handler are fields of `tx[t]`; `tx[t].pc` is its
next statement.  One action is one statement, or a run of statements between which no step of
another transaction can make a difference.

**A submission** (`Clob`):

| `pc` | Action | Code |
|---|---|---|
| `idle` | `Arrive`: market status, expiry; keeps `cashSeen` | `routes.py` `place_order` up to the call |
| `price` | `Price`: lookup by key, expiry again, quote for a market order, shares and open sells for a sell | `submit_order`, first part |
| `reserve` | `Reserve`: locks the account, compares the *kept* balance with the reservations and the need | `_reserve_cash` |
| `insert` | `Insert`: limit orders hydrate here; unique (account, key) | `submit_order`: the insert; on `IntegrityError`, `session.rollback()` and the winner of the key |
| `match` | `LockOrders`: next match of the private book, both orders locked, quantity cut to what is left; `Commit` when nothing is left to match | `_record_fill` head; end of `submit_order`; `get_db` |
| `buyer`, `buyerRow`, `buyerPost` and the same for the seller | `ReadPosition`, `CreatePosition`, `Post` | `_get_or_create_position`, `LedgerService`, `_apply_fill_to_position`, `_advance_order_fill_state` |
| any | `Crash`, `DeadlockVictim` | dropped connection; PostgreSQL |

A cancel is `ArriveCancel`, `CancelOrder`, `CommitCancel`; the worker `SweepExpired`,
`CommitSweep`; an admin `TogglePause`; `TimePasses` lets the good-till-date orders lapse.

**A settlement** (`Settlement`): `Begin` (the caller's and the service's status checks), `ClaimMarket`
(the UPDATE of the market), `ReadPositions`, `ReadEntries` (accounts already in the ledger), then per
position `Skip` or `Claim` (the conditional UPDATE) and `Pay` (credit, or debit that may raise),
`ReadResolution`, `InsertResolution`, `Commit`.  An error ends in `Abort`, which depends on the
caller: an admin's session rolls back, the catalog worker's does not and commits what was done.
`StartTrade` to `CommitTrade` are the fill of the order service reduced to the rows settlement
shares with it: per leg `ReadShares`, `PostCash` (the ledger's UPDATE of the account) and `WriteShares`
(the flush of the position).  A settlement takes the position first and the account second, so the two can wait
for each other over one account; TLC reaches that state, and `DeadlockVictim` ends it.  `ClerkReads` and `ClerkWrites` are pause, unpause and cancel.

A pod or heartbeat pass is a request in `Passes`: a refused debit ends in `Swallow` and
`CommitSwallowed`, because such a pass logs what `submit_order` raised and commits the rest.

**A paper trade** (`PaperTrading`): `Begin` (the market and its resolution, read once), `Lookup` (the key),
then for a buy `Debit` (the guarded UPDATE) and for a close `SelectForUpdate`, `LockRow` per row,
`ReadPosition` under the locks and `Credit`; `Insert` (the unique key; the IntegrityError path rolls
back and replays) and `Commit`.  A settlement is `SettleBegin`, `ClaimMarket`, `ReadOrders` (no locks),
`FlagRow` per order, `CreditUser`, `CommitSettlement`.  Rows are indexed by their age; a session
locks rows in any order, since neither statement fixes one, and `DeadlockVictim` breaks cycles.
A buy locks the user row before it inserts, a close locks it after its order rows.

**Fan-out** (`FanOut`): `Publish` puts a message in every subscriber's queue (`Delivered` holds the two
overflow policies); `StoreSnapshots` commits ticks; `ConnectFeed`, `Wake` (`asyncio.wait` returns with
the set of completed getters), `SentNext` and `SentLast` (one `send_json` each, the getter re-armed),
`KeepAlive` are `/feed`; `ReadSnapshot`, `Subscribe`, `TakeTick` are `/prices`; `Disconnect` either.  An
action is what runs between two `await`s.  `Resume` is the event loop completing a getter.

**List cache** (`MarketsCache`): `Miss`, `ReadRows`, `Put` are a list request; `Change` is a market changed,
flushed and the cache cleared, `CommitChange` and `RollbackChange` what its session does later.
`CommitSilently` is a session that changes market rows and clears nothing: in the API process the loops that
resolve (`catalog_market_resolver.py`, `wc2026_resolver.py`, which call `settle_market` directly) and ingest
(`live_market_ingest.py`), and everything in another process.

**Rate limit** (`RateLimit`): one action per `return` of `check_and_increment`: `Refuse`, `Count`,
`OpenWindow`, `LetThrough` (a full map).  Time is counted in fractions of a second, because the
`Retry-After` is rounded to whole ones.

**Forecast arena** (`ForecastArena`): a user's lock is `SeeMarket`, `Decline` or `StampLock`, `ShareMarket`
(the foreign key of the snapshot row), `InsertLock` or `InsertFails`, `CommitLock`.  An autolock pass is
`Select`, `LockRow` or `SkipRow`, `LookAtVenue`, `FindModelLock` or `StampModel`, `InsertModel` or
`LoseEligibility`, `CommitPass`.  A resolver is `AdminResolves`, or `WorkerSelects` and `WorkerFetches`; then
`UpdateMarket`, `StampResolution`, `ScoreMarket`, `CommitResolution`.  Each kind has its `Lose...`.

**Breaker** (`Breaker`): `gate` chooses the class.  A `CircuitBreaker` uses `Enter`, `EnterLapsed`, `Succeed`,
`Fail`; a client's threads switch between `Peek` and `Probe` or `TurnAway`, and between
`CountFailure`, `Judge` and `OpenGate`, because the health row is shared without a lock.

**Prediction writer** (`PredictionWriter`): `StartRun` (the process lock, and `now`), `SelectMarkets`
(`FOR UPDATE SKIP LOCKED`), `Predict`, `CommitRun` or `FailRun`; `ChangeStatus` is anyone who pauses or
reopens a market.

**Pod passes** (`PodRunner`): for each market `PassOver` (nothing recorded), `HoldMarket` (`record_score`, and no
order) or `DecideEntry` (the count of entries becomes the key); then `submit_order` as `LookUpKey`,
`ReserveFunds` (the account's lock) and `InsertOrder`, whose IntegrityError path rolls back the whole pass and
leaves it with expired objects, on which every market that follows fails; `EnterTrade` is the fee and the
update of the trade row, `SwallowFailure` the `except` of the loop, `CommitPodPass` the one commit,
`LosePodPass` a pass that dies.  Keys and accounts are a pod's own, so one pod is enough.

**Streams** (`Streams`): `ReadMapping`, `ReadFails`, `LookAgain` (`runner.py`), `Connect`, `SessionFails`,
`DelayOver` (`base.py`), `Restart` and `Cancel` (`main.py`), `Mirror` and `Outage` (the world).

**Scanners** (`Scanners`): every request and pass begins with `LoadScanner` and works on the object it
loaded.  `PrepareEdit` and `PrepareRollback` archive, `SaveSpec` commits; `StartScan`, `FinishScan`, `EndScan`
are a run, its verdict on the last three, and its commit; `PassGate` and `PublishScanner` are the
gate and the commit of a publication; `SetStatus` is pause and resume.  `Written` is what a commit
does to a column: it is written only if the handler gave it another value.

**What is abstracted.**

- One market and one outcome.  YES and NO are copies of one another on columns of their own,
  in the book, the positions and the payout.  Likewise one external market and one scanner.
- Prices and money are integers in ticks; `Unit` ticks are the `Decimal("1")` a winning share pays.
- `created_at` is a counter of transactions begun (`clock`); orders of one instant do not tie.
- `lock_at` is folded into the status a request sees on arrival: `LOCKED` stands for both.
- Foreign-key share locks are left out of the trading modules: a request that would wait for one
  waits one statement later for the same row.  `ForecastArena` has the one that matters there.
- `Clob` posts a leg's cash and writes its position in one step.  Whoever has written a position there has
  its account locked since, so the second of the two never waits; the one lock on a position without its account is
  that of a row being created, `CreatePosition`, a step of its own.  With settlements this is no longer so, and `Settlement` has two steps.
- One sweeper.  The ARQ job and its mirror in `main.py` never hold the same row, because both
  skip locked rows, and the loss of a sweep is a sweep that has not happened.
- In `Settlement` all shares were and are traded at one `Price`, so a void, which returns each
  position's average entry price, returns that; every account has a position row.
- `avg_cost`, `domain_events` rows, job runs, inbox messages, `_remember_seed_resolution` and
  logging are left out; they feed no decision modelled here.
- A pass of pods or heartbeats is one order in `Clob`; in `PodRunner` it has several, whose matching is left
  out.  Strategies, sizing and exposure caps choose the order's body; the fee, debited after the fill, is
  one more debit that may be refused.
- Messages are numbers and, for ticks, a slug; a connection that drops is replaced by a new one.
- A forecast's probability is kept to one decimal of what is asked (`Kept`); scores are the fact
  that a forecast was scored and with which outcome.
- Whether a scanner is due is left open, so that a pass may run an active scanner at any time;
  a run's steps are its result.
- Some fields record what the code does not: `raced` and `cleared` in the cache, `dropped` of a socket (the
  hub only logs what it drops, `broadcast.py:42-43`), `known`, `blind` and `tardy` of a
  forecast, `recent` of a breaker, `admitted` of a key, the `spec` a scanner run executed, `published`
  fills.  No guard reads them.

## 5. Runs and bounds

| Run | Instance | Shows |
|---|---|---|
| `backend_parts` | nine components, one per behaviour; 637 668 states | see below |
| `clob_race` | accounts A, B, C with 9, 4, 4 ticks; 3 symmetric requests; A rests 2@1 (good-till-date) and 2@2; the requests are a limit buy of 2@2 by B, a buy of 1@1 by A itself, both under one key, a market buy of 3 by C, and cancels of A's orders; one crash; sweeps of one order; 350 720 states | `NoOverfill`, `CashNeverNegative`, `FillsExplainOrders`, `FillsExplainCash`, `KeyAnsweredOnce`, `FilledIsFinal`, and the refinement `Serializable` |
| `clob_cross` | two accounts, each of which may take the other's resting order and deadlock; one request is a pass that commits a half-posted fill; A cannot pay for both its buys; good-till-date orders, one cancellable order, two pauses; 7 629 states | `EveryRequestEnds`, `LapsedOrdersLeave` |
| `settlement_race` | an admin with any outcome, the worker (YES) and direct callers (VOID): three of them, or two next to a fill and a clerk; one crash; a short account that can just pay; 103 836 states | `PaidOnce`, `EntriesExplainCash`, the refinement `SettlesAtOnce`, `EverySessionEnds` |
| `paper_streams` | paper: one user with 1@1, 1@2 and 2 ticks, two requests (buys at 2 with a key and without, closes of both shares), two voiding settlements, one crash, 41 729 states; stream: two listings, outages of venue and database, an overflow at the third failure, 736 states | `NeverOversold` (as long as closes find a row to lock), `OrdersExplainBalance`, `KeyAnsweredOnce`, `SettledOnce`, `HoldsNewestShares`, `EveryRequestEnds`, `StreamComesBack`; 42 465 states in all |
| `clob_cancelled`, `clob_positions`, `clob_orphan`, `settlement_half`, `paper_oversold`, `forecast_hindsight`, `scanner_untested` | the smallest instances that show it | section 7 |

The parts of `backend_parts`:

| Part | Instance | States | Shows |
|---|---|---|---|
| book | 4 orders, prices 1..3, quantities to 2 | 32 134 | `QuantityConserved`, `QuoteIsExact`, refinement `PriceTimePriority` of the sorted lists and loops, which implies that the book is never crossed |
| sockets | one connection to either endpoint; 4 ticks against a bus queue of 2, 2 briefs against a hub queue of 1 | 39 647 | `FeedInOrder`, `EveryMessageAccounted`, `PricesAreCurrent` |
| cache | 2 readers, 2 changes; 3 keys of which 2 fit and one writer, or 2 keys and 2 writers | 198 526 | `ClearedChangesShow` |
| limit | 2 keys for one window of 2 s in thirds, 2 requests each | 1 403 | `NeverTwiceTheLimit`, `WaitIsEnough` |
| arena | crews of 2 or 3: two users; two passes and a resolver; a user, a pass and a resolver; a user or a pass and two resolvers | 145 703 | `OnTimeLocksAreScored`, `NoModelHindsight`, `BeliefsAreAChain` |
| breaker | 3 callers of either gate, shut by 3 failures for 2 steps, 2 attempts | 11 784 | `ShutExactlyWhileFailing` |
| writer | 2 passes of one process or of two, 2 markets of which a pass takes one, a window of 1 in 2 | 70 468 | `OncePerWindow` |
| scanner | 2 symmetric sessions; edits, rollbacks, tests and publications next to one run, or up to 4 runs of users, passes and tests next to pauses and resumes | 94 115 | `AlarmsAreEarned` |
| pods | 2 passes over two markets, of which the first has 2 trade rows and the second 1 | 43 888 | `OrdersHaveEntries` |

`PartTypesOK`, `LiveTypeOK` and `TypeOK` are the type invariants, with the sizes of queues, maps and
quotas, the holders of locks, and (paper trading) balances that are never negative.

*Why the bounds are enough.*  The trading protocols have no cycle longer than two transactions and a
maker row: over-filling needs two takers and one maker, and the third request of `clob_race`
adds a cancel or a taker that sees the first two.  Two makers at two prices are the fewest with which a
taker's stale book has a second choice, sweeping one order at a time makes the sweep come back,
and B's and C's cash covers either order but not everything at the worse price, so that the
guard of the ledger refuses some.  Four orders are two resting orders of one level, a better
or worse one and a taker.  Two settlements suffice to disagree; being paid twice takes three,
because the UPDATE of the market row keeps two settlements apart: the worker leaves a half-settled
market, and two direct calls, which find it `RESOLVED` and never wait for that row, race for the rest.  Quantities reach 3
because a market order must be able to take one maker completely and another in part.  Two
closes of both shares are the fewest that could sell a share twice, and two buys with the cash
for one the fewest that could overdraw.  Queues of two and one overflow with one message
in the getter, one in the handler, and one behind.  One key more than fits empties the cache or fills the window
map.  The arena's crews hold every pair of actors that touch the same rows and a third that
may come between.  Three callers can have counted three failures before one of them
opens the gate.  Two passes, one of them late with its clock, and a third later one of the same
run are what a double write needs.  Four runs can raise two alarms.  Two trade rows of a market are the fewest for
an order whose entry failed and the pass that finds it by its key, or for two passes that share one.

Symmetry is used in safety runs only, and over sets whose members are interchangeable; in
`settlement_race`, where liveness is checked too, sessions begin in the order of their names instead.

*Bounds of the model*, all enforced in guards or types: `MaxQty` (quantity of an order),
`MaxPauses`, `MaxCrashes`, `MaxPublished` (messages per topic), `MaxChanges` (commits of the market table),
`MaxTime`, `MaxSeq` (locks of a forecaster), `LastTick`, `MaxSaves`, `MaxRuns`; each trading request and settlement
session runs once, each admin acts once; forecasters, passes, readers and editors come back.
`MaxExponent` stands for 1024.  Counters of the breaker and of the window's age stop where nothing compares
them any more.

Deadlock checking is on.  `Quiet` and `Resting` are the only steps of a system in which
everything has ended, so TLC would report a set of transactions that wait forever.

## 6. Fairness

Safety needs none.  The liveness runs use weak fairness of what the code's own scheduling runs:

- `Fairness` of `Clob`: every statement of a request (`Step`), the sweep and its commit.  The event loop
  resumes a coroutine whose result is there; PostgreSQL hands a released lock to a waiter, and its
  detector aborts a transaction of each waiting cycle (`deadlock_timeout`); the cron job and the
  minute loop come back.
- `Fairness` of `Settlement` and `PaperFairness`: every statement of a session that has begun, for the same reasons.
- `StreamFairness`: reading the mapping ends with an answer or an error, connecting or a session on a
  dead connection ends (the socket's timeouts and the heartbeat), the backoff's sleep and the guard's
  thirty seconds end.  That outages end is a premise of `StreamComesBack`, not an assumption.

Weak fairness is enough because a lock that a waiter needs is released for good once its holders
have ended: every request runs once.  Nothing obliges a client to arrive, an admin to act, time to
pass or a process to crash.

## 7. Where the code departs from what is written about it

Seven runs each check one statement of the repository that the code does not meet; TLC's
counterexample is the scenario.  Lines are quoted in `PROJECT.json` under `findings`.

- `clob_cancelled` (`CancelledStaysCancelled`).  A taker hydrates its book; the owner cancels the
  maker, and is told so; `_record_fill` caps the match by the remaining quantity and never looks
  at the status, so the cancelled order trades and is `PARTIAL` or `FILLED` again.
- `clob_positions` (`FillsExplainPositions`).  Two fills read a position before either commits;
  the second absolute write loses the shares of the first.  Cash is right, since `LedgerService`
  uses a relative UPDATE.
- `clob_orphan` (`FillsReconcile`).  A pass buys what another request of its account has meanwhile spent the cash
  for.  The ledger refuses the debit after the `Fill` row was flushed and before either order advanced; the
  pass catches that and commits: a fill that no filled quantity, cash or share accounts for.  (The run
  has a limit buy; pods and heartbeats swallow errors alike.)
- `settlement_half` (`ResolvedMeansSettled`).  A short position that cannot be paid raises in the
  middle of the settlement; the catalog worker catches it and commits the rest.
- `paper_oversold` (`OpenOrdersNeverOversell`).  A settlement reads the unsettled orders; a close
  that checked the resolution before commits its sale; the settlement pays the bought shares in full
  and leaves the sale unsettled, with nothing to sell.
- `forecast_hindsight` (`ScoredBeforeResolution`).  The worker selected the market before an admin resolved
  it; its UPDATE overwrites the resolution time with the close, and forecasts locked after
  the close keep the scores they got from the admin's.
- `scanner_untested` (`PublishedWasTested`).  A rollback sets the version number back and the next edit
  counts on from there: the publish gate takes the test of one spec for the test of
  another that has its number, and the archive keeps only the first.

Met while modelling.  On trading and settlement:

- The balance compared under the account lock is the one read on arrival; another submission of
  the account may have spent it.  `CashNeverNegative` still holds, thanks to the guarded
  debit: the order is accepted, and its fill fails later.
- Two settlements read the status before either commits; the second waits for the market row and
  overwrites the winner, while payouts and audit row keep the first verdict.  An admin who read
  `OPEN` before a settlement committed makes the resolved market tradable again.
- Fills go on for a request that passed the status check before a pause (`services/market_service.py:165`
  says trading is stopped); the absolute write of a racing fill gives a settled position
  shares again.
- A retry after the market closed is refused, as the status check comes before the lookup by key;
  `src/docs/api.md:121` names a risk validation that `place_order` does not do, and line 126 a
  conflict for partly filled orders that `cancel_order` cancels.
- Fills are announced before they are committed (`order_book_service.py:478`); hydration discards
  the matches of crossed resting orders, so that both vanish from the book.
- Overlapping pod passes read the same entry count, get the same order by its key and each
  debit the fee of it (two entries of `PodRunner` may name one order); the fee is that of what was filled when the pass submitted.
- A paper buy that checked the resolution before a settlement and commits after its read stays
  unsettled.
- A user without an unsettled order can sell shares twice.  Two closes run `SELECT ... FOR UPDATE`
  and lock nothing (`api/v1/orders.py:466-473`: there is no row), a buy commits, and both then read the position and sell
  it.  The proof of `NeverOversold` met this case; TLC shows it with no seeded order, one buy and two closes of one
  share (20 steps).  The property therefore speaks of behaviours in which each close holds a row
  (`ClosesLock`), as the instance of `paper_streams` guarantees by the orders it starts with.

On the other parts:

- `core/markets_cache.py:3-6` promises that a resolved, locked or new market shows at once, and `:32` that
  `invalidate()` is called "on any market mutation (resolve/lock/create/ingest)".  That fails in two ways.  A reader
  between the invalidation and the commit puts the old list back for up to the TTL.  And with no race at all,
  the loops in the API process that resolve (`main.py:590-601`, through `settle_market`,
  `settlement_service.py:132-140`) and ingest (`main.py:178-197`, through `live_market_ingest.py:223-266`) commit
  without calling it; in production they run there only (`main.py:235-237`).  The model has these commits
  (`CommitSilently`), and in it a list that is read, committed past and then put, or put and then committed past,
  is stale while it is young.  `ClearedChangesShow` therefore claims nothing about them.
- `/prices` subscribes after it has sent the snapshot: a tick in between is never shown unless a
  newer one comes.
- `data/connectors/http.py` speaks of one probe when the cooldown is over; every thread passes until
  one of them fails.  A thread may compare with an `open_until` another has cleared (TypeError), and
  may set it after another has recorded a success.
- `data/streams/base.py:73` raises two to the number of failed sessions before it takes the minimum with
  the cap, outside the `try`; no healthy session resets that number, and after 1024 failures
  `run()` raises, which its docstring excludes.  The guard in `main.py` starts it again after thirty
  seconds.  The mapping is read when a stream is built, so that markets mirrored later
  are not subscribed before a restart.
- A user's forecast in flight while the scoring reads is never scored.  A probability with more
  than four decimals can be locked twice unchanged.
- `_running_run` never finds a run: running runs are not committed.  Overlapping runs of a scanner
  both execute, and may both raise an alert within the cooldown.  The run-now route makes a draft
  active without a test, and so do pause and resume.  A status written from an object read before
  overwrites a pause.
- `heartbeat_halts.py:333-401`: a halt's transition is lost when the pass later rolls back, or logged
  twice by passes that overlap.

## 8. Proofs

`tlapm` checks eight modules, to the last leaf and **for every value of the constants** that satisfies the
assumptions of its component: any accounts, requests, order bodies, prices, queue sizes, keys, markets,
passes, settlements and bounds.  Each theorem follows from an inductive invariant, whose own theorem is
named in the last row.

| Theorem | States |
|---|---|
| `ClobProofs!Typed`, `NeverOverfilled`, `NeverOverdrawn` | `Spec => []TypeOK`, `[]NoOverfill`, `[]CashNeverNegative` |
| `ClobProofs!TradesAreFinal`, `OneOrderPerKey` | `Spec => FilledIsFinal`, `[]KeyAnsweredOnce` |
| `ClobLedgerProofs!FillsExplainWhatIsFilled`, `FillsExplainBalances` | `Spec /\ []NoneSwallowed => []FillsExplainOrders`, `[]FillsExplainCash` |
| `ClobLedgerProofs!RequestsReconcile` | both of `Spec` alone when `Passes = {}` |
| `ClobLedgerProofs!OneRequestAtATime`, `RequestsSerialize` | `Spec /\ []NoneSwallowed => Serializable` (`Clob` implements `AtomicExchange`); `Spec => Serializable` when `Passes = {}` |
| `BookProofs!BookIsTyped`, `QuantityIsConserved`, `QuotesAreExact` | `Spec => []TypeOK`, `[]QuantityConserved`, `[]QuoteIsExact` |
| `BookProofs!BookImplements` | `Spec => PriceTimePriority` (`OrderBook` implements `PriceTimeBook`) |
| `SettlementProofs!Typed`, `NobodyPaidTwice`, `BalancesExplained` | `Spec => []TypeOK`, `[]PaidOnce`, `[]EntriesExplainCash` |
| `SettlementProofs!SettledInOneStroke` | `Spec => SettlesAtOnce` (while administrators settle alone, `Settlement` implements `AtomicSettlement`) |
| `PaperTradingProofs!PaperTyped`, `KeyMakesOneOrder`, `NoOrderPaidTwice` | `Spec => []TypeOK`, `[]KeyAnsweredOnce`, `[]SettledOnce` |
| `PaperTradingProofs!NewestSharesHeld`, `BalancesOfOrders` | `Spec => []HoldsNewestShares`, `[]OrdersExplainBalance` |
| `PaperTradingProofs!SharesSuffice`, `UnsettledSharesSuffice` | `Spec => NeverOversold`; its conclusion without `ClosesLock` when nothing settles and every user starts with an order |
| `PassProofs!Typed`, `NoDoubleWrite` | `WriterSpec => []WriterTypeOK`, `[]OncePerWindow` |
| `PassProofs!PodTyped`, `EntriesKeepUp` | `PodSpec => []PodTypeOK`, `[]OrdersHaveEntries` |
| `PassProofs!ScanTyped`, `AlarmsEarned` | `ScannerSpec => []ScannerTypeOK`, `[]AlarmsAreEarned` |
| `PassProofs!ArenaTyped`, `InTimeIsScored`, `NoHindsight`, `Chained` | `ArenaSpec => []ForecastTypeOK`, `[]OnTimeLocksAreScored`, `[]NoModelHindsight`, `[]BeliefsAreAChain` |
| `CoreProofs!FanTyped`, `InOrder`, `AllAccounted`, `Current` | `FanSpec => []FanTypeOK`, `[]FeedInOrder`, `[]EveryMessageAccounted`, `[]PricesAreCurrent` |
| `CoreProofs!CacheTyped`, `ClearedChangesVisible` | `CacheSpec => []CacheTypeOK`, `[]ClearedChangesShow` (of changes whose session clears the cache) |
| `CoreProofs!RateTyped`, `LessThanTwoQuotas`, `WaitSuffices` | `RateSpec => []RateTypeOK`, `[]NeverTwiceTheLimit`, `[]WaitIsEnough` |
| `CoreProofs!BreakerTyped`, `ShutInTime` | `BreakerSpec => []BreakerTypeOK`, `[]ShutExactlyWhileFailing` |
| `CoreProofs!EveryPartRuns`, `PartsTyped` | `MCSpec => Spec /\ FanSpec /\ ... /\ PodSpec`, so the theorems of the nine parts hold of the composition; `[]PartTypesOK` |
| `PaperTradingProofs!StreamTyped`, `LiveTyped` | `StreamSpec => []StreamTypeOK`, `LiveSpec => []LiveTypeOK` |
| invariants | `Invariance` (`ClobProofs`, `SettlementProofs`, `PaperTradingProofs`), `LedgerInvariance` (`ClobLedgerProofs`, `SettlementProofs`), `SerialInvariance`, `BookInvariance`, `OrderInvariance`, `AloneInvariance`, `CashInvariance`, `FanInvariance`, `ShownInvariance`, `CacheInvariance`, `RateInvariance`, `BreakInvariance`, `WriterInvariance`, `PodInvariance`, `ScanInvariance`, `ArenaInvariance`, `ChainInvariance` |

**`Clob`.**  `NoOverfill` speaks of committed rows, so it is not inductive: a commit publishes
whatever was written.  `RowsFine` says the same of *both* versions of each order; `CashFine`
does it for balances.  `Synced` says that an unlocked row has one version, so a request that
takes a lock continues from the committed row and not from something left behind.  `TxFine` carries
what a request knows at each statement: its own order does not exist before `Insert` and is
locked by it afterwards; the orders in its private book exist; while it posts a fill it holds
the maker's lock and the quantity is positive.  With these, the cut to `Room` in `Applied`
keeps `filled <= qty`, and the guard of the ledger keeps balances natural.  The lemmas have one
step per action (`ArriveInv` to `WorldInv`); `Assemble`, `AssembleLocal` and `OthersFine` are the frame argument shared by all:
a step of `t` keeps what other requests rely on if it undoes no row and takes no lock of theirs.
Assumptions: `SeedAssumption` (ids are distinct, the rows at the start are well typed and no
balance is negative), `SeedFilledAssumption` (a seeded order is `FILLED` exactly when it is
full) and `BodyAssumption` (request bodies are what the route's schema admits).

**Orders.**  `ClobProofs` adds two invariants to that one.  `Compatible` relates the two
versions of a row: what a transaction has written of a committed order *continues* it (`Continues`:
no less filled, unchanged if it was filled, same account and key).  `Applied` reads the row under its
lock and a cancel or a sweep takes only live rows nobody holds, so every writer keeps it, and a commit can
only continue what it replaces: `FilledIsFinal` is then a property of one step (`GoesOn`).  `KInv` follows
the key.  A request holds its account's row from `Reserve` to its end (`KeyFine`), and an uncommitted order is in
its own request's hands (`InHand`); so once the unique index let `Insert` place an order under the key,
nobody else can commit one, and the answer is the only order there is.  The look for the key in `Price`,
before the lock, is not needed; and since the account is locked no insert ever waits in the index for an
uncommitted one, which is why `Insert` may consult committed rows only.  `KeyAssumption`: seeded orders do not share a key,
and no body is both a submission and a cancel.

**The ledger of orders.**  `LedgerInv` says of *every version* of an order or balance that it is explained by the
committed fills and those its holder has made and not committed (`RowExplained`, `BalanceExplained`).
A fill is posted in two legs; between them it counts for the buyer alone (`HalfQty`, `HalfValue`).  What
keeps one request's step away from the explanations of the others is `Holds`: both orders and both accounts
of an uncommitted fill are locked by its request, and no maker is met twice (`MadeFine`).  A commit then moves fills
from one side of the sums to the other.  A pass that swallows a refused debit breaks all this (`clob_orphan`
shows it), so the theorems speak of behaviours without one, `[]NoneSwallowed`; `NextSwallows` shows that
without passes these are all behaviours.

**One request at a time.**  A commit is one step of `AtomicExchange`, and no other step shows.  That takes knowing what
an uncommitted row *is* (`SerialInv`): the order of the request is what its body asks, as far as it has traded
(`AsPlaced`); another order it holds is the committed one after trades of this request (`Traded`), which it may
not have been when the private book was hydrated, only when the row was locked; a cancel and a sweep hold what they retire
and nothing else (`Retired`).  And the prices: a fill is at its maker's price, which the taker's body
allows (`DealsFine`).  The quantities and the cash then follow from the ledger: what a commit adds to a
committed row is the difference of two sums over fills (`CommitAdds`), and fills are not shared between
commits.  The abstract exchange has no cancelled-orders rule, so it admits the trade of `clob_cancelled`.

**`OrderBook`.**  A matching loop is characterised by where it stops: the first d entries of the other side
are used up and the next gives a part of itself.  `BookInv` keeps ids unique across both lists and the sums
of quantities; `OrderInv` keeps the lists sorted, with the sequence counter telling arrival.  The
takings of a loop are then an allocation by the three rules of `PriceTimeBook` (best price, oldest, nothing left
that could trade), and every call maps to a step or a stutter.

**`Settlement`.**  `PaidOnce` follows from who has *claimed* a position: `Claimed(s, a)` says that `s`
holds a's row and has turned it from unsettled to settled, uncommitted.  Entries a session has
made are for positions it has claimed (`TxFine`), committed entries are for settled positions
(`EntriesFine`), and no version of a row undoes a settlement (`RowsFine`), fills included: they
write shares, not the flag.  Two sessions cannot both claim a row, and a settled row cannot be
claimed, so no commit adds a second entry.  `SettlementAssumption` types the constants; it does
not restrict the callers, so the worker that commits after an error is covered.

The ledger of settlements says of a balance held by a session that it is the committed one and what the
session has posted to it; since each posting is an entry of its own, a commit adds to both sides alike.
*In one stroke*: while only administrators settle, the market row is held from `ClaimMarket` to the end, so
it passes from one session to the next.  Its holder finds every position and entry as the last commit left them, the accounts it
has done are settled by its own verdict and the others untouched, and only the first that commits has a verdict to
write.  So its commit pays everybody at once.  `SettlementAssumption` also says that `None` is not a call.

**`PredictionWriter`.**  The row locks carry the proof.  A pass that has selected holds its rows, so
nobody else can log them; what it found unpredicted under the lock is unpredicted when it
commits.  Neither the process lock nor the order of the clocks is needed: a pass whose `now` is
older than a committed row finds that row recent, since the window has no upper end.

**`PodRunner`.**  A key is a number of entries seen, and that number only grows: `Sound` says that no pass has an order
whose key is ahead of the entries it sees, `CommittedSound` the same of what is committed, and both say
that an entry names an order.  So the keys of a market are distinct numbers up to the number of its entries, and
there is at most one order more than there are entries.  The unique index is what lets a key
stand for one order; the account's lock is not needed for the bound, it decides which pass must wait.

**`Scanners`.**  Every run has a start of its own, so runs that were committed are told apart.  A verdict rests
on the last three committed results and on the run's own, which it has not committed: that makes three failures, whoever
pauses or edits the scanner meanwhile.

**`ForecastArena`.**  The market row carries it.  A pass or a resolver says by where it is whether it holds the
row (`RowHeld`); while a pass holds it the market is open (`PassFine`), so no model lock is ever
committed behind a scoring.  A resolver that has read the forecasts keeps the row until it commits
(`ResolverFine`): no other scores appear meanwhile, so its scores are new, and every forecast it did not see is a
user's, marked as too late.  A second resolution overwrites the recorded time, but reads and scores
again before it does (`ResolvedFine`).  Hindsight needs only that a venue that has settled
stays so.  For the chain of beliefs, a forecaster's locks are numbered 1 to their count, and a lock
in hand was made from the newest committed one and differs from it.  `ArenaRows` rests on
both: a new lock has a number in range, and a score is of a forecast that was committed when it was read.  `ArenaAssumption`: sessions are
distinct, no user is the model, times are natural, and a bound on the locks of a forecaster admits one.

**`PaperTrading`.**  Two rows carry the two theorems.  A request holds its user's row from the debit or
credit to its end, so nobody can append an order of that user between its look for the key
(`Insert`) and its commit, and a key that was free stays free (`ReqFine`).  A settlement holds the market's row
from before it reads the orders (`SettlerFine`), so no other one can settle them
meanwhile: what it read as unsettled is unsettled until it commits, and is then in the set it flags
(`RowsRead`).  What earlier settlements paid for is settled and no order becomes unsettled again, so the rows of two
payouts are disjoint, although `SettleBegin` judged the status long before.  The row locks of
the closes are not needed for either.

`HoldsNewestShares` compares two folds over the orders, the lots and the purchases: each order
appends to both or takes from the front of one, so one stays an end of the other.  For `OrdersExplainBalance`,
`Cashes` keeps the balance a session has written explained by its order or its payouts (`Solvent`: the debit's
guard holds until the commit, as the user's row is locked); a user's payouts are finite, being of
settlements that are over.  `NeverOversold` is what the row locks of the closes are for.  Whoever waits for or
holds a row of a position waits for or holds every older unsettled one (`Grip`), so the oldest has one holder
(`OneHolder`); a settlement flags all it has read, so what is settled is oldest (`OldestSettled`); hence what a
close is about to sell is there until it commits (`Backed`), and no two closes count the same shares.
This needs that a close holds some row, which is `ClosesLock`; section 7 has the behaviour without.
Assumption: `PaperAssumption` types the constants; seeded orders are unsettled, have no key, and sell
nothing before it is bought.  A stream shares no state with the ledger, so their types hold together (`LiveTyped`).

**`FanOut`.**  The invariant is per subscriber: `Ordered` and `Accounted` of each queue that counts
(`Good`), where the handler's phase says which do.  Each operation on a queue (delivery with
either overflow, completion of the getter, its re-arming, the hand-over) has a lemma of its
own; `OneSocket` is the frame: a handler touches its own queues only.  `ShowInv` follows a client of
`/prices`: of every tick published since it subscribed it says where it is (shown, in the handler,
in the queue, or dropped behind a newer one), and the queue of the bus has no gaps.  So a client that has read everything
shows the newest price, but for the two windows the property names.

**`MarketsCache`.**  Between an invalidation and the commit of the same session, every list in the cache
was put there meanwhile, and `Fill` has marked it as raced, so the commit can only overtake lists that are
marked.  A commit that cleared nothing adds nothing the lists would have to show.  `CacheHeld` bounds the map: making room leaves it at its bound, and only then is
a key put, so it has at most one more than the bound.

**`RateLimit`.**  An open window counts the newest admissions of its key, and those before it are
fewer than a quota; a wait as long as `Retry-After` says ends behind the end of the window, in spite of the rounding.

**`Breaker`.**  The failures counted are the newest results.  The two fields of a `CircuitBreaker` change together and
those of a client one after the other, so the invariant says what a thread between the two has yet to do.

**`DataLemmas`.**  Induction over the naturals is stated of sets (`Least`, `Induct`), since a theorem about an
operator could not be instantiated.  Folds and sums are functions that `CHOOSE` picks; they
are shown to exist, to be unique, and for sums not to depend on the order (`TotalTakes`, `TotalSplits`).
A run along a sequence (`FoldsRun`, `AlongRun`) carries an invariant through a fold.

**The compositions.**  A step of `MCBackend` is one of the part it explores, and the others stand still; the crews and
the order of identifiers, which keep TLC's instance small, only take steps away.  So each behaviour of it is one of every part
(`EveryPartRuns`), and `PartTypesOK` is nine theorems put together.

**Model-checked only**: liveness and deadlock freedom, which need fairness and `ENABLED`.  Every invariant and
every action property of a passing run is a theorem.

## 9. Not modelled

- *Pods and heartbeats* beyond their passes: strategies, sizing, exposure caps, the exit ladder
  and the halts compute on data they have read; fees and equity snapshots are amounts.  The heartbeat's passes
  are modelled only as a session of `Clob` with one order.
- *Scanners*: when a scanner is due, the cooldown of fired alerts, the steps of a run and their
  repair, the compiler, ratings and forks.
- *Forecasts*: PRACTICE locks, leaderboards, and updates of `close_at` by `resolve_url`.
- *The global slowapi limiter* is a library; clocks that go backward and database failures that lose a
  whole pass are not considered outside the modules that name them.
- *Ingestion* upserts market metadata from the network; the REST price poll and frame parsing feed
  `FanOut` and `Streams` with what their models leave open.
- *Models, backtests, evaluation, alpha, signals, agents, risk rules* compute numbers from histories or call
  language models; *notifications, social and portfolio features* keep records; *the frontend and the browser
  extension* are clients.  None of these coordinates on the state of sections 3 and 4, except that
  stream workers lock markets that have closed, which `Settlement` covers by a `LOCKED` start.

Most of the repository's lines are of these kinds, which is why the modules stand for a small part
of them: what is modelled is the state that several actors share.

## 10. Plan

Done: the core (`MatchingEngine`, `OrderBook`, `Clob`, `Settlement` with their abstract specifications);
paper trading; sockets, cache, limit, breaker, streams; forecasts, predictions, scanners, pod passes;
proofs of every safety property of the passing runs, and of the three refinements.  What would come next:

1. The fee and budget postings of `pods/runner.py`, and the halts of `heartbeat_halts.py`.
2. Due times and cooldowns of the scanner scheduler, with overlapping passes.
3. `resolve_url` and PRACTICE locks in the arena.
