# TLA+ models of the modular trade agent

This directory holds the specifications of the trading system in this
repository ("Rebound", a multi-user swing-trading system for the NSE that
trades through Kotak Neo): TLA+ modules, the TLC configurations that check them
on small instances, and TLAPS proofs. `PROJECT.json` says which lines of code
every definition stands for, which properties answer which hazard, and which
check answers which question.

Paths below are relative to the root of the repository; in `PROJECT.json` they
start with `src/`, the directory the repository is checked out in.

- [The system](#the-system): inventory of components
- [The models](#the-models): what each module says and how it follows the code
- [The runs](#the-runs): what is checked, with which bounds and fairness
- [Where code and documentation disagree](#where-code-and-documentation-disagree)
- [The proofs](#the-proofs)
- [Not modelled](#not-modelled) and [Plan](#plan)

## The system

One FastAPI process (`server/app`) serves all users. For each user it runs at
most one *unified service*: a Python thread with a broker session, a scheduler
loop and a worker, which places buy orders in the morning, watches orders and
positions every minute while the market is open, analyses after the close and
cleans up in the evening. All state that survives a restart is in one SQL
database; each thread has its own session. A user who does not trade with real
money has a paper broker instead, whose books are JSON files.

| component | state | operations | what makes it correct | module |
|---|---|---|---|---|
| Buy execution and positions (`unified_order_monitor.py`, `orders_repository.py`, `positions_repository.py`) | tables `orders`, `fills`, `positions`; in memory `active_buy_orders`, `_processed_buy_execution_ids` | see an order in the broker's report or the holdings, record the fill, create or enlarge the position, backfill what was missed | every executed share is in the position once, no share without a recorded execution, crashes between the commits are repaired | BuyExecution, PositionLedger |
| Sell engine (`sell_engine.py`) | `active_sell_orders`, sell rows, positions | place one sell order per position, follow the target price, convert, defer, reconcile, close | the shares of a position are offered once, a position is closed when they are sold | SellLifecycle, BuyExecution |
| Auto trade engine (`auto_trade_engine.py`, `order_validation_service.py`, `portfolio_service.py`, `reentry_day_guard.py`) | buy rows; a position's cycle in its `reentries` | choose recommendations, check duplicates, capital and portfolio limits, place, retry, preview, cancel in the evening; buy an open position again by level of its RSI | one order per symbol, the limit on positions, a row for every order; a level is bought once | OrderPlacement, ReentryLadder, BuyExecution |
| Signals (`signals_repository.py`, `analysis_deduplication_service.py`) | `signals`, `user_signal_status` | activate, trade, reject, expire, fail | a signal shown as traded has an order or a position | OrderPlacement |
| Order tracking (`order_tracker.py`, `order_status_verifier.py`, `order_state_manager.py`, `manual_order_matcher.py`) | rows of pending orders, verified results | register, verify, match manual trades | memory and table agree | OrderPlacement, SellLifecycle (in part) |
| Service lifecycle (`multi_user_trading_service.py`, `service_lifecycle_generation.py`, `run_trading_service.py`) | `_services`, `_service_threads`, `_locks`, generation; tables `service_status`, `scheduler_lock` | start, stop, status, thread exit | at most one scheduler loop per user, which the API can stop and whose status it shows | ServiceLifecycle |
| Restore snapshot (`service_restore_snapshot.py`, `server/app/main.py`) | a JSON file, `service_status` | snapshot at shutdown, restore at boot | what ran is started again | ServiceLifecycle, IndividualServices |
| Task scheduler (`run_trading_service.py`) | `tasks_completed`, `_task_futures`, a one-thread executor | wake each minute, submit due tasks, wait with a timeout, end | each task starts once on each trading day, one at a time; a hanging task blocks neither loop nor stop | TaskScheduler |
| Individual services (`individual_service_manager.py`, `conflict_detection_service.py`) | executions and status tables, threads, processes | run one task once, or as a service of its own, beside the unified one | one run at a time; rows and flags come true | IndividualServices |
| Broker session (`auth.py`, `auth_handler.py`, `shared_session_manager.py`) | client, token, locks, re-authentication events | login, reuse, re-login, clear | one session for service and web; the service finds its way back | BrokerSession |
| Paper trading (`paper_trading_service_adapter.py`, `paper_trading_adapter.py`, `order_simulator.py`, `paper_trade_store.py`) | money, orders and sells in files, shares in memory, rows and positions in the database | the same tasks on a simulated broker | money and shares account for every fill, once | PaperAccount |
| Resilience (`circuit_breaker.py`, `retry_handler.py`) | breaker state, failure count | call, open, half-open, retry | opens at the limit, probes after the timeout | CandleCache |
| Billing (`performance_billing_service.py`, `billing_webhook_service.py`, `billing_repository.py`, billing routers) | tables of bills, carried loss, transactions, refunds, webhook events | close the month, check out, take a report, book cash, refund | profit is charged for once, whatever was lost before; a bill is paid if it was paid for, however its payment is reported | Billing |
| Caches (`ohlcv_cache_service.py`, `price_cache_repository.py`, `nse_bhavcopy_ingest_service.py`, `live_price_cache.py`) | tables `price_cache`, `ohlcv_symbol_meta` | read through, fill, refresh today's candle, validate | no gap that could be filled stays, no live candle is taken for a final one, a failure is not for ever | CandleCache |
| Web API, analysis and ML, notifications, web interface, migrations | - | - | see [Not modelled](#not-modelled) | - |

How they interact. The API starts a service (lifecycle); its thread runs the
scheduler; the scheduler's worker runs the tasks, which are methods of the auto
trade engine, the sell engine and the order monitor; these share the tables
`orders` and `positions` and the thread's database session, and they talk to
the broker over HTTP through one session per user, which requests of the web API
use as well. The status page polls the lifecycle without a lock. Individual
services run the same tasks in threads and processes of their own.

What is hard about it: the broker's reports lag, disappear overnight and fail;
several paths record the same execution or place an order for the same shares;
the broker, the table and the memory are never changed together; flags in memory
have no date; threads outlive the references to them; status is read, then waited
upon, then acted upon; a login invalidates the token another thread is using; a
snapshot file and a table both claim to know what ran. The list with lines is
`hazards` in `PROJECT.json`.

## The models

Every module declares its bounds and scenarios as CONSTANTS with named
assumptions, has one action per handler step, and ends with its properties.

Scenarios. What may go wrong or happen from outside (a crash, a refused order, a
user who acts, a slow task) is a set of event kinds. The variable `exposed` holds
the kinds that may occur in a behaviour, is chosen by `Init` from the constant
`Exposures` and never changes; in most modules each event occurs once (`events`),
in BuyExecution and SellLifecycle up to a bound. One run thus covers several
combinations of faults, the empty one included where it is of interest. A property
that the code keeps only without some kinds says so as a condition on `exposed`;
what happens with them is told under [Where code and documentation
disagree](#where-code-and-documentation-disagree).

Definitions named `Mut...` are deliberately wrong versions of the definition
that follows them (a dropped guard, a missing reset, an off-by-one). No action
uses them. Putting one in the place of the right definition must make TLC
violate a property; `mutants` in `PROJECT.json` lists which. They show that no
property holds by accident.

### BuyExecution and PositionLedger

One user, one symbol: from the broker's order book to the open position and out
again. A tick is a trading day with the phases `pre`, `open`, `closed`, `swept`.

| variable | code |
|---|---|
| `book`, `held`, `settled` | the broker (external): order book, shares owned, shares the holdings report shows (today's purchases settle overnight) |
| `row` | `orders` rows; `qty` is `execution_qty`, which `mark_executed` sums over the `fills` |
| `pos` | the open `positions` row; `legs` is its `reentries` list |
| `saved`, `mark` | `position_sync` markers in `order_metadata`: durable, and as the monitor's session sees them. A marker written inside an open transaction becomes durable with the next commit, and is lost by a crash before |
| `mon` | program counter and locals of the monitor's cycle |
| `tracked`, `done` | `active_buy_orders`, `_processed_buy_execution_ids` |
| `sold` | the day's completed sell order: what the sell engine knows of it (`watch`), and shares sold but not yet taken off the position (`owed`, for the properties only) |

A cycle of `monitor_and_update`: `StartCycle` reads the reports, either of which
may be missing; per order one of `SeeComplete`, `SeeRefused`, `SeeOpen`,
`SeeInHoldings`, `SeeNowhere` commits the row, and `ApplyExecution` writes the
position in a transaction of its own, with a crash possible in between;
`StartBackfill`/`Backfill` apply executed rows of the look-back window that no
marker covers; `RecordSell` and `CancelReentries` take a completed sale off the
position. Around it: the placement at 9:01 (`PlaceInitial`, `PlaceReentry`, with
the reconciliation they begin with), the market open, `EodCleanup`, `Heartbeat`,
`Crash`, `Stop`, `Start`. The broker fills, rejects and cancels, possibly after
a part has filled; DAY orders lapse after the close.

Abstracted: prices and average cost, wording, notifications, everything about
sell orders but their completion. Executions of one day count as being within
the one hour the duplicate heuristic looks at. `Totals` has the sum over a set of
rows, as `_closed_system_buy_totals` adds them up. `Reconcile` may always do nothing,
because whether a sell row is pending is not modelled.

`PositionLedger` is the abstract promise of the two tables to all their readers:
a recorded execution stays recorded, a position opens and takes a leg only from
recorded executions, and loses legs only by closing. `BuyExecution!LedgerKept`
maps `recorded` to the rows with an executed quantity and `open`, `legs` to the
position, and states that every step of every task, crash and restart is one step
of the ledger or none, in every scenario.

### SellLifecycle

The sell order of one position through its days. `book` is the broker's record of
each sell order, `row` its row, `active` the entry of `active_sell_orders`,
`waiting` and `defer` the deferral at the circuit limit in memory and in the
table, `converted` the RSI conversion, `verified` the verifier's EXECUTED results,
`pos` the position. `pc` follows `run_at_market_open` and, each minute,
`monitor_and_update`: detection of the user's orders and of completed sales,
clean-up of orders that ended, retry of deferred ones, quantity synchronisation,
placement where an order is missing, the settling of a completed sale, the RSI
conversion, the price update by modification or by cancel and replace. `Verify` is
the status verifier, which runs beside the cycle. After a `Crash` during market hours
the service starts either within the opening minutes (`morning`, with the
reconciliation and the cancellation of orphaned rows) or later in the session
(`restart`, with neither; `run_trading_service.py:797`). What a position offers is
`Sellable`, by the shares the broker reports; under `outage` any of the listings of a
cycle may find both reports failing, which counts as no shares, so that a position
which was not opened on the same day offers nothing (`Listings`). Of a rejected or
cancelled order nothing has executed here, so the step of the clean-up that reopens
positions for orders cancelled after a sale finds none. Prices are left out: a new
target, a refusal for the circuit limit and a conversion are choices. An order
fills completely or not at all.

### OrderPlacement

Two symbols and the buy orders for them, before and between the executions.
`signal` is the base and the user's status of the symbol's signal, `rows` the buy
rows in the table with the evenings a failed one has seen, `bought` the symbols
with a CLOSED row, `book`, `owned` and `pos` the broker's orders, the account's
shares and the open positions, `job` the task of the one worker with its locals.

`place_new_entries` is `StartEntries` (which reads the report once) and, per
recommendation, `SkipEntry`, `AdoptEntry` (an order the table does not know is
taken for the user's and gets a row), `PassEntry` or `ReplaceEntry` (the price or
the quantity has changed). `retry_pending_orders_from_db` is `StartRetry` (expired
rows, the capacity, read once) and `SkipRow`, `AdoptRow`, `PassRow`. Both then go
through `NoFunds`, or the broker's answer: `Refused`, or `Accepted`, after which
the signal is marked (`Trade`), the row written (`Write`, whose failure the code
swallows), the order verified (`Verify`) and, in a retry, the old row given the
order too (`Relink`); a crash may come between any two. `adjust_amo_quantities_premarket`
(9:05, where it is enabled) is `StartAdjust` and, per waiting order, `LeaveOrder` or
`CancelAbove` and `WriteOff`: a price above the average cancels the order and then its
row, in two steps. `Learn` is the order
monitor with a row, `Analysis` the deduplication of the evening, the preview of
18:00 the entries task without its last steps, `Cleanup` the evening sweep with the
synchronisation of signals. `Drop` and `Decide` are the pages.

Left out: re-entries (ReentryLadder and BuyExecution have them), also in the 9:05 task;
quantities, so that a modified order stays the order it was; the
expiry of signals by time at loading, an evening whose cleanup does not run, the
cache of holdings between 9:01 and 9:03. The two commits of `_add_failed_order` are
one step, except that a crash may come between.

### ReentryLadder

An open position that falls further. `rsi` is the daily RSI of the day before,
`entry` the RSI the position was entered at, `meta` the `_cycle_metadata` entry of its
`reentries` list (RSI was above 30, today's value is noted, the first cycle), `legs`
the levels the list has in the current cycle, `orders` the re-entry orders at the
broker with their rows, `task` the buy task inside `place_reentry_orders`, `done` its
flag. `bought` and `today` are history.

`Start` reads the positions, and `Evaluate` is `_determine_reentry_level` with
`_set_position_cycle_metadata`, which commits the new cycle before any check is made,
together with the legs as they were read. `Skip` stands for a duplicate or for a lack
of funds; `Place` and `Write` are the broker's answer and the row. The duplicate
checks may or may not see an open order in the report, which may fail, or name its
fields otherwise. `Execute` and `Record` are the order monitor, `NextDay` is the
lapse of DAY orders with the evening clean-up. Because the code compares cycles only
with the first and the current one, the model counts them so, and the number of days
has no bound.

Left out: quantities and prices, the evening preview (it writes nothing here), the
end of the position, positions without an entry RSI (the code skips them), the
adjustment at 9:05. The paper broker's task calls the same functions
(`paper_trading_service_adapter.py:3385`, `:3648`).

### ServiceLifecycle

One user's service. In broker mode `th[t]` is an instance of `TradingService`
with its thread at one of the points of `run()`: `init` (login), `acquire`,
`cleanup`, `retry` (the two attempts on the `scheduler_lock` row), `loop`,
`closing`, `check` (generation comparison), `write` (exit status), `dead`.
`current` is the pair `_services`/`_service_threads`, `gen` the lifecycle
generation, `api` the call that holds the per-user lock, `poll` what a status
request read before its grace periods. `flag`, `beat`, `lock` are the tables,
`snap` the snapshot file. `asked` is a history variable: what the user last
asked for.

`start_service` is `StartService` (references stored, thread launched) and
`StartCommits`; `stop_service` is `StopService` (request) and `StopCommits`
(after the join, which gives up after ten seconds); `get_service_status` is
`Poll` and `PollEnds`; `persist_service_restore_snapshot` is `Shutdown` and
`cleanup_and_restore_services` is `Boot` and `RestoreCommits`. `Crash` differs
from `Shutdown` by leaving the snapshot as it was.

With `paper` in `exposed` the user trades on paper: the login is part of
`start_service`, which deletes the row of a dead thread (`RowAtStart`), and the
thread is `_run_paper_trading_scheduler`: `init` (the row is deleted unless the
references name another live thread, `PaperBegin`), `take` (attempts for up to
three minutes), `loop`, `check`, `write`, and `release`, where the row is given
back after the status was written and not before, as the broker's thread does.

### TaskScheduler

One user's loop and worker. `svc[i]` is an instance: the loop's place
(`sleep`, `pass`, `wait`), the task it has come to, the minutes it still waits,
the completion flags, the executor's queue and the running job. `Order`, `At`,
`Timeout` and the monitor's window are constants, so that the schedule can be
scaled. `Wake`, `Submit`, `WaitEnds`, `TimesOut`, `PassEnds` and `Exit` are
`run_scheduler` with `_execute_task_async`; `StartTask`/`EndTask` are the worker
thread, which outlives its instance (`shutdown(wait=False)`). Time goes round a
week with a holiday; `Tick` waits for whatever takes less than a minute. The
history variables `tried` and `done` say what was started and completed today.

`MCTaskScheduler` scales the default schedule to a day of twelve minutes that
keeps its order and overlaps: 9:03 retry inside the ten minutes the loop may wait
for the 9:01 buy orders, monitor window, analysis, cleanup.

### IndividualServices

One task of one user outside the unified service. `rows` is the executions table,
`runs` the thread of a run and the task in it, `registered` the dictionary
`_RUN_ONCE_THREADS` (one entry), `service` the status row, `procs` the processes,
which stay zombies until somebody polls them, `handle` the dictionary of their
handles. A request is a sequence of transactions (`req[r].pc`): the clean-up of
stale rows, the guards, the row, the thread or the process. The status page reads
(`Look`) and writes (`Write`) in two steps; the worker that wakes every 45 seconds
is `Reap`. The service process is modelled as it is: it calls a method its
repository lacks and ends.

### BrokerSession

`auth[a]` is a `KotakNeoAuth` object at an address, with the state
`auth_handler.py` keeps by `id(auth)`; `svcAuth` and `shared` are the references of
the service and of the session manager; `th[t]` is a thread inside a call. A login
makes every other token stale. The paths to a login are the code's: `get_client`
and `force_relogin` under the object's lock, `handle_reauth` with its event, the
adapter of the web with its own lock, a new session under the user's lock,
`connect()` under none. Who holds a lock follows from where the threads are. A new
object is made where `Auths` has a spare address, which is a bound of the model.
SessionInvariant extends the module with the invariants of its proofs.

### PaperAccount

One symbol at a price of one. `cash` and `orders` are the files (each order with
its row in the database), `held` the shares the memory has under each of the two
names the code uses (`RELIANCE`, `RELIANCE.NS`), `position` the table, `tracked` the
sell the service follows. The morning is `BuyOrders` (`Enter`, `Reenter` or nothing) and
`Adjust`, with one `AdjustOrder` for each order that waits. `job` walks the adjustment, a
monitor pass or a start through the orders:
`Drop`, `Refuse`, `TooEarly`, `Wait`, or `Pay` (money and shares, or `Raise` if
they are not there), `Commit` (row and position, whose failure is swallowed) and
`Save` (the file). A start takes the shares from the position and the rest from
the files (`Restart`).

### Billing

The performance fee of one user. `month`, `closing` and `pnl` are the calendar, the
job of the first of the month and the closed positions it sums up; `carry` is the
loss carried forward, `bills` the table of monthly bills; `orders` is the provider:
orders, their payment and what was given back. `txs`, `returned`, `refunds`, `seen`
are the tables of transactions (by idempotency key), refunds and webhook events,
`acked` the reports that were acknowledged. `earned`, `peak` and `charged` are
history: the profit of the months that were billed, its highest level, and what was
charged for.

`CloseMonth` is `generate_bill_for_user_month`, which commits bill and carried loss
together; `MissMonth` a month whose job did not run or stopped at an earlier user.
The webhook is one coroutine without an `await` between its commits: `Receive` reads,
`Write` commits transaction and bill, `Record` commits the event; `Fail` and `Crash`
come between. Requests of users and admins run in threads beside it: `ReceiveCash`
and `RecordCash`, and the three steps of a refund: `BeginRefund` is the provider's
answer, `AddRefund` the row, `MarkRefunded` the status. The admin names an amount, or
leaves it out; then the provider gives back what is left of the payment (`Rest`), while
the row books the amount of the transaction, whatever was given back before
(`billing_admin.py:206`). `refunds` (the rows) and `orders[o].returned` (the provider)
are therefore apart, and `RefundsBooked` says when they may differ. `Fail` covers a
commit of the refund that fails, too.

Left out: the percentage and its rounding, credentials, the offline QR code, the
check of the checkout's signature (it changes nothing), e-mails. The arrears check
is `InArrears`; the entries it holds back (`run_buy_orders`) are not composed with it.

### CandleCache: what the indicators are computed from

`bars` is `price_cache` for one symbol and the last days, by age: `live` is a candle taken
from Yahoo while the market was open, the others are what they were taken from. `older`
and `status` are `ohlcv_symbol_meta`. `fetch_ohlcv_yf` with `get_ohlcv` is a thread
(`Decide`, then `Read`); between them it fills the table, day by day from the exchange
(`FetchDay`) or at once from Yahoo (`Call`, the answer, `Upsert`), validates and records
what it found (`Validate`, `Record`), or refreshes today's candle only (`Refresh`). Each
database transaction is a step, except that the list of days to fetch is taken with the
decision. Yahoo is behind the circuit breaker, whose state all threads share; a call
that began before it opened may fail or succeed in any of its states. The retry with
back-off is part of the call.

`Expected`, `Covered`, `StartGaps` and `Missing` are the arithmetic of coverage with its
thresholds; the first row of a symbol is taken for its listing. CandleInvariant extends
the module with the invariants of its proofs. Prices, weekly and minute
candles, corporate actions and the tools that repair or discard a symbol are left out.

## The runs

### Passing

| run | question | bounds |
|---|---|---|
| Buy | Undisturbed, does the position hold exactly the executed shares of its cycle, whichever of three paths adds them, and never more than the account owns; has a buy of the day always its position after a cycle (`PositionFaithful`, in `TablesFaithful`)? Through crashes and partial fills, are fills counted once; does a cancelled row mean nothing was bought, and a marker that there was an execution (`OrdersFaithful`, in `TablesFaithful`)? Is nothing taken back or counted again (`RecordedOnce`)? Does no share precede its row (`ExecutedBeforePosition`)? Do the tables implement PositionLedger (`LedgerKept`)? Is every followed fill recorded in the end, and does an execution that a crash separated from its position reach it (`BuysSettle`, liveness)? | entry and re-entry, 4 days, 2 faults, 3 scenarios |
| Sell | Is a position closed only when its shares are sold (`ClosedMeansSold`), every order that can fill known to memory or table (`LiveIsKnown`; both are `SalesFollowed`), no share offered twice by the five functions that place a sell (`NoSecondSell`)? Liveness: a position is offered, a deferral survives a restart and a sale closes it (all in `SharesOffered`; that a position is offered is asked where the reports of the account answer, and through restarts at the opening and during the session) | 4 orders, 2 shares and 1 bought, 3 days, 2 events, 7 scenarios |
| Place | However entries, retries, previews and clean-ups follow each other and orders get lost: one order per symbol and none beside a position, and the portfolio limit where one row is retried (`OrdersBounded`); where none gets lost, a row for every order, and an order or a purchase behind every traded signal (`Accounted`; both are `OrdersSound`). Liveness: no order stays failed for ever (`FailedSettles`) | 2 symbols, 1 position, 3 orders and 4 rows that matter, any number of days, 9 scenarios |
| Ladder | However RSI rises and falls while runs are skipped, short of funds, repeated by hand or cut off: is a level bought once a day, by one order, and does the first cycle only go down (`LadderDescends`)? Liveness: a fall below 30 after a recovery is bought if it lasts, whatever became of the run that noticed it (`DeclineBought`) | RSI 5, 15, 25, 30, 35; 3 orders at a time, any number of days, 7 scenarios |
| Svc | Is an active loop, of which there is then only one, the one the API knows, the owner of the lock row and shown as running (`ActiveIsOwner`); is what ran started again (`RunningIsRestored`)? Liveness: threads nobody knows end, a stale flag is cleared, a wrong one heals (`LifecycleSettles`) | 3 threads, 3 calls, 2 boots, 5 scenarios, 2 of them on paper |
| Sched | Does every task of the day start, and nothing queue up behind a slow one (`EveryTaskStarts`)? Are flags of today when they are read, and is nothing completed done again (`DoneOnce`)? Liveness: a task that never returns blocks neither the loop nor the stop (`StopEnds`) | 2 instances, 1 stop, a week of 3 days of 12 minutes, 2 scenarios |
| Tasks | Does the row of a run say so while it waits for its task, whoever cleans up, and is there no other (`RunsKept`)? Liveness: no row and no flag stays running (`Settles`) | 2 runs, 2 processes, 2 requests, 8 scenarios |
| Session | Do service and web share one object while tokens are revoked (`OneClientCalm`)? Liveness: no lock is waited for for ever, and the service's calls succeed again (`SessionSurvives`) | 3 addresses, 2 service threads, 1 request, 2 failures, 6 scenarios |
| Paper | Is no share asked for twice, does an order fill once, do money, memory and position agree (`BooksAgree`)? Liveness: a position is offered whole and in the end sold (`SharesSold`) | money for 3 shares, 5 orders, any number of days, 10 scenarios |
| Billing | Over months won and lost in any order, is all that is charged the highest level of the profit, and the carried loss the fall since (`FeeIsHighWater`)? Is a bill paid if and only if something settles it, by one payment unless cash and a report overlap, and every transaction backed by a payment; do the refund rows say less than the provider gave back only after a crash or a failed commit, and more only after a refund of the rest (`RefundsBooked`; all in `PaymentsBooked`)? Liveness: a captured payment of a bill is acknowledged and ends the arrears for good (`PaymentClears`) | 3 months, 3 results, 2 orders, 7 scenarios |
| Candles | Whatever readers do side by side, files that come late, not at all or unreadable, and days nobody analyses: does no candle of an unfinished day outlive it, and does who filled the table find every recent file in it that was there (`CandlesComplete`)? Liveness: a symbol whose fetch failed becomes usable again, although a failed status is not looked at again and the breaker may be open (`UsableAgain`) | 2 threads, 3 days in the table of which 2 are its tail, threshold 2, any number of days, 9 scenarios |

Each run also checks the type invariant of its module. In OrderPlacement it says
besides that no failed row sees a third evening; in CandleCache, that a closed breaker
has counted fewer failures than open it; in ServiceLifecycle, that no thread ends, by
any of its exits, with its instance marked as running (`NoneLeftRunning`); and in
TaskScheduler, that no completion flag of the cleanup itself survives it, which nothing
would reset.

Why the bounds are enough to be interesting. Buy: two executions are the least at
which one of three paths can count a leg twice while another leaves one out;
quantities 4 and 6 fall outside each other's ten-percent tolerance; four days let a
position open, settle, be met by the look-back window and be sold; two faults allow a
second crash, or a second failing report, during the recovery from the first. Sell:
four orders are the first, its replacement, one by another path, and the next day's.
Place: with room for one position, two symbols compete for every order; the numbers
of rows and orders nobody looks at any more are used again, so days go on for ever.
Ladder: a reading for each level, one of exactly 30 and one above; three orders are what a
day leaves unrecorded and the next day adds.
Svc: three threads are the current one, one that winds down and one more behind it (a
start takes the first that is free and that no row names, since which of them makes no
difference);
three calls are start-stop-start; two boots are a restore and
one after the process died during the first, or after it. Sched: the week has a trading day after a holiday
and two in a row (it goes round), which is where flags without a date can go wrong.
Tasks: a second run, request and process are what the first can be taken for. Session:
an address for the service's object, the shared one and one being created; two
service threads can meet at the lock of one re-login. Paper: three shares pay for an
entry, a re-entry and a growth of the sell order. Billing: three months lose, recover a part
and recover the rest; two orders pay one bill twice, or two bills. Candles: of three
days one is today's, one can be missing behind it, and one lies outside the tail, where a
missing day matters only to the coverage; two failures open the breaker.

Deadlock is checked for TaskScheduler, PaperAccount, OrderPlacement, ReentryLadder and
CandleCache, whose days never end, and for Billing, whose daily job always may run. The other runs
say `CHECK_DEADLOCK FALSE`: the last day and the bounds on calls, boots, orders and
events stop them where the program would go on.

Fairness, and what justifies it.

- BuyExecution: the monitor's cycle (the scheduler runs it every minute), the start
  (services that ran are restored), the calendar. Nothing is asked of the broker, which
  may never fill.
- SellLifecycle: the engine's steps while the market is open. Nobody has to fill an order.
- OrderPlacement: the worker's tasks and the calendar, and the monitor's look at an
  order with a row. Neither the broker, the user nor the analysis has to do anything.
- ReentryLadder: the worker ends its task, the monitor looks at an order with a row, days
  pass. Neither the broker nor RSI has to do anything.
- ServiceLifecycle: threads are scheduled, calls return, the status page polls every few
  seconds, the container is started again; nobody has to start or stop the service.
- TaskScheduler: loop and worker threads are scheduled and time passes; `EndTask` is not
  fair, so a task may hang.
- IndividualServices: threads and processes are scheduled, time passes, the page is open,
  the worker wakes. Strong fairness of a run's outcome: requests that disable it for a
  moment do not hold it up for ever.
- BrokerSession: threads are scheduled and waits have limits. Strong fairness of taking a
  lock: one that is free again and again is obtained (Python's locks are not fair, but
  each holder here releases after one login). The service goes on calling; nobody has to
  use the page.
- PaperAccount: the job goes on and the monitor runs. Strong fairness of the clock and the
  evening, because a monitor pass disables them while it runs; and of a sell that may
  execute: the price reaches its limit again and again.
- Billing: a request that was begun is handled. Strong fairness of the provider, which
  repeats a report until it is acknowledged. Nobody has to pay.
- CandleCache: threads go on, an outage of Yahoo and the breaker's timeout pass, days pass,
  files are published. Strong fairness of the analysis, which is scheduled on every trading
  day, and of the night, which a reading thread disables.

The joins, retries and timeouts in the code justify treating each of these steps as
finite.

### Violations

This run checks what a comment or document of the repository says, and TLC's
counterexample is the sequence of events in which the code does otherwise.

| run | property | the code |
|---|---|---|
| LadderDaily | `OncePerDecline` | the flag of the first recovery is never cleared: every later day with RSI below 30 begins a new cycle and buys the same level again |

## Where code and documentation disagree

`findings` in `PROJECT.json` quotes, for the violation, the line that promises
the property and the line of code that does not keep it. The following was met as
well while the models were written. Where the first column names event kinds, the
behaviour is in the model: adding a scenario with them to `Exposures`, and checking
the named property without its condition, shows it. The rest is what the code says
where the model leaves it out.

Buying (`unified_order_monitor.py`, `auto_trade_engine.py`, BuyExecution)

| with | what happens | code |
|---|---|---|
| `crash` | `NoDoubleCount`: a marker waits for somebody else's commit; a crash loses it, and the backfill adds the leg again, although `unified_order_monitor.py:1361` calls the marker durable | `unified_order_monitor.py:280` |
| `outage`, `unfilled` or `unseen` | `ExecutionFaithful`: an order that left the day's report is taken as filled with the whole holding of the symbol | `unified_order_monitor.py:745` |
| `stop`, `unseen` | `CancelledUnfilled`: the evening sweep cancels the row of an order that filled while the monitor was down | `auto_trade_engine.py:4663` |
| `stop`, `outage` | `SaleTakenOff`: after a restart the day's sale is taken off a later position again; its time is in a format the gate does not parse | `sell_engine.py:1834` |
| `OtherHoldings = FALSE` | when the sold symbol was the only one, the holdings report is empty, which is taken for missing data (`has_sellable_data`); within a look-back of a day or more the next backfill gives the sold shares a position again (`PositionBacked`) | `unified_order_monitor.py:2451`, `:2571` |
| no event | a re-entry that fills after the sale and before its cancellation opens a new position; the guard tests a row that is always open | `unified_order_monitor.py:1369` |
| no event | a sale for the earlier quantity closes a position a re-entry has enlarged meanwhile | `sell_engine.py:6961` |
| no event | the cancellation of re-entries cancels the row of one the broker has just filled, whose order it could not cancel; the monitor corrects the row if it still follows the order | `sell_engine.py:4130` |
| (read) | an error while an execution is applied is swallowed, and its id joins the processed set all the same, so the monitor does not apply it again; `ApplyExecution` of the model does not fail, and `BuysSettle` holds for executions that are applied or cut off by a crash | `unified_order_monitor.py:1980`, `:1123` |

Placing (OrderPlacement)

| with | what happens | code |
|---|---|---|
| `short`, `refused` | two failed rows are retried under one reading of the capacity, and orders exceed `max_portfolio_size` (`docs/kotak_neo_trader/KOTAK_NEO_AUTO_TRADER_LOGIC.md:17`) | `auto_trade_engine.py:3544` |
| no event | a CLOSED row counts as a duplicate, so a symbol once bought is not entered again and its retries are cancelled; `auto_trade_engine.py:5358` says CLOSED rows should not block | `order_validation_service.py:365` |
| `refused`, `drop` | an order dropped from the retry queue while the retry runs is placed, and its row is pending again | `auto_trade_engine.py:3848` |
| `refused` | after a retry two pending rows hold the same broker number, the look-up by number then raises; the sweep cancels the one the monitor did not close and fails the signal of an open position | `auto_trade_engine.py:3854`, `orders_repository.py:599` |
| `uncertain` | an order whose number was lost is adopted only if the retry has room and data; otherwise nobody follows it, and the limit may be exceeded | `auto_trade_engine.py:2910` |
| `crash`, `manual` | of two unknown orders of a symbol one is adopted; if it is the user's, the system's fills unfollowed | `auto_trade_engine.py:3342` |
| `crash` | a crash after the acceptance leaves an order without a row; after the marking, a signal that is used up besides | `auto_trade_engine.py:2970` |
| `margin` | the evening preview adds failed rows when the margin service does not answer, and cancels rows and orders whose quantity has changed | `auto_trade_engine.py:5635` |
| `nocancel` | the row is cancelled although the broker's cancellation failed | `auto_trade_engine.py:5524` |
| `rejected` | a retry makes the row pending although the verification saw the rejection | `auto_trade_engine.py:3853` |
| no event | a failed re-entry is never retried: its open position cancels it | `auto_trade_engine.py:3554` |
| no event | the evening synchronisation marks as failed a signal the afternoon's analysis has renewed | `orders_repository.py:1183` |
| `above` | an order cancelled at 9:05 leaves its signal marked as traded with nothing bought; the cancellation does not touch the signal as every other one does, so the symbol is not recommended until the analysis brings a new signal | `auto_trade_engine.py:4425`, `orders_repository.py:878` |
| `above`, `manual` | the 9:05 task adjusts and cancels every waiting buy order, the user's own too (the entries and the retry ask the table whose an order is) | `auto_trade_engine.py:4029` |
| `above`, `refused` | where a retry left two rows with one number, the look-up of the cancelled order raises and both rows stay pending until the monitor reads the report | `auto_trade_engine.py:4425`, `orders_repository.py:599` |
| (read) | the broker checks look at `tradingSymbol` and `transactionType`, raw reports have `trdSym` and `trnsTp`; the check of the table that replaces failing holdings compares the base symbol with names like `X-EQ` | `auto_trade_engine.py:2373`, `:4804` |

Buying again (ReentryLadder)

| with | what happens | code |
|---|---|---|
| `nometa`, `runonce` | the cycle's data are written with the legs as read; a leg recorded while the indicators were fetched is lost, and its level bought again | `auto_trade_engine.py:6051` |
| `crash`, `norow` or `unseen` | a fill that no row or no leg tells of leaves its level free, and the next run buys it again | `auto_trade_engine.py:2373`, `:4663` |
| (read) | "Max 1 re-entry per symbol per day" (`docs/kotak_neo_trader/KOTAK_NEO_AUTO_TRADER_LOGIC.md:98`) is a limit per level: only the older `evaluate_reentries_and_exits` asks `reentries_today` | `auto_trade_engine.py:5826` |
| (read) | the paper broker's task never clears the flag either | `paper_trading_service_adapter.py:3385` |

Selling (SellLifecycle)

| with | what happens | code |
|---|---|---|
| no event | a sale after the day's last cycle is in no later report: its row stays pending, and a pending row keeps the reconciliation from closing the position, which stays open without shares | `sell_engine.py:2820` |
| no event | the cancellation of orphaned rows marks one whose order has executed as cancelled | `sell_engine.py:2946` |
| `userSale` | the user sells a part of the shares, and the completed sale closes the whole position (`SoldOutWhenClosed`), although `docs/testing/MANUAL_TEST_PLAN_LIVE_MARKET.md:500` says it is reduced and the sell order stays | `sell_engine.py:6961` |
| `buy` | a re-entry enlarges the broker's order but not the tracked quantity; the next price update shrinks the order again | `unified_order_monitor.py:1778` |
| `modifyFails` | after a replacement, the market open and the quantity correction register the id of the order that was replaced | `sell_engine.py:3738` |
| `outage` | while the reports of holdings and of positions fail, the broker's quantity counts as none, and a position that was not opened on the same day is not offered (`OffersSell` leaves these days out) | `sell_engine.py:1122`, `:1155` |
| `userSale` | the user cancels the order and sells a part: the clean-up asks for all shares again, and the broker refuses for want of shares (`SoldOnce`; `Steady` leaves these events out) | `sell_engine.py:6961` |
| `circuit` | the retry of a deferred order places it without asking whether an order is out | `sell_engine.py:6614` |
| `rsi`, `modifyFails` or `crash` | an order converted, replaced by the clean-up or placed before a restart that fills at once is in no memory, and its sale does not close the position | `sell_engine.py:6961` |

Running (ServiceLifecycle, TaskScheduler). `Calm` of ServiceLifecycle excludes the two
hasty calls and a start during a status request where instances end by themselves; `Calm` of
TaskScheduler excludes slow tasks and failures of the cleanup or the database.

| with | what happens | code |
|---|---|---|
| `hastyStart` | a start while the first instance logs in launches a second loop, which deletes the lock row of the first (`OneActiveLoop`), on paper a start before the first thread has taken its row, although `run_trading_service.py:1265` says that only one loop runs per user | `multi_user_trading_service.py:1076` |
| `hastyStop` | a stop during login is forgotten when `run()` resets `shutdown_requested`; the loop goes on without a reference to it (`LifecycleSettles`), though `multi_user_trading_service.py:1345` says the request lets the thread exit | `run_trading_service.py:1928` |
| `initFails` or `badDatabase` | a thread passes the generation check, a start follows, the thread writes "stopped" over it (`ActiveIsOwner`, `RunningIsRestored`) | `run_trading_service.py:1969` |
| `startDuringPoll` with `initFails` or `badDatabase` | a status request that began before a start drops the references of the new instance | `multi_user_trading_service.py:1543` |
| `crashAtBoot` | flags are cleared and committed before the services are started; a crash in between loses a service whose name is not in the snapshot | `service_restore_snapshot.py:262` |
| `crash`, `crashAtBoot` | a stopped service is started after a crash, because the snapshot of an earlier restore still names it | `service_restore_snapshot.py:396` |
| `startFails` | a service that could not be restored is dropped from the snapshot that is then taken, though the log says it is retained | `service_restore_snapshot.py:396` |
| `cleanupFails` | flags have no date and only the cleanup clears them: after an evening without it, or with a failing one, the next day's tasks are skipped (`FlagsOfToday`) | `run_trading_service.py:569` |
| `slow` | the loop waits for one task while the two-minute window of another passes (`EveryTaskStarts`) | `run_trading_service.py:1469` |
| no event | the cleanup clears its own flag inside its window and runs twice; so does a task when the service is restarted within its window | `run_trading_service.py:1177` |
| (read) | nothing keeps a user's schedule in order: a task whose two-minute window overlaps the cleanup's loses its flag and is done again the same day; `ScheduleAssumption` leaves such schedules out, the default is not one | `run_trading_service.py:1177` |
| `slow`, `overlap` | a task outlives its instance and runs beside the next one's, on the same database session after a timeout | `run_trading_service.py:1848` |
| `slow` | a pass that waits for one task goes on to submit the next after a stop; only the monitor looks at the request | `run_trading_service.py:1562` |

Candles (CandleCache)

| with | what happens | code |
|---|---|---|
| `corrupt`, `crash` or `side` | the result of a fetch is lost or overwritten by an older failure while its candles are there: as long as somebody refreshes today's candle every evening nothing is missing, only a partial status is looked at again, and the symbol stays unusable (`UsableAgain`) | `ohlcv_cache_service.py:560` |
| `hole`; `short` with `corrupt` or `missed` | from Yahoo, a live candle stays when the answer of the next day leaves its day out, or was for a look-back that has no other row (`LiveEnds`) | `ohlcv_cache_service.py:716` |
| `short` | a symbol first read with a short look-back never gets a longer history: its first row is taken for its listing; readers who want more go to Yahoo each time; with `late`, a reader who filled the table misses a file that was there (`FilledWhenRead`) | `price_cache_repository.py:48` |
| `legacy` | rows of Yahoo count as present when the exchange is the source, so its files are never fetched, and the reader is not shown those rows; enough history is still reported, by the span since the first row | `price_cache_repository.py:489`, `ohlcv_cache_service.py:104` |
| `nseDown` and `late` or `missed`, `free` | gaps at the start of a window ask for a fill which does not fetch them | `price_cache_repository.py:380` |
| no event | in the mode with both sources a live candle of Yahoo counts as present, and its final one is not fetched once the day is over, unless the evening's refresh takes the exchange's file | `nse_bhavcopy_ingest_service.py:71` |
| no event | a reader who asks not to be given the current day gets today's live candle if another one stored it: `get_ohlcv` keeps dates up to its end, which is today | `ohlcv_cache_service.py:430` |
| no event | in HALF_OPEN every caller is let through, although `circuit_breaker.py` says "Limited calls allowed" | `circuit_breaker.py:21` |
| (read) | too few rows for one symbol raise inside the breaker, so that a few young listings cut Yahoo off for all symbols | `data_fetcher.py:477` |
| (read) | the repair of a stale tail passes an argument `refresh_tail` does not have | `ohlcv_cache_health.py:289` |

Individual services and sessions (IndividualServices, BrokerSession)

| with | what happens | code |
|---|---|---|
| `start` | the service's process calls `get_status`, which the repository lacks, and ends without ever running its task | `scripts/run_individual_service.py` |
| `overlap` | a run that ends deletes the key of a newer one, whose row is then failed after two minutes; two requests pass the guard together | `individual_service_manager.py:902`, `:525` |
| `stop` or `between` | a second start and a crash, or a stop or the worker between the page's reading and writing, leave `is_running` true for ever | `individual_service_manager.py:193` |
| `unified` | the unified start does not ask for single runs; the broker scheduler's analysis has no row and shares `latest_results.json` | `conflict_detection_service.py` |
| `clear`, `loginFails` | a cleared session, or a login that fails in `connect()`, leaves an object that says "logged in" without a token, until it is 55 minutes old | `auth.py:521` |
| `busy`, `revoke` | threads log in one after the other, each making the token of the one before stale; the event stays set, so a waiting thread repeats its call with the old token | `auth.py:521` |
| `sync` | the synchronisation of orders passes its database session where `force_new` is expected and so replaces the shared session, while the service keeps an object whose token is no longer valid (`OneClient`), although `shared_session_manager.py:25` promises one client | `orders.py:654` |
| `age` | the web replaces an aged session while the service keeps its own | `shared_session_manager.py:84` |
| (read) | the cooldown of the session manager has no effect: both branches return the same object | `shared_session_manager.py` |

Paper trading (PaperAccount)

| with | what happens | code |
|---|---|---|
| `reentry` | a re-entry is bought as `X.NS` and kept apart from `X`; every fill of the sell of the whole position raises "Insufficient quantity" until the service starts again | `paper_trading_adapter.py:1160` |
| `reentry`, with `amo` or `missed` | a waiting re-entry does not keep a new entry from being placed beside it: its name is compared with `.NS`, the recommendation's without (`paper_trading_service_adapter.py:2506` says pending buys prevent duplicates) | `paper_trading_service_adapter.py:2510` |
| `reentry`, `rsi` | the RSI exit then places another market order each minute | `paper_trading_service_adapter.py:1662` |
| `dbfails` | the failure of the database write is swallowed; the next start takes the position's quantity for the truth | `paper_trading_adapter.py:618` |
| `crash` | money, commit and file of orders are three steps: an order executes twice, or its shares are gone | `paper_trading_adapter.py:1063` |
| `rsi` | the exit leaves the limit order in the file, with its row cancelled, and `converted_to_market` is never cleared | `paper_trading_service_adapter.py:1662` |
| `amo` | a start before the market opens executes AMO market orders too early: the row fails, the file's order executes later | `paper_trading_service_adapter.py:248` |
| `missed` | an evening without the clean-up leaves the flags of the tasks, and the next morning places nothing | `paper_trading_service_adapter.py:1115` |
| (read) | files are written in place, and one that cannot be read is started anew; `holdings.json` keeps what was sold; the adapter of an overlapping single run overwrites the files | `paper_trade_store.py` |

Billing (Billing)

| with | what happens | code |
|---|---|---|
| (read) | the message of the arrears says "New buys and re-entries are paused", but only `run_buy_orders` asks; the retry at 9:03 places failed buys again | `performance_fee_arrears_service.py:53`, `run_trading_service.py:624` |
| `checkout` | a second order of a paid bill that is captured gets no transaction, so it cannot be refunded here | `billing_webhook_service.py:101` |
| `generic`, `crash` or `error` | after a transaction whose event was not recorded the repeated report meets the unique key, which raises each time; it is never acknowledged, although the rows exist for idempotency | `billing_webhooks.py:42` |
| `cash`, `overlap` | cash that is booked while a report of the same bill is handled settles it twice | `performance_bill_payment_service.py:72` |
| `refund`, `crash` or `error` | a refund that the provider made has no row; a partial one marks its transaction as refunded, and the bill stays paid | `billing_admin.py:198`, `:213` |
| `refund`, `rest` | a refund without an amount, of a payment of which a part was given back, is booked as the whole transaction: the rows add up to more than the provider returned, and than was paid (`RefundsBooked` allows it only here) | `billing_admin.py:206` |
| `missed` | a month whose job did not run, stopped at an earlier user or found the user on paper at 00:30 is not made up: its profit is never charged, its loss never carried | `performance_billing_service.py:125` |
| (read) | the check of a signature accepts the latest order of a bill only, although an earlier one can still be paid | `billing_user.py:245` |

## The proofs

For every value of the constants that the named assumptions of a module allow (any
set of orders, threads, requests or instances, any quantities and profits, any bounds,
every combination of events), TLAPS checks the theorems below. The assumptions say
what the constants are (a finite set, a positive number, names that differ); the only one
that restricts what a user could configure is `ScheduleAssumption` of TaskScheduler.
Each theorem rests on an inductive invariant, which TLC checked on a small instance before
it was proved, each action preserving it in a lemma or step of its own; the temporal step
is PTL. Where an invariant did not survive a step, the counterexample was looked up in the
code first: this is how the conditions `Calm`, `Steady` and `ScheduleAssumption` came to
say exactly what they say.

| theorem | property of run | what it rests on |
|---|---|---|
| `BuyExecutionProofs!TypeCorrect` | Buy `TypeOK` | a lemma per action |
| `BuyExecutionProofs!ExecutionPrecedesPosition` | Buy `ExecutedBeforePosition` | `ExecutionFirst` |
| `BuyExecutionProofs!LedgerImplemented` | Buy `LedgerKept` | `ExecutionFirst`; each step is one of PositionLedger's or none |
| `BuyExecutionProofs!RecordingCorrect` | Buy `RecordedOnce` | `BuyInv` |
| `BuyExecutionProofs!TablesCorrect` | Buy `TablesFaithful` | `CalmInv`, `BuyInv` |
| `BuyExecutionProofs!OrdersCorrect`, `NewBuyCorrect` | two parts of it by themselves | `BuyInv` |
| `SellLifecycleProofs!TypeCorrect` | Sell `TypeOK` | `Typed`, `Sized` |
| `SellLifecycleProofs!SalesCorrect` | Sell `SalesFollowed` | `SellInv` |
| `SellLifecycleProofs!OneSale` | Sell `NoSecondSell` | `SellInv` |
| `SellLifecycleProofs!PlacementTypeCorrect` | Place `TypeOK` | `Typed`, `Aged` of PlacementInvariant |
| `SellLifecycleProofs!OneOrderCorrect` | Place, `OnePerSymbol` in `OrdersSound` | `SingleInv` of PlacementInvariant |
| `SellLifecycleProofs!OrdersCorrect` | Place `OrdersSound` | `OneOrderCorrect`, `SoundInv` of PlacementInvariant |
| `ServiceLifecycleProofs!TypeCorrect` | Svc `TypeOK` | polls and rows typed, `NoneLeftRunning` |
| `ServiceLifecycleProofs!OwnerCorrect` | Svc `ActiveIsOwner` | `Lifecycle` |
| `ServiceLifecycleProofs!RestoreCorrect` | Svc `RunningIsRestored` | `Restorable` |
| `ServiceLifecycleProofs!SessionTypeCorrect` | Session `TypeOK` | `Typed`, `Limited` |
| `ServiceLifecycleProofs!OneClientCorrect` | Session `OneClientCalm` | `CalmInv` of SessionInvariant |
| `TaskSchedulerProofs!TypeCorrect` | Sched `TypeOK` | `Typed` |
| `TaskSchedulerProofs!StartCorrect` | Sched `EveryTaskStarts` | `DayInv` |
| `TaskSchedulerProofs!OnceCorrect` | Sched `DoneOnce` | `DayInv` |
| `IndividualServicesProofs!TypeCorrect` | Tasks `TypeOK` | `Typed` |
| `IndividualServicesProofs!RunsAreKept` | Tasks `RunsKept` | `RunsInv` |
| `PaperAccountProofs!TypeCorrect` | Paper `TypeOK` | `Typed` |
| `PaperAccountProofs!BooksCorrect` | Paper `BooksAgree` | `BooksInv` |
| `BillingProofs!TypeCorrect` | Billing `TypeOK` | requests typed |
| `BillingProofs!FeeCorrect` | Billing `FeeIsHighWater` | inductive with the types |
| `BillingProofs!PaymentsCorrect` | Billing `PaymentsBooked` | `BooksInv` |
| `ReentryLadderProofs!TypeCorrect` | Ladder `TypeOK` | `Typed` |
| `ReentryLadderProofs!LadderCorrect` | Ladder `LadderDescends` | `LadderInv` |
| `ReentryLadderProofs!CandleTypeCorrect` | Candles `TypeOK` | `Typed` of CandleInvariant |
| `ReentryLadderProofs!LiveEndsCorrect` | Candles, `LiveEnds` in `CandlesComplete` | `LiveInv` of CandleInvariant |

Why the invariants are needed, and what they say about the code:

- *Buying.* `ExecutedBeforePosition` is not inductive: from a state in which the monitor
  holds an order without an execution, or has one on its backfill list, the next step
  writes the position. `ExecutionFirst` adds that this never happens (`MonitorFirst`) and,
  so that the monitor keeps it, that completed orders have a filled quantity, closed rows a
  positive one, and no row is dated in the future (`RowsFirst`). The two-transaction design
  thus errs on one side only: shares may be missing from a position for a while, they never
  appear without a recorded purchase. This alone makes every step a step of PositionLedger.
  `BuyInv` adds how rows, broker and memory belong together: an order has a row from its
  placement (`TablesAgree`); a leg in the monitor's hands has a closed row, and the monitor
  works in market hours only (`Working`), which keeps the evening sweep away from it; shares
  bought today are owned or sold today (`BoughtToday`) and are on the backfill's list until
  there is a position (`ListedToday`); a tracked sale is still owed (`Tracking`); while the
  order report answers, an executed row is of a complete order or of an earlier day, so that
  no later report takes it back, and markers follow their rows (`Answers`); while the process
  stays up every pending row is followed, and a cancelled row is of an order that bought
  nothing or is still followed (`Attended`); and while reports are complete no order stays
  unrecorded overnight, which is why the holdings are never asked for one (`Reported`).
- *The position, undisturbed.* `NoDoubleCount` and `PositionBacked` compare the position with
  rows and with the account, and neither is inductive: what keeps the second and third path from
  adding a leg again is that the first left a marker. `CalmInv` says that every executed row
  carries a marker of its quantity and is processed, but the one being applied (`MarksOfRows`);
  that the position is the sum of the markers of its cycle (`MarkedTotal`); that the account has
  what the position shows but for a fill the position does not count yet and a sale it still
  counts (`Account`); that a sale was for the whole position, and what is left of it came from
  today's order (`SaleOfDay`); that there is one order a day (`OrderOfDay`), and that without a
  position an order of the day is the first, with every row of the window on the backfill's list
  (`Entering`). From the balance follows that the broker never has less than the position shows
  while a sale is not owed, so the reconciliation never lowers it by mistake. How a sum changes
  with its set (`TotalPick`, `TotalAtMost`, `TotalSame`) is proved about `MapThenSumSet` itself:
  a smallest set without the property exists, because proper inclusion is well-founded on the
  subsets of a finite set, and taking an order from it gives a smaller one.
- *What is on sale.* That the account never falls below zero is not inductive: a fill takes
  what its order asks for, whatever the account holds. `Sized` says that the open orders
  together (`Load`, a sum over the book) ask for no more than is there, which a placement, a
  modification and a replacement keep because the broker judges what is asked by the shares the
  other orders leave. And it bounds every quantity by the shares of the start and of the buys so
  far, `Cap`: a buy that is not recorded yet counts beside the position (`Counted`), so that the
  order that is enlarged when it is recorded stays within the bound. The lemmas about totals
  stand in this module as in BuyExecutionProofs.
- *Selling.* `SteadyInv` says that the shares are there until their one sale, every order is
  for the whole position, at most one order can fill and none once one has, the engine follows
  that one if it follows any, and reports and the verifier's results may be late but never
  early. Under `outage` the engine's memory alone must know that no order is out (`Blind`).
  `RowsInv` is apart, because it also holds beyond the steady events: without replacements,
  what can still fill is of today and has a pending row.
- *Placing.* The proofs are about `P`, an instance of PlacementInvariant, and stand at the end of
  SellLifecycleProofs: first the orders that sell, then those that buy. That no failed row sees a
  third evening is a matter of the day's order (`Aged`): the retry cancels the rows that are old,
  no market opens before the 9:05 task nor that before the retry (`Days`), and no order it places has a
  row yet that could have grown old (`Unrowed`). `OnePerSymbol` says nothing of rows, yet rows
  are what the code looks at: `Linked` says what they are worth, for the row of an order that
  waits is pending and of the order's symbol; so the duplicate check either finds the order by its
  row, or the order has no row and is adopted as a stranger. The report is read once and grows
  old while the task places orders: what it does not show was placed by the task itself, for a
  symbol it is through with (`Careful`), and the same condition has looked for a position and for
  shares by the time the order is sent. That both are still what they were needs that no fill is
  unknown before the market opens and that the symbol of an unnoticed fill has no order
  (`Noticed`), which a user's own orders may break: hence the condition in the property.
  `SoundInv` is about days on which no order gets lost. That every order has its row
  (`Followed`) and every traded signal its order or purchase (`Explained`) needs that
  `create_amo` really adds a row, because it returns the one that is pending where there is one:
  nothing is pending in the morning, for a symbol that is still to be bought, or for the one being
  placed (`Quiet`). The limit is looked at before an entry is placed, and only once for all rows
  of a retry. What saves it is that one failure leaves one symbol with a failed row, a row to be
  retried or a rejected order (`OneTrouble`), so the room that was seen is used for one symbol; `Bounded` says there is
  room for the symbol in the worker's hands and for each row it will retry.
- *Service lifecycle.* Only the instance that is referred to was not told to stop; any other
  is past its loop or will see the request (`CurrentGoesOn`, `OthersEnd`, `OthersOut`);
  generations only grow; a status request that found a dead thread judges it while it stands
  (`PollKnows`). These keep late releases, exit writes and status requests of earlier threads
  away from the current one, its row and its flag. `Restorable` follows what the user asked
  for through memory, table and snapshot.
- *Broker session.* The proofs are about `S`, an instance of SessionInvariant, and stand at the
  end of ServiceLifecycleProofs: the threads of the session are those of the service. That an
  object's failures are bounded is not inductive, for the limit is looked at when a thread is
  admitted to a re-login and the failure is counted when it fails. `Limited` counts both: the
  failures and the threads that were admitted and may still fail (`Counted`) are together no
  more than the limit less one and the threads of the service. A failure moves a thread from
  one to the other; a thread is admitted only below the limit, where even all threads together
  stay within it; nobody of the web is counted (`Fits`). `Calm` says why one object is enough
  while nobody is logged out and nothing gets old: an object that is logged in keeps a token,
  valid or not, because a re-login leaves the login state alone until it has succeeded
  (`CalmObjects`), so the shared object stays reusable and a second one is never asked for; a
  thread works with the shared object or with none, but for the one that is creating it, and at
  most one is, by the user's lock (`CalmThread`).
- *Task scheduler.* The pass and the worker are in step within the minute (`OneAtATime`),
  flags are what was done today (`FlagsDone`) until the cleanup (`Cleaned`), and whatever
  the pass has got past has started (`Started`); that nothing queues up behind a slow task
  holds whatever a task does. `AloneInv` says the same of one instance without `Calm`: what
  was done is remembered until the cleanup is due, and a cleanup of yesterday that is late
  finds nothing of today.
- *Individual services.* A run that waits for its task is registered, or about to be by the
  request that made its young row (`Guarded`); a request that is about to start one has seen
  that no row is running (`Asked`).
- *Paper trading.* An executing order is in three places at three times: `Booked` says by how
  much memory and position differ meanwhile, `FillsOK` that no open order has filled.
- *Billing.* `FeeIsHighWater` is inductive with the types. `PaymentsBooked` needs what the
  request in progress may write (`RowsStand`) and, without overlap, that the bill it settles
  still awaits payment (`OneAtATime`). `RefundsBooked` counts the row a refund is about to
  write as written (`RowsSay`): the answer of the provider then moves both sides, by the same
  amount or, for the rest of a payment, by less than what is booked (`RefundOf`); only a failure
  takes the row away again. `RefundHeld` says that what is about to be marked has its row.
- *Buying again.* The orders are today's, for the level of today's RSI, and each has its row
  but the one being written (`DayOrders`); in the first cycle what was bought is the entry's, a
  leg or about to be one (`BoughtKnown`), a run that is deciding has read all of it but today's
  (`LegsRead`), and nothing was bought since a recovery (`Recovered`).
- *Candles.* The proofs are about `C`, an instance of CandleInvariant, and stand at the end of
  ReentryLadderProofs. `LiveEnds` is not inductive, because an answer of Yahoo is written
  later than it was asked for, and one that refreshes today's candle would put it beside
  a live one of the day before. `Careful` says what makes it safe: who refreshes has found
  today's candle in the table (no gap means that the newest expected day, today, is there:
  `TodayIsThere`), so the fill that wrote it has replaced what was live before; and an answer
  to a fill that waits to be written has the final candles of all past days. Both stay true
  until the thread is done, since nothing is removed from the table within a day and no read
  outlives the day. What a slow thread can do is put a live candle of today in the place of
  a final one of today, which the next fill replaces.

Only model-checked:

- all liveness (`BuysSettle`, `SharesOffered`, `LifecycleSettles`, `StopEnds`, `Settles`,
  `SharesSold`, `PaymentClears`, `DeclineBought`, `SessionSurvives` and those of the two modules
  named below):
  fairness and ENABLED are out of the prover's reach;
- `FilledWhenRead` of CandleCache (in `CandlesComplete`). It does not hold for every value of the
  constants: where the tail is as long as the table and more than one missing day at the start
  is tolerated (TLC finds it with a table of 4 days, `Tail = 5`, `MinGaps = 3`: the file of the
  oldest day is not readable once), that day is taken for one before the listing, and nobody
  fetches it again. The settings (a tail of 10 days, 5 missing ones, a table of years) are far
  from this; how far the tail has to stay from the start of the table is a matter of counting
  trading days, which the prover was not asked to do.

The guards that bound a run are in the specifications the theorems are about: an order is
placed only if one of the `MaxOrders` (or `Orders`) is free, a process is started only if one
of `Procs` is, a row written only
if one of `MaxRows` is free, a session created only at a spare one of `Auths`, a fault occurs only `MaxFaults` times. Since the theorems hold for every value of
these constants, they hold for behaviours of any size.

## Not modelled

- Prices, average cost, indicators, targets, scores and capital: floating-point
  data; the control that depends on them is a nondeterministic choice where it
  matters.
- Analysis, machine learning and backtests (`services`, `core`, `backtest`):
  numerical pipelines without control state. The web interface and the
  notifications: presentation. The migrations: run once.
- In BuyExecution, manual trades; in SellLifecycle, partial fills of the system's
  orders; in ServiceLifecycle, the history copies of the snapshot file, and the
  branch of `start_service` for an instance whose flag says running while its
  thread is dead (`NoneLeftRunning`, which is proved, says that there is none), and
  failing commits of `start_service` and `stop_service` (errors of the database are
  modelled where the code swallows them: the second attempt on the lock row counts as
  success, its release leaves the row, the exit status is not written).
- In BuyExecution, errors while an execution is applied (see the table above).
- In TaskScheduler, changes of the schedule while a service runs (the loop reads
  it at each pass; tasks look at the clock only), and what the tasks do.
- In IndividualServices, the analysis run's result file, the schedule of the next
  execution but for its effect on the flag, more than one task; in BrokerSession,
  the two-factor exchange and the adapter's failure limit; in PaperAccount, the
  branch of the order synchronisation that reopens a failed row, charges, and the
  limit on positions. In Billing, what its section lists. In OrderPlacement, what its section above lists.
- The components marked `not_modelled` in `PROJECT.json`, and the web API's routers
  beyond what the modules above take from them.

Most of the repository's lines are in the last two groups and in the first two; the
modules here cover the code that changes orders, positions, services and sessions.

## Plan

The order follows the money: what is bought and recorded first, then who runs the
code, then what is sold.

1. Done: BuyExecution with its proofs and PositionLedger, ServiceLifecycle,
   TaskScheduler, SellLifecycle, OrderPlacement, BrokerSession, IndividualServices,
   PaperAccount, Billing, ReentryLadder, CandleCache.
2. Proved: see [The proofs](#the-proofs).
3. Components left: `RefreshToken`,
   SellLifecycle and ReentryLadder
   composed with OrderPlacement over one table of positions.
