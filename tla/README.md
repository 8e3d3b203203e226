# A TLA+ development of vm-quant-trader

vm-quant-trader is a Python engine for rule-based trading.  The same strategy
code runs in two planes: a backtest, where a simulated broker executes orders on
historical bars, and a live plane, where cron starts one short-lived process per
rebalance and one per day's end against the KIS brokerage.  This directory holds
TLA+ models of it, the TLC configurations that check them on small instances and
the TLAPS proofs that hold for every instance.

The live plane comes first because that is where an error costs money and where
tests reach least: two threads, a process that may die between any two writes,
a venue whose answers are cumulative and sometimes empty, and a ledger from which
the next launch has to resume.

## Inventory

| Component | State | Operations | Talks to |
|---|---|---|---|
| Live broker `broker/live_broker.py` | open orders, two watermarks per order (poller's, portfolio's), fill buffer, portfolio | `submit_order`, `_poll_once`, `_drain_fill_buffer`, `settle`, `update`, `_close_order`, `seed_from_venue`, `record_equity` | ledger, gateway, fill worker, guard |
| Order ledger `broker/live/ledger.py` | order rows, fill rows keyed by order and cumulative quantity, equity curve, identity | `record_*`, `get_open_orders`, `get_fills`, `stamp_identity` | SQLite, two connections |
| Reconciliation `broker/live/reconcile.py` | none of its own | `reconcile`, `_recover_open_orders` | broker, ledger, gateway |
| Guards `broker/live/guards.py` | kill-switch file, session halt, counters | `check_can_trade`, `check_order`, `halt` | session, broker |
| Live session `trading/live.py` | one launch | `run_rebalance`, `run_end_of_day`, `_decide_and_submit` | everything above |
| Fill worker `broker/live/worker.py` | FIFO queue, thread reference, `_stop_called` | `start`, `post_task`, `join_tasks`, `stop` | live broker |
| Mailbox `messaging/mailbox.py` | FIFO queue, closed flag, counters | `post`, `take`, `close` | both actors |
| Strategy executor `alpha_model/base_strategy_executor.py` | inbox, thread, `ended_by` | `post_event`, `run`, `stop` | strategy, broker actor |
| Broker actor `broker/actor.py` | mailbox, command latch, counters | `post_command`, `drain`, `refuse_commands` | session, `size_and_submit` |
| Gateway and parsing `scripts/kis_gateway.py`, `broker/kis/parse.py` | one lock and one call clock for the process | order call, fill enquiry, balance, `get_daily_closes`, `call_with_retry` | KIS |
| Portfolio accounting `broker/portfolio/*` | cash, positions, history | `transact_asset`, `subscribe_funds`, marking | both brokers |
| Simulated broker `broker/simulated_broker.py` | master cash, portfolios, order queues | transfers, `submit_order`, `update` | exchange, data |
| Portfolio construction `portcon/*`, `system/qts.py` | none | `decide_weights`, `build_orders`, sizing | broker, data |
| Backtest `trading/backtest.py`, `simulation/*`, `system/rebalance/*` | event stream, equity curve | `run` | simulated broker, executor |
| Signals `signals/*` | price buffers, burn-in count | `append`, `update`, `warm_up_signals` | data |
| Exchange calendar `exchange/krx_exchange.py`, `scripts/fetch_holidays.py` | the holiday file | `fetch`, `holiday_file_covers`, `load_holidays`, `is_open_at_datetime` | KIS, session |
| Promotion check `scripts/promotion_check.py` | none: reads the ledger | eight criteria | ledger |
| Fee models, data files, statistics, other scripts | | | |

What is hard here: the fill worker records and hands over fills while the main
thread books them; a launch may die, or be interrupted, between an intent, a
venue call, a ledger commit and a booking; enquiries that come back empty for
three different reasons; a deadline, a kill switch and the last fill racing to end
settlement; a strategy thread that overruns its budget while the session closes
the command lane; a rate limit that makes a query come back empty; a ledger that
several deployments may open and from which a promotion to real money is decided;
a calendar file that is rewritten in place while a launch reads it.  `PROJECT.json` lists these under "hazards", each at its line.

## Modules

| Module | Models | State and actions |
|---|---|---|
| `Venue` | the brokerage as the engine sees it, and what a fill enquiry answers | accepted orders, cumulative fills; `Fill`, `DropRemainder`, `NewDay`; `Reports` follows `get_order_report` and `parse_order_report`: today's row or nothing |
| `OrderLedger` | the ledger | a row's state, the keys and the sum of its fill rows; one operator per `record_*` method, each a commit |
| `LiveBroker` | the live broker and its two threads | `pc` is the main thread, `wpc` the fill worker; one action per step another thread or a crash could tell apart |
| `LiveSession` | launches, recovery, crashes, the operator, the day; the composition of the three above | `Launch`, `RecoverOrphan`, `RecoverOrder`, `Seed`, `GateOpen`, ... , `Crash`; the properties and the inductive invariant |
| `OrderLifecycle` | abstract: what the ledger promises an auditor | the life of a row and the quantity on record |
| `LiveSession_proofs` | theorems about `LiveSession` | |
| `ActorCycle` | `_decide_and_submit`, the executor and the broker actor, synchronous and threaded | `main` and `executor` are the two threads |
| `TaskQueueWorker` | the fill worker class by itself | caller and thread; `unfinished` is the queue's own count |
| `Mailbox` | the mailbox class by itself | the lock, the put and the count are separate because `take` does not lock |
| `FeeModel` | the percentage fee models | operators |
| `Portfolio` | portfolio, position handler, position, transaction | operators on a record of cash and positions |
| `Sizing` | `build_orders` and both order sizers | operators |
| `SimulatedBroker` | the simulated broker and the execution handler | operators on a record of the master account, the portfolios and their order queues; `raised` stands for an exception |
| `Backtest` | the session's event loop, the engine's events, the schedules, the exchange's hours; composes the four above | `PlainEvent`, `RebalanceEvent`, `End`: one iteration of `run` each, because a backtest is synchronous and nothing can come between |
| `SimulatedAccounts` | the simulated broker used by hand | one action per public operation: portfolios, transfers, submission, `update` at any time; the run's specification is this or a `Backtest` session |
| `Gateway` | `_throttle`, the pause before an order, `call_with_retry`, as several threads use them | `lock`, the ages of the last pass and of the last call, and each thread's position in its call; `Tick` is time |
| `SignalBuffers` | the price buffers, `SignalsCollection` and the warm-up | operators; a price is the day it is the close of, so that a buffer shows what it holds and in which order |
| `TradingCalendar` | the holiday file, the script that fetches it, the launch script's two readings and the session's gate | `FetchBegins`, `FetchPage`, `OpenFile`, `WriteFile`, `FetchFails`; `ReadRange`, `LoadHolidays`, `GateOpens`, `GateRefuses` |
| `MarketData` | a launch up to its decision, a backtest's signals, a trading launch's calls; composes the three above | `PassGate`, `AskPage`, `TakePage`, `WarmUp`, `UpdateSignals`, `Call` |
| `Deployment` | one ledger and one account over many launches: identity, clamping, guards, fees, the position comparison, the promotion check | a launch in large steps (`Launch`, `Recover`, `Compare`, `Update`, `Submit`, `Accepted`, `Raised`, `SettleRound`, `SettleEnd`, `Crash`), the venue's and the operator's moves, `Promote` |
| `ActorCycle_proofs`, `TaskQueueWorker_proofs`, `Mailbox_proofs`, `Deployment_proofs` | theorems about the module of that name | |
| `Backtest_proofs` | theorems about `Backtest` and `SimulatedAccounts`, with the lemmas about `Portfolio`, `Sizing` and `SimulatedBroker` they rest on | |
| `MarketData_proofs` | theorems about `Gateway`, `TradingCalendar` and their composition `MarketData` | |
| `DataLemmas` | lemmas the proofs share: induction over naturals and finite sets, what a sum over a finite set is, greatest and least elements, ranks, what a fold from the left keeps | |
| `MC*` | small instances for TLC | |

`LiveBroker` uses `TaskQueueWorker` through what that module establishes:
`Drained` is `join_tasks` answering True and `StopWorker` is `stop` with a timeout
(`AnswersAreTrue`, or a worker left running), and tasks run oldest first
(`RunInOrder`).  `ActorCycle` ends in `Settle`, which `LiveBroker` expands;
`LiveBroker`'s `burst` is the burst `ActorCycle` carries out.  `LiveSession` and
`Deployment` are two views of the same launches: the first has every step of both
threads and no money, the second has symbols, signed quantities, cash and fees and
takes a round of polls as one step.

Definitions named "Mutant" in their comment are deliberately wrong versions of
the definition that follows them.  Each property has one that breaks it, which
shows that the property can fail.

### Abstractions

* In the live core an order is a number; numeric order is creation order, which is
  the order every loop of the code uses.  Quantities are given and unsigned: the
  side of an order never enters the arithmetic of the fill pipeline.  `Deployment`
  has the sides and the clamping.
* Each order has its own line in the portfolio (`holding`), which is finer than
  the code's per-symbol position.  A `Seed` sets each line to what the venue
  filled.
* In the live core prices, fees, cash and marking are left out.  An order limit, a
  closed market, a day without rebalancing, starved signals and an overstated
  position are nondeterministic refusals there; `Deployment`, `TradingCalendar` and
  `MarketData` have them as the code decides them.
* `Deployment` has one price.  The venue covers an order from the account with
  working orders counted, which is how it can refuse what the engine believed it
  could send.  Fees are whatever a report estimates, up or down.  What is booked of an
  open order, in shares and in fees (`booked_quantity` and `booked_fees`), is memory
  (`marks`): a crash loses it, recovery seeds it from the fill rows, and a fill row is
  what a report has beyond it.
* The first ledger of a `Deployment` is one of `OldLedgers`: a new file, or one that an
  earlier release wrote, with any orders, fills and equity rows that release may have
  left (`OldLedgersAssumption`: it booked as this one does, and its orders are not of
  today).  `stamp_identity` takes such a ledger over with its rows in place.
* In `Gateway` time is relative (ages and remaining sleeps) and a thread may be late at any step.  The venue answers a call
  that comes too early without rows, and may do so at other times.
* The holiday file is whole, cut short or missing; the venue's calendar does not
  change and a fetch ends on the day it began.  Times of day are local.
* Fill rows are the set of their keys and the sum of their increments, which is
  what `_already_booked` reads.
* On the main thread, outside settlement, a poll is one step: no worker exists then
  and nothing but a crash could come between; a crash between the commit and the
  hand-over loses only memory, which the crash loses anyway.
* In the backtest modules money is exact: prices are integers in ticks of
  1/`PriceUnit` of the currency, cash and fees integers in 1/`FeeUnit` of a tick,
  averages the totals they come from, and weights integers over a common denominator,
  so `floor`, `ceil` and `int` act on the true quotient.  `_execute_order` rounds the
  consideration to the currency unit before it charges the fee (`rounded`, to the even
  unit when it is half way), and the leveraged sizer cuts its dollars to the unit.
  The engine also rounds in floating point; nothing here speaks about that rounding.
  Sales are taxed alike: the assets a caller declares exempt are left out.
* The alpha model, the risk model and the optimiser are a choice of weights at each
  rebalance, the data a choice of prices at each event.  The equity curve is its
  last point and the recorded allocations are their dates.
* The day turns only between launches.  Launches do not overlap: the operations
  manual runs them under one `flock` (`docs/user/kis-live-operations.md`).

## Runs

| Run | Checks | Instance |
|---|---|---|
| `live_safety` | all safety and step properties of the core and the refinement of `OrderLifecycle` | 2 orders of 2 and 1 shares, 3 launches; 824,226 states |
| `live_clean_recovery` | `NeverOverstated` and the liveness property `LaunchEnds` | as above, 2 launches, a quiet venue during recovery |
| `actor_cycle` | the cycle in both modes | a burst of 3 orders |
| `worker_uses` | the worker under any use, and its liveness as settlement uses it | 3 tasks, 3 threads |
| `mailbox` | the mailbox | 2 producers of 3 posts, cap of 2 |
| `backtest_sessions` | sessions of every schedule, long-only and leveraged, and the broker used by hand | 2 assets, 2 prices, 4 decisions, 3 to 5 days across a weekend, prices in fifths of the currency unit, 25% commission and 25% tax on sales; 2 portfolios and 6 calls by hand; 91,546 states |
| `market_data` | the calendar and the gate, the gateway under two threads, the chart walk, the signals, and the liveness of the warm-up | 5 days with a weekend day and 4 calendars, ranges of 3 days in pages of 2; 6 days of history in pages of 2, 2 assets, 2 signals, 3 attempts; 114,554 states |
| `deployment_life` | one ledger over its life | a paper and a real deployment, 2 symbols, 2 orders of up to 3 shares, cash for 2 and for 3 once one is sold, limits of 2 shares and 2 orders per session, a ledger that is new or older than identities (an equity row, a filled order, or one partly filled and open); 5,493,080 states |
| `found_*` | one property each, stated from a comment and violated by the code | |

Why the bounds are enough.  Two orders are needed for one to be finished while the
other works, for the worker to be busy with one while the main thread closes the
other, and for a second order to follow an orphan.  Two shares give a partial
fill, and with it a cumulative report above a watermark above zero.  Three
launches let one leave work, one recover it and crash, and one recover that.  The
burst of three has a first, a middle and a last order.  A cap of two with two
producers fills up, drops and refuses.  A backtest of two assets has a sale and a
purchase in one drain; two prices move between the close an order is sized at and
the opening it is filled at; the sessions start on a Thursday, a Friday, a Saturday
and at midnight, with and without a burn-in date; one asset has no price at first
and joins the universe late; the decisions name one asset, both, or a short.  Two
portfolios let a transfer go to the wrong one, and prices that disappear at one
time of day let the second execution of a drain raise.  Two threads contend for the
throttle; the backoff is shorter than the interval, as in the code, and the rate
limit is longer.  Chart pages of two over six days give full, short, empty and last
pages, with a bar missing, a bar unusable and a late listing.  A calendar range of
three days in pages of two makes the venue answer past the range, and five days let
the file run out.  In `deployment_life` two shares of an order give a partial fill with
a fee estimate that is revised; three shares are clamped or limited; the second
order follows an accepted, lost, crashed or refused first one, so that a purchase is
called behind a sale and behind another purchase; an old order that is open and partly
filled is seeded, and polled with a revised estimate; the symbols are
interchangeable, so the run uses their symmetry.  In `backtest_sessions` five ticks to
the currency unit let a consideration be rounded up, and with no more cash than the
shares cost the account is really overdrawn by the fee on it.

Fairness.  `LiveSession!FairSpec` assumes that the main thread and the fill worker
keep running and that the clock reaches the deadline: threads of one process under
a fair scheduler, and gateway calls bounded by the HTTP timeout the gateway
imposes.  Nothing is assumed of the venue, the operator or cron.
`ActorCycle!FairSpec` assumes only the engine's own steps on the main thread
(`Engine`): a strategy may hang for ever, on its own thread and, in synchronous mode, on
the main thread.
`TaskQueueWorker!FairSpec` assumes the thread runs and that a wait whose condition
holds returns; timeouts are never needed.  `Mailbox!FairSpec` assumes that a
producer that holds the lock goes on and that the consumer keeps taking.
`MarketData!Fairness` assumes that time passes and that a thread that can go on
does: no more than the scheduler and the HTTP timeout give.  Nothing is assumed of
the venue's answers, and fetches and launches need not happen.

Deadlock is checked in the `live_*` runs.  A mailbox, a worker or a finished cycle
may fall idle for ever, a backtest ends, a launch has decided and a deployment is
promoted or its bounds are reached, so their runs switch the check off.

### Properties

* `LedgerTelescopes`, `WatermarksInOrder`: fill rows add up to the largest total
  they are keyed by, and the portfolio's and the poller's watermarks <= the ledger's <=
  the venue's, across every interleaving, failed task and crash.  The portfolio's and
  the poller's are not comparable: an interrupted settlement books what is in the buffer
  before the poll that put it there has moved its own watermark.
* `EveryOpenOrderTracked`, `EvidenceOfEveryOrder`: no working order is forgotten
  by memory, and none exists without a row.
* `SingleWriter`, `ClosedWithEverythingBooked`: the drain barrier does what the
  code says it is for.  The interrupted path (`settle`'s `finally` after a stop that
  timed out) books beside a running poll; it closes nothing.
* `EquityCountsEveryFill`: the day is not valued before every fill the venue
  reported is booked.
* `ImplementsLifecycle`: refinement of `OrderLifecycle`.
* `NeverOverstated`, `LaunchEnds`.
* `SettledAfterDecision`, `StopReachesTheSession`, `TradedIsHonest`.
* `CycleEnds`: a threaded cycle ends whatever the strategy does; a synchronous one, the
  default, ends unless the strategy hangs on the main thread, where it has no budget.
* `RunInOrder`, `AnswersAreTrue`, `CallsReturn`: tasks run once, in order and by one
  thread, the barrier and the stop are believed only when they are right, and both
  return.
* `NothingLost`, `EveryPostAccountedFor`, `EventuallyTaken`: the mailbox, whose
  consumer takes without the producers' lock.
* `HeadsForTarget`, `TradesAtOpenings`: orders are sized from the holdings alone,
  which is right only because the exchange is closed at the closing time, every
  order is filled at the next opening and no two rebalances fall between; nothing is
  filled at the price it was sized with unless it was sized in market hours.
* `EquityIsProfit`: the four profit formulas of `Position` against the account,
  through transfers, refused calls and executions that raise.
* `ScheduleIsMet`, `OrdersLostOnlyByExceptions`.
* `OverdraftIsRounding`: the fee the sizer reserves covers the purchases of a long-only
  buy-and-hold session but for the fee on what rounding adds to a consideration; by no
  more than that for each position is the account overdrawn, and in the run it is.
* `PassesAreSpaced`, `CallsAreFew`: what the shared throttle gives, and that nothing,
  neither a retry nor another thread, sends an order a second time.  The pause before an
  order has no property: it is slept outside the lock, and other threads call during it.
* `BuffersAreLatest`, `HistoryIsComplete`, `SignalsAreWarm`, `WarmUpEnds`: a walk cut
  short by a bad page leaves less history and never history with a hole; the burn-in
  count means what it says; no decision is made on an asset without prices; and the
  launch gets that far or refuses.
* `GateFollowsTheVenue`: a launch is let through on exactly the days and hours the
  venue is open and a rebalance is due, although the file may be old, partial or in
  the middle of being rewritten between its two readings.
* `OneDeploymentPerLedger`, `PromotedIsPaper`: whose rows are in a ledger, and what a
  promoted one can contain.  Rows older than identities belong to nobody; an equity row
  among them stops a promotion, an order does not.
* `FeesTelescope`, `FilledIsFinal`: fee rows add up to the last booked estimate although
  each is computed from a watermark that a crash loses and recovery has to restore; and
  an order closed as FILLED, a refused or cancelled one included, has every share
  on record.
* `ClampedIsCovered`: what is clamped against the seeded balance is covered by the
  account, for every sale, and for every purchase until the venue has taken another
  purchase of the burst; sales, refused orders and failed calls in between change
  nothing.  After that it may not be: the cash is reduced only by fills.
* `HaltIsExplained`: the position comparison stops a deployment only after a trade
  by hand, a balance that was read ahead of the reports, or one that was read while a
  sale was still working, never because of a crash alone.  The last exception was found
  by the proof, on three orders where the run has two: a launch beside a working sale
  buys on a balance that still has the shares, the sale fills, the launch dies, and an
  empty report leaves the next comparison with the purchase and without the sale.

Type invariants are in the inductive invariants (`TypeOK` of the live core,
`GatewayTypeOK`); the other modules' runs spend their properties on behaviour.

### What comments say and the code does not do

* `found_double_booking`: recovery polls first and seeds from the balance
  afterwards, while its comment relies on the seeding having come first.  A fill
  that the recovery poll did not see is booked a second time on top of the balance.
  `live_clean_recovery` shows that this window is the only cause.
* `found_late_fills`: an order left STALE is out of `open_orders` and out of
  `get_open_orders`, so no later `update` absorbs its fills.
* `found_promoted_unknown_fate`: the promotion check is to require "no order whose
  fate is unknown" and looks for intents without a number.  Recovery closes an orphan
  as REJECTED, and so does `submit_order` when an acknowledgement is lost, so the order
  may be working or filled at the venue in a promoted deployment.
* `found_not_sold_out`: the long-only sizer subtracts the fee of a sale from a target
  of zero and floors, so an asset that is to be sold out is sold short by a share
  (by more, when the fee exceeds a share's price; then by the leveraged sizer too).
  The live broker clamps the sale to the holding, so only backtests end up short.

Observed while modelling, without a run of their own: the gateway says of an order
call that timed out that it "is recorded as submitted and will be reconciled"
(`kis_gateway.py:539`), where `submit_order` records every exception as REJECTED; a
halt for an orphan lasts one launch, since the orphan is closed in the same pass;
`post_command` tests the latch and posts without a lock, so a command can be queued
after the last drain; the throttle's "Minimum wall time between any two calls"
(`kis_gateway.py:47`) does not hold for calls: retries are spaced by the backoff
alone, which is shorter, and an order sleeps outside the lock, so another thread's
call may come right before it, although `place_market_order` says that "the gateway
avoids the limit instead of recovering from it" (`kis_gateway.py:506`); a ledger older
than identities that has orders and no equity row, once a paper launch has stamped it,
passes `_check_ledger_is_paper`, which reads the modes of the equity rows only, and is
promoted with orders nobody can attribute; a full chart page with a row that does not parse looks
short and ends the walk, although there is earlier data; an asset that joins a
dynamic universe late has unfilled buffers although the burn-in has passed, and a
missing price (NaN) passes the check for non-positive ones; the kill switch, thrown
in the middle of a burst, raises through `run_rebalance`, so nothing of that burst is
settled; the promotion check's kill switch criterion is met only if the switch was
thrown between the gate and a submission; a lost acknowledgement does not count
towards `max_orders_per_session`; a launch that finds orders still working sizes and
clamps against the holdings alone, which is why `ClampedIsCovered` leaves such
launches out; a launch within `close_buffer` of the close has a deadline in the past,
so its orders go STALE unpolled, and `_deadline` reads the closing time in the clock's
own zone; a late fetch of the calendar leaves launches without a readable file while
it writes; an order the venue refused
after accepting it is closed as FILLED, because a report is done when nothing
remains; a burst that raised after its first order is reported as not traded, with
the reason 'the strategy produced no decision'; a worker that is started again
after a stop gets no pill, because `_stop_called` is never reset (no caller does
this); `high_water` can miss the deepest moment, since a take may fall between the
put and the reading of the depth.  In the backtest: a buy-and-hold session that
starts at midnight never rebalances, because no event has that timestamp, which is
why `ScheduleIsMet` excludes it, and a daily schedule whose end is earlier in the
day than its start names a last day the engine does not run; the orders of the last
close are never executed; `Portfolio.total_pnl` forgets what deleted positions
realised (the history field `closed_pnl` stands for it); an update that raises loses
the orders behind the one that failed, in every portfolio; and
`get_account_total_market_value` and `output_holdings` call methods that do not
exist.

## Proofs

`LiveSession_proofs` proves for every set of orders, every quantity and any number
of launches, from the assumptions on the constants alone:

* `Invariance`: `Spec => []IInv`;
* `TypeCorrect`, `LedgerIsResumable`, `WatermarksOrdered`, `OpenOrdersTracked`,
  `WriteAhead`, `BarrierGivesSingleWriter`: the invariants of `live_safety`;
* `ClosedWhenBooked`: the step property `ClosedWithEverythingBooked`;
* `Refinement`: `Spec` implements `OrderLifecycle!Spec`.

The inductive invariant `IInv` is the conjunction of eight named parts and the type
invariant.  `WatermarksInOrder` is not inductive: the worker's three writes (row,
buffer, watermark) leave the poller's watermark behind the ledger in between, so
`WatermarkInv` says exactly where; `WorkerInv` says when a worker can be in the
middle of a task at all, which is the drain barrier; `RecordedFirstInv` says that
what is in flight is on record; `NothingLostInv` that what the portfolio lacks of
an open order is in the buffer, in the drain's hands or in the worker's, from which
with `BufferInv` follows that a closed order has been booked; `TrackingInv` ties
memory to the rows; `LedgerInv` and `VenueInv` tie the rows to the venue.  The
proof has one lemma per part, one step per group of actions, and "frame" lemmas
that say which actions touch which variables at all.

Two more parts speak of the portfolio's holding, which `IInv` leaves out.
`FlightInv` says that fills in flight belong to orders of today that are still open,
`HoldingInv` that a seeded portfolio has at least what its watermarks say and, of an
order that is no longer open, at least what is on record.  From them

* `EquityIsComplete`: `Spec => EquityCountsEveryFill`;
* `CleanIsNeverOverstated`: `Spec => []NeverOverstated`, under the constant
  `CleanRecovery` of the run `live_clean_recovery`, that recovery hears of every open
  order and the venue stands still meanwhile.  The hypothesis is needed:
  `found_double_booking` is what happens without it.  Its invariant `CleanInv` says that
  a recovered order is on record up to the venue's figure before the balance is read.

`ActorCycle_proofs` proves `SettlementWaits`, `StopIsNotSwallowed` and
`TradedMeansCompleted`, for any burst size, in both modes.  `CycleInv` ties the two
threads' positions together: in synchronous mode the executor does not exist
(`InlineInv`); in threaded mode the inbox is determined by where both threads are
(`InboxInv`), and past the join, unless it timed out, the executor has ended
(`BarrierInv`); a decision is one command or one attempt, never both (`CommandInv`); and
how a burst ended decides what is counted (`BurstInv`).  `CycleIsBounded` is the half of
`CycleEnds` that needs no fairness: `StepsLeft` bounds the steps the main thread can
still take; each of its steps lowers it and none of the executor's raises it (an inline
decision is one step, however long the strategy takes over it).  A late
command is one more round of the drain and never a second one (`CommandInv`); of all
the main thread's states only the join waits for somebody, and it times out.

`TaskQueueWorker_proofs` proves `TasksRunInOrder` and `AnswersHold` for any number of
tasks, threads and timeouts.  `WorkerInv` says that the thread whose reference is kept is
the only one alive, that what ran, what is in its hand and what is queued are the tasks
in posting order, that a pill is behind everything posted before it, and that
`unfinished` is the queue's length plus the hand.  The half of `CallsReturn` that needs
no fairness is two theorems.  `WaitsAreNotInVain`: used as settle uses it, a call that
cannot answer yet has a running thread with work before it; `UseInv` adds to `WorkerInv`
that a thread that was told to stop has the pill in hand or in its queue, which a
restarted worker's second thread has not.  `EachStepShortensTheWait`: while a call waits,
every step leaves less to do (`WorkLeft`), under any use.

`Mailbox_proofs` proves `MailboxLosesNothing` and `PostsAreAccountedFor` for any
producers, posts and cap.  The queue is what was accepted after what was taken, and a
sentinel only at its end (`QueueInv`); the lock holds one producer (`LockInv`); and calls
add up with the one put that is not counted yet (`CountInv`).  `ConsumerIsNeverStuck` is
the half of `EventuallyTaken` that needs no fairness: while an event or the sentinel is
owed the consumer has something to take, and it is the oldest.

`MarketData_proofs` proves of the gateway, for any number of threads and any intervals:

* `Spacing`: `GatewaySpec => PassesAreSpaced`;
* `NoOrderIsRetried`: `GatewaySpec => []CallsAreFew`.  One call of `place_market_order`
  reaches the venue once at most, and so does an enquiry about an order; a query is
  retried within its attempts; and the lock's holder is a thread that has still to let
  go of it.  `CallsInv` says that a thread on its way to the venue has a call left.

The inductive invariant `GatewayInv` is the type invariant, `ThrottleInv` (only the
lock's holder is inside, and what is left of its sleep plus the age of the last pass
is at least the interval).  Every step of
`MarketData` is a step of the gateway or leaves it alone (`UsesTheGateway`), so that
`CallsKeepTheirDistance` carries both results over to the composition.

Of the calendar, for any closed days, ranges and page sizes:

* `TheGateIsRight`: `Spec => GateFollowsTheVenue`.  `CalendarInv` says that what a fetch
  has seen is a range without a hole from its first day, that a file that reads as whole
  holds exactly the closed days of the range it names, and that a launch that found its
  day covered goes on to load a file that covers it, although the file may have been
  rewritten in between.

Of the signals, for any histories, page sizes, lookbacks, universes and answers:

* `WarmPricesAreLatest`, `WalkFindsTheHistory`, `BurnInIsReal`.  `DataInv` says that the
  walk has collected every usable close above its cursor and, until it was cut, whole
  pages of them (`WalkInv`), that finished walks are increasing and complete
  (`ClosesInv`), and that a buffer is the fold of `append` over the closes (`BuffersInv`).
* `WalkIsBounded`, the half of `WarmUpEnds` that needs no fairness: `PagesLeft`, at most
  `MaxPages` for each asset, is lowered by every answer, a failed one included, and
  raised by nothing; it is zero exactly when the signals can be warmed.

`Deployment_proofs` proves for any deployments, symbols, prices, limits and bounds:

* `OneOwner`: `Spec => []OneDeploymentPerLedger`;
* `PaperOnly`: `Spec => []PromotedIsPaper`;
* `FeesAddUp`: `Spec => []FeesTelescope`;
* `FilledStaysFinal`: `Spec => []FilledIsFinal`;
* `ClampCovers`: `Spec => []ClampedIsCovered`;
* `HaltsAreExplained`: `Spec => []HaltIsExplained`;
* `LedgerIsAnAuditTrail`: `Spec => RowsOnlyLive`, an action property stated with the
  proofs.  No row is taken away, and what was asked, and by whom, is not rewritten; an
  intent is answered once; fills are added one at a time, with a quantity, and only to a
  submitted order; a closed row and its fills never change again.

For the first two, `OwnerInv` says that rows and equity rows are older than identities
or belong to the stamped one (`RowsInv`, `CurveInv`), that a running launch is the identity's
(`SessionInv`, from which the next row follows), and that a promoted ledger passed the
check (`PromotedInv`).  The next two follow from `BaseInv`: every row, its fills and
the venue's record are sound together, and the order of a call in progress is the last
row with nothing on record.  It is inductive only with `MemoryInv`: the watermarks of
the orders a process has open, lost with it and seeded by the next one, are what their
fill rows add up to, so that a round of polls appends what the ledger lacks.  `ClampCovers` adds `QuietInv`: in a launch that found the
venue quiet, of a symbol not sent yet nothing works and the account holds what the
process believes, and until a purchase of the burst has filled (`NothingBought`) it has at
least the cash the process believes, since sales only add to it.  The audit trail adds `AuditInv`: a number, an acknowledgement and a
place for fills go together, and every order a process tracks is submitted, so that
neither recovery nor a late round of polls touches a closed row.  It is to `Deployment`
what `Refinement` is to `LiveSession`, with several orders in one step, a poll and the
close it leads to included.  `HaltsAreExplained` adds `ClaimInv`: what orders may still add to
the engine's idea of a holding by a report of the same day (`Due`), or may still take from the account, is covered by the
account; a crash loses the belief and not the claims, so this is what survives it.

`Backtest_proofs` first proves `EveryRebalanceRuns`, `UseSpec => []ScheduleIsMet`, for any
dates, burn-in and schedule: the dates a schedule computes are found among the engine's
events, and the allocations so far are the rebalance events so far (`ScheduleInv`).  It
uses the assumption that month ends are weekdays, which `end_of_month.py` gets from
pandas' business month end.

Then the simulated broker, for any portfolios, assets, prices, decisions and calls.
`BooksBalance` is its inductive invariant, `MoneyInv`: the broker is well formed
(`SoundBroker`: its three dictionaries have the same keys, every position is open and
was last marked at a time with a price), and what its books tell was paid in (`Paid`:
cash, less realised profit, less what the open positions have brought in) is what was.
Equity is no invariant to induct on, since every mark changes it; what was paid in is,
since marks and trades do not.  The second half of `SoundBroker` is needed because a
mark without a price would make a position worthless; it holds because bars are padded,
which `NextPrices` says of sessions and `HandAssumption` of calls by hand: an asset with
a price at one time has one at every later time.  The proof goes bottom up, from a
transaction (opening, adding, selling in part, closing, reversing), through marking,
draining, executing, updating and rebalancing, to transfers; what an operation does when
it raises is proved too.  From `MoneyInv` follow `WorthIsProfit` (`EquityIsProfit`, with
the profit formulas of `Position`), `NoLookAhead` (`TradesAtOpenings`) and
`OrdersAreNotLost` (`OrdersLostOnlyByExceptions`).  `BooksHeadForTarget`
(`HeadsForTarget`) adds `HeadingInv`: orders are queued only from a closing to the
opening after it, all have prices, and nothing was booked later than now, so no update
of a session raises and every queue is empty when the next rebalance is sized.  An
account opened at a closing time is the exception that the invariant has to name: its
first opening comes before the account's own time, and passes because nothing is held.

Four theorems are about what a session may spend, raise and keep:

* `CashIsEnough`: `FeesBelowPrice` implies `UseSpec => []OverdraftIsRounding`.  With
  a rate r on purchases, of an asset's share x of the equity the sizer spends at most
  (1 - r)x on shares, which costs at most (1 - r)(1 + r)x, no more than x, at the same
  prices; the shares of the equity add up to no more than the equity (`SumScale`,
  `SharesOfWhole` in `DataLemmas`), and flooring only lowers what is bought.  The fee
  charged is on the rounded consideration, which is at most half a unit above the true
  one (`RoundedIs`): one `RoundingFee` for each purchase, and a position is one purchase,
  since each order buys the whole of its asset's goal (`BoughtOnce`, `SumConstant`).  When
  a tick is a unit, `RoundingFee` is 0.  `ThriftInv` says that such a session buys once: it has traded nothing before, and
  nothing is queued after.  The hypothesis `FeesBelowPrice`, that the fee on a purchase
  is at most its price, holds for every `KoreaStockFeeModel` (only a commission up to 100%
  is charged on purchases) and for a `PercentFeeModel` whose commission and tax add up to at
  most 100%.  Nothing in the code requires it, and without it the property is false: at
  90% and 90%, with whole prices, the estimated cost exceeds an asset's share of the equity, the target becomes
  negative, and the fee on the short sale takes more than the sale brings.
* `SessionsRunThrough`: `UseSpec => FailsOnlyOnDecisions`, an action property stated with
  the proofs.  A running session fails only at a rebalance, and only because the decision
  has a negative weight that the long-only sizer does not take, or names, or the universe
  names, an asset without a price.
* `NothingIsKept`: `UseSpec => []UnreferencedIsNeverKept`, and `SoldOutWithoutFees`:
  `FreeTrading` implies `UseSpec => []UnreferencedIsSoldOut`.  They delimit the finding
  `found_not_sold_out`: what the sizer gets wrong is only that it sells too much, and it
  takes a fee to get it wrong; under `ZeroFeeModel`, the broker's default, the comment it
  contradicts is true.

The induction theorems of the library take an operator as a parameter, which no
installed prover can instantiate.  `DataLemmas` states induction with a set in place of
the operator (`NatSetInduction`, `FiniteSetInduction`): the numbers, or the subsets, for
which the formula holds.  Membership is first-order, so these lemmas can be cited, and
what the folds of the community modules compute is proved for every input: sums over
orders and symbols, greatest and least days, pages, buffers.

A loop of the broker is a `FoldLeft` whose step is an operator.  `DataLemmas` proves
with steps as functions that a fold exists, goes index by index, and keeps what each of
its steps keeps (`FoldFollows`); the first lemmas of `Backtest_proofs` apply it to each
loop.

Only model-checked: liveness (`LaunchEnds`, `CycleEnds`, `CallsReturn`,
`EventuallyTaken`, `WarmUpEnds`), which TLAPS does not do under fairness.  Of the last
four the part that is not about fairness is proved, as said above: somebody can move,
or what is left becomes less with every move.  Every other property of a passing run is
a theorem.

## Plan

What is left, in this order:

1. A refinement of `Deployment` by `LiveSession` on their common part, the ledger
   (`Refinement` and `LedgerIsAnAuditTrail` are what both keep of it today).
2. A bound like `CycleIsBounded` for a whole launch, for `LaunchEnds`.
3. The deadline's arithmetic with time zones.

## Not modelled

The statistics and the tearsheet, the fixed fee model, CSV data sources, settings,
environment files and the smoke-test and set-up scripts: pure functions on
floating-point numbers, files and reports, without state that two actors share.  What
a signal, an alpha model or an optimiser computes is a choice.  The parsing of the
venue's answers field by field is left out, as are the paging of balances and marking
to market in the live plane.  The venue is modelled only from how `src/` uses it.
