------------------------------ MODULE Backtest ------------------------------
(***************************************************************************)
(* BacktestTradingSession: the event loop of 'run' over the simulation     *)
(* engine's market opens and closes, with the rebalance schedules, the     *)
(* simulated exchange's hours, the trading system and the broker.          *)
(*                                                                         *)
(* A timestamp is 3 * day + slot, with slot 0 midnight, 1 the opening and  *)
(* 2 the closing time.  Day 0 is a Monday.  Both actors run synchronously  *)
(* in a backtest, so posting RebalanceDue decides, sizes and submits       *)
(* within the event, and an exception ends the run.                        *)
(***************************************************************************)
EXTENDS SimulatedBroker

CONSTANTS
  Assets,        \* asset symbols, as numbers: orders are sorted by symbol
  asset_dates,   \* when each asset joins the (dynamic) universe
  Prices,        \* the prices a bar can have
  Decisions,     \* the weights the alpha model and the optimiser can decide
  InitialCash,   \* initial_cash, in ticks
  Sessions,      \* the sessions to run, see SessionType
  MonthEnds      \* the last business day of each month, as days

SessionType ==
  [rebalance : {"buy_and_hold", "daily", "weekly", "end_of_month"},
   weekday : 0..4, start_dt : Nat, end_dt : Nat, burn_in_dt : Nat,
   long_only : BOOLEAN]

ASSUME BacktestAssumption ==
  /\ Assets \subseteq Nat /\ IsFiniteSet(Assets)
  /\ asset_dates \in [Assets -> Nat]
  /\ Prices \subseteq Nat \ {0}
  /\ \A d \in Decisions : DOMAIN d \subseteq Assets /\ d \in [DOMAIN d -> Int]
  /\ InitialCash \in Nat
  /\ Sessions \subseteq SessionType
  /\ \A s \in Sessions : s.start_dt <= s.end_dt
  /\ NaN \notin Prices
  /\ \A d \in MonthEnds : d \in Nat /\ d % 7 <= 4

VARIABLES
  session,       \* the arguments of the session
  phase,         \* "running", "done", or "failed": an exception left run
  now,           \* the timestamp of the last event
  price,         \* the latest price of each asset
  broker,        \* the SimulatedBroker
  allocations,   \* stats['target_allocations']: the dates of the rebalances
  equity_curve,  \* the last point of the equity curve
  command,       \* history: the last decision that was sized
  target         \* history: the target portfolio it was sized to

(* The one portfolio a session creates and trades.                         *)
PortfolioId == 1

vars == <<session, phase, now, price, broker, allocations, equity_curve,
          command, target>>

---------------------------------------------------------------------------
(* Time *)

Slot(t) == t % 3
Day(t) == t \div 3
OpenOf(day) == 3 * day + 1
CloseOf(day) == 3 * day + 2
IsBusinessDay(day) == day % 7 <= 4

(* The days whose timestamp, at the time of day of start_dt, lies between  *)
(* the two dates: pandas.date_range without normalisation.                 *)
date_range(s) ==
  {d \in Day(s.start_dt)..Day(s.end_dt) :
     LET t == 3 * d + Slot(s.start_dt) IN s.start_dt <= t /\ t <= s.end_dt}

(* DailyBusinessDaySimulationEngine without pre- and post-market events.   *)
sim_events(s) ==
  LET business_days == {d \in date_range(s) : IsBusinessDay(d)}
  IN {OpenOf(d) : d \in business_days} \cup {CloseOf(d) : d \in business_days}

(* Mutant: the exchange is still open at its closing time.                 *)
is_open_inclusive(t) == IsBusinessDay(Day(t)) /\ 1 <= Slot(t) /\ Slot(t) <= 2

(* SimulatedExchange: from the opening time until before the closing time. *)
is_open_at_datetime(t) == IsBusinessDay(Day(t)) /\ 1 <= Slot(t) /\ Slot(t) < 2

(* The four schedules.  Daily normalises both dates to midnight, weekly    *)
(* and end of month do not; buy and hold keeps the time of day of the      *)
(* start and moves it to a business day.                                   *)
buy_and_hold_rebalances(s) ==
  LET day == Min({d \in Day(s.start_dt)..(Day(s.start_dt) + 6) : IsBusinessDay(d)})
  IN {3 * day + Slot(s.start_dt)}

daily_rebalances(s) ==
  {CloseOf(d) : d \in {e \in Day(s.start_dt)..Day(s.end_dt) : IsBusinessDay(e)}}

weekly_rebalances(s) ==
  {CloseOf(d) : d \in {e \in date_range(s) : e % 7 = s.weekday}}

end_of_month_rebalances(s) == {CloseOf(d) : d \in date_range(s) \cap MonthEnds}

rebalance_schedule(s) ==
  CASE s.rebalance = "buy_and_hold" -> buy_and_hold_rebalances(s)
    [] s.rebalance = "daily"        -> daily_rebalances(s)
    [] s.rebalance = "weekly"       -> weekly_rebalances(s)
    [] s.rebalance = "end_of_month" -> end_of_month_rebalances(s)

(* burn_in_dt is 0 when the session has none.                              *)
past_burn_in(t) == t >= session.burn_in_dt

(* Mutant: the burn-in is forgotten.                                       *)
is_rebalance_event_unburnt(t) == t \in rebalance_schedule(session)

is_rebalance_event(t) == past_burn_in(t) /\ t \in rebalance_schedule(session)

get_assets(t) == {a \in Assets : t >= asset_dates[a]}

---------------------------------------------------------------------------
Init ==
  /\ session \in Sessions
  /\ phase = "running"
  /\ now = 0
  /\ price = [a \in Assets |-> NaN]
  /\ broker = subscribe_funds_to_portfolio(
                create_portfolio(Broker0(InitialCash * FeeUnit, session.start_dt), PortfolioId),
                PortfolioId, InitialCash * FeeUnit)
  /\ allocations = {}
  /\ equity_curve = [dt |-> 0, equity |-> 0]
  /\ command = <<>>
  /\ target = [a \in Assets |-> 0]

(* The next event of the engine.                                           *)
Upcoming(t) == /\ t \in sim_events(session)
               /\ t > now
               /\ \A u \in sim_events(session) : u > now => t <= u

(* The prices at an event: a bar, or the padded last one; nothing before   *)
(* the first bar.                                                          *)
NextPrices ==
  {p \in [Assets -> Prices \cup {NaN}] :
     \A a \in Assets : p[a] = NaN => price[a] = NaN}

Positions(b) == b.portfolios[PortfolioId].positions

(* Mutant: the target is submitted instead of the difference to it.        *)
size_and_submit_target(b, t, weights, p) ==
  LET full == full_weights(Positions(b), get_assets(t), weights)
      sized == target_portfolio(session.long_only, b.portfolios[PortfolioId], full, p)
      orders == generate_rebalance_orders(t, sized, <<>>)
  IN IF sizing_raises(session.long_only, full, p)
     THEN [broker |-> [b EXCEPT !.raised = TRUE], target |-> target]
     ELSE [broker |-> execution_handler(b, PortfolioId, t, orders, p, is_open_at_datetime(t)),
           target |-> [a \in Assets |-> IF a \in DOMAIN sized THEN sized[a] ELSE 0]]

(* size_and_submit: orders for the difference between the target and what  *)
(* is held now.  Open orders are not looked at.                            *)
size_and_submit(b, t, weights, p) ==
  LET full == full_weights(Positions(b), get_assets(t), weights)
      sized == target_portfolio(session.long_only, b.portfolios[PortfolioId], full, p)
      orders == generate_rebalance_orders(t, sized, Positions(b))
  IN IF sizing_raises(session.long_only, full, p)
     THEN [broker |-> [b EXCEPT !.raised = TRUE], target |-> target]
     ELSE [broker |-> execution_handler(b, PortfolioId, t, orders, p, is_open_at_datetime(t)),
           target |-> [a \in Assets |-> IF a \in DOMAIN sized THEN sized[a] ELSE 0]]

(* _update_equity_curve, at closes past the burn-in only.                  *)
update_equity_curve(t, b) ==
  IF Slot(t) = 2 /\ past_burn_in(t)
  THEN [dt |-> t, equity |-> get_account_total_equity(b)]
  ELSE equity_curve

(* What an event leaves behind: an exception of the broker ends the run    *)
(* before the equity curve is updated.                                     *)
Finish(t, b) ==
  /\ now' = t
  /\ broker' = b
  /\ phase' = IF b.raised THEN "failed" ELSE "running"
  /\ equity_curve' = IF b.raised THEN equity_curve ELSE update_equity_curve(t, b)

(* An event outside the schedule.                                          *)
PlainEvent(t) ==
  /\ phase = "running" /\ Upcoming(t) /\ ~is_rebalance_event(t)
  /\ price' \in NextPrices
  /\ Finish(t, update(broker, t, price', is_open_at_datetime(t)))
  /\ UNCHANGED <<session, allocations, command, target>>

(* A rebalance, which an update that raised does not let happen.           *)
rebalanced(b, t, weights, p) ==
  IF b.raised THEN [broker |-> b, target |-> target]
  ELSE size_and_submit(b, t, weights, p)

(* An event of the schedule: update, then the whole rebalance, whose       *)
(* allocation is recorded before the sizer can raise.                      *)
RebalanceEvent(t) ==
  /\ phase = "running" /\ Upcoming(t) /\ is_rebalance_event(t)
  /\ price' \in NextPrices
  /\ \E weights \in Decisions :
       LET updated == update(broker, t, price', is_open_at_datetime(t))
           sized == rebalanced(updated, t, weights, price')
       IN /\ Finish(t, sized.broker)
          /\ target' = sized.target
          /\ command' = IF sized.broker.raised THEN command ELSE weights
          /\ allocations' = IF updated.raised THEN allocations ELSE allocations \cup {t}
  /\ UNCHANGED session

(* The loop ends; orders of the last close stay in the queue.              *)
End ==
  /\ phase = "running"
  /\ \A t \in sim_events(session) : t <= now
  /\ phase' = "done"
  /\ UNCHANGED <<session, now, price, broker, allocations, equity_curve,
                 command, target>>

Next == \/ \E t \in sim_events(session) : PlainEvent(t)
        \/ \E t \in sim_events(session) : RebalanceEvent(t)
        \/ End

Spec == Init /\ [][Next]_vars

---------------------------------------------------------------------------
Holding(b, a) == held(Positions(b), a)

(* The shares of an asset that a queue of orders would add.                *)
queued(orders, a) ==
  SumFunction([i \in DOMAIN orders |-> IF orders[i].asset = a THEN orders[i].quantity ELSE 0])

Pending(b, a) == queued(b.open_orders[PortfolioId], a)

(* The broker is also used without a session (SimulatedAccounts); what     *)
(* follows is about sessions.                                              *)
InSession == phase # "by_hand"

(* Holdings and open orders together are always the last target.           *)
(* build_orders takes the difference to the holdings alone, so this needs  *)
(* every order of one rebalance to be executed before the next is sized,   *)
(* and a rebalance that raises to submit nothing.                          *)
HeadsForTarget ==
  InSession =>
    \A a \in Assets : Holding(broker, a) + Pending(broker, a) = target[a]

(* No look-ahead: holdings change at openings only, never at the close     *)
(* whose price the orders were sized with.                                 *)
TradesAtOpenings ==
  [][InSession =>
       \A a \in Assets : Holding(broker', a) # Holding(broker, a) => Slot(now') = 1]_vars

(* A session that runs to its end has rebalanced at exactly the scheduled  *)
(* times past the burn-in, if it ends no earlier in the day than it starts *)
(* and, for buy and hold, starts at an opening or closing time.            *)
ScheduleIsMet ==
  (/\ phase = "done"
   /\ Slot(session.start_dt) <= Slot(session.end_dt)
   /\ session.rebalance = "buy_and_hold" =>
        /\ Slot(session.start_dt) # 0
        /\ buy_and_hold_rebalances(session) \subseteq 0..session.end_dt)
  => allocations = {t \in rebalance_schedule(session) : past_burn_in(t)}

(* The fee on a purchase, in 1/FeeUnit of what is bought, and the most     *)
(* that rounding the consideration adds to the fee on one.                 *)
PurchaseRate == IF TaxOnSalesOnly THEN commission_pct ELSE commission_pct + tax_pct
RoundingFee == (PriceUnit \div 2) * PurchaseRate

(* A long-only buy-and-hold session that trades at an opening is sized and *)
(* filled at the same prices.  The sizer's estimate, a fee on the exact    *)
(* dollars, then covers all of the costs but one: _execute_order charges   *)
(* the fee on the consideration rounded to a whole number of the currency. *)
(* Even without a cash buffer the account is overdrawn by no more than     *)
(* what this adds to the fee on each position, and never when prices are   *)
(* whole.                                                                  *)
OverdraftIsRounding ==
  (/\ InSession
   /\ session.long_only
   /\ session.rebalance = "buy_and_hold"
   /\ Slot(session.start_dt) = 1)
  => broker.portfolios[PortfolioId].cash >= -(RoundingFee * Cardinality(DOMAIN Positions(broker)))

(* "Ensure any Assets in the Broker Portfolio are sold out if they are not *)
(* specifically referenced on the optimised weights"                       *)
(* (src/vmtrader/portcon/pcm.py:103-104, 298-299).                         *)
UnreferencedIsSoldOut ==
  \A a \in Assets \ DOMAIN command : target[a] = 0
=============================================================================
