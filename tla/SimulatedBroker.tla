--------------------------- MODULE SimulatedBroker ---------------------------
(***************************************************************************)
(* SimulatedBroker: the master cash account, the portfolios created in it  *)
(* and their order queues; transfers, submission, marking and execution.   *)
(*                                                                         *)
(* The broker is a record and its operations are operators on it, because  *)
(* the session's handlers call several of them in one step.  'raised' is   *)
(* an exception on its way out of the operation: nothing after it happens, *)
(* and what was done before it stays done.  'portfolio_ids' is the order   *)
(* in which the portfolios were created, which every loop over the         *)
(* dictionaries follows.                                                   *)
(***************************************************************************)
EXTENDS Sizing

Broker0(initial_funds, start_dt) ==
  [cash_balance |-> initial_funds, portfolio_ids |-> <<>>, portfolios |-> <<>>,
   open_orders |-> <<>>, current_dt |-> start_dt, raised |-> FALSE]

Raise(b) == [b EXCEPT !.raised = TRUE]

---------------------------------------------------------------------------
(* Accounts.  Every check comes before the first change.                   *)

(* A dictionary with a new entry.                                          *)
Extended(dict, key, value) ==
  [k \in DOMAIN dict \cup {key} |-> IF k = key THEN value ELSE dict[k]]

create_portfolio(b, id) ==
  IF id \in DOMAIN b.portfolios THEN Raise(b)
  ELSE [b EXCEPT !.portfolio_ids = Append(@, id),
                 !.portfolios = Extended(@, id, [Portfolio0 EXCEPT !.current_dt = b.current_dt]),
                 !.open_orders = Extended(@, id, <<>>)]

subscribe_funds_to_account(b, amount) ==
  IF amount < 0 THEN Raise(b) ELSE [b EXCEPT !.cash_balance = @ + amount]

withdraw_funds_from_account(b, amount) ==
  IF amount < 0 \/ amount > b.cash_balance THEN Raise(b)
  ELSE [b EXCEPT !.cash_balance = @ - amount]

(* The portfolio is credited first, and refuses a time before its own; the *)
(* master account is debited after.                                        *)
subscribe_funds_to_portfolio(b, id, amount) ==
  IF \/ amount < 0
     \/ id \notin DOMAIN b.portfolios
     \/ amount > b.cash_balance
     \/ too_early(b.portfolios[id], b.current_dt)
  THEN Raise(b)
  ELSE [b EXCEPT !.portfolios[id] = subscribe_funds(@, b.current_dt, amount),
                 !.cash_balance = @ - amount]

withdraw_funds_from_portfolio(b, id, amount) ==
  IF \/ amount < 0
     \/ id \notin DOMAIN b.portfolios
     \/ amount > b.portfolios[id].cash
     \/ too_early(b.portfolios[id], b.current_dt)
  THEN Raise(b)
  ELSE [b EXCEPT !.portfolios[id] = withdraw_funds(@, b.current_dt, amount),
                 !.cash_balance = @ + amount]

(* get_account_total_equity: the portfolios, not the master account's cash.*)
get_account_total_equity(b) ==
  SumFunction([id \in DOMAIN b.portfolios |-> total_equity(b.portfolios[id])])

---------------------------------------------------------------------------
(* Orders *)

submit_order(b, id, order) ==
  IF id \notin DOMAIN b.portfolios THEN Raise(b)
  ELSE [b EXCEPT !.open_orders[id] = Append(@, order)]

(* round(), in ticks: to a whole number of the currency, a half to the     *)
(* even one.                                                               *)
rounded(ticks) ==
  LET whole == ticks \div PriceUnit
      twice == 2 * (ticks % PriceUnit)
      down == twice < PriceUnit \/ (twice = PriceUnit /\ whole % 2 = 0)
  IN PriceUnit * (IF down THEN whole ELSE whole + 1)

(* _execute_order: at the latest price, with the fee on the rounded        *)
(* consideration.  An asset without a price raises, and so does a booking  *)
(* before the portfolio's time; the order is then no longer in the queue.  *)
execute_order(b, id, order, price) ==
  IF b.raised THEN b
  ELSE IF price[order.asset] = NaN \/ too_early(b.portfolios[id], b.current_dt)
  THEN Raise(b)
  ELSE LET consideration == rounded(price[order.asset] * order.quantity)
           txn == [asset |-> order.asset, quantity |-> order.quantity,
                   price |-> price[order.asset], dt |-> b.current_dt,
                   commission |-> calc_total_cost(order.quantity, consideration)]
       IN [b EXCEPT !.portfolios[id] = transact_asset(@, txn)]

(* The marking loop of update: every held asset of a portfolio at the      *)
(* price of now.                                                           *)
mark_asset(b, id, asset, price) ==
  IF b.raised THEN b
  ELSE IF mark_too_early(b.portfolios[id], asset, b.current_dt)
  THEN Raise(b)
  ELSE [b EXCEPT !.portfolios[id] =
          update_market_value_of_asset(@, asset, price[asset], b.current_dt)]

mark_portfolio(b, id, price) ==
  FoldLeft(LAMBDA c, a : mark_asset(c, id, a, price), b,
           SetToSeq(DOMAIN b.portfolios[id].positions))

mark_portfolios(b, price) ==
  FoldLeft(LAMBDA c, id : mark_portfolio(c, id, price), b, b.portfolio_ids)

(* sorted(orders, key = direction): stable, sells first.                   *)
with_direction(found, o, sells) ==
  IF (o.order.quantity < 0) = sells THEN Append(found, o) ELSE found

of_direction(orders, sells) ==
  FoldLeft(LAMBDA found, o : with_direction(found, o, sells), <<>>, orders)

sells_then_buys(orders) == of_direction(orders, TRUE) \o of_direction(orders, FALSE)

(* The queues of all portfolios, in the order the portfolios were created. *)
queue_of(b, id) ==
  [j \in DOMAIN b.open_orders[id] |-> [id |-> id, order |-> b.open_orders[id][j]]]

drained_orders(b) ==
  FoldLeft(LAMBDA drained, id : drained \o queue_of(b, id), <<>>, b.portfolio_ids)

emptied(b) == [b EXCEPT !.open_orders = [id \in DOMAIN @ |-> <<>>]]

execute_open_orders(b, price) ==
  FoldLeft(LAMBDA c, o : execute_order(c, o.id, o.order, price), emptied(b),
           sells_then_buys(drained_orders(b)))

(* Mutant: the queues are emptied outside market hours too.                *)
update_forgetful(b, dt, price, open) ==
  LET timed == [b EXCEPT !.current_dt = dt]
      marked == mark_portfolios(timed, price)
  IN IF marked.raised THEN marked
     ELSE IF open THEN execute_open_orders(marked, price)
     ELSE emptied(marked)

(* update: the time, the marks, and in market hours every open order.  The *)
(* queues are drained before the first order is executed.                  *)
update(b, dt, price, open) ==
  LET timed == [b EXCEPT !.current_dt = dt]
      marked == mark_portfolios(timed, price)
  IN IF open /\ ~marked.raised
     THEN execute_open_orders(marked, price)
     ELSE marked

(* ExecutionHandler: each order is submitted and followed by an update, so *)
(* in market hours it is executed before the next one is submitted.        *)
submit_and_update(b, id, dt, order, price, open) ==
  IF b.raised THEN b ELSE update(submit_order(b, id, order), dt, price, open)

execution_handler(b, id, dt, orders, price, open) ==
  FoldLeft(LAMBDA c, o : submit_and_update(c, id, dt, o, price, open), b, orders)
==============================================================================
